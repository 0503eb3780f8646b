--------------------------- MODULE LinkSocketProofs ---------------------------
(***************************************************************************)
(* Proofs about LinkSocket, for any number of sockets and any capacity of  *)
(* the channels.                                                           *)
(*                                                                         *)
(* A step of a socket's own threads is an Advance of its flags and program *)
(* counters: one lemma shows that no Advance disturbs the rest, so that    *)
(* each of those actions has only to be shown an Advance.  The UI thread's *)
(* actions are taken one by one.                                           *)
(***************************************************************************)
EXTENDS LinkSocket, TLAPS

Early == {"unborn", "establish", "attempt", "setup"}
Dead == {"join", "finish", "ended"}
Thread == [pc : SocketPc, writer : WriterPc, stop : BOOLEAN, connected : BOOLEAN,
           finished : BOOLEAN]

\* What the fields of one thread record promise each other.
Local(t) ==
  /\ t.pc \in Early \union {"writer"} => t.writer = "none"
  /\ t.pc \in {"finish", "ended"} => t.writer \in {"none", "ended"}
  /\ t.pc \in {"writer", "loop", "read", "stop", "clear"} => t.connected
  /\ t.connected => t.pc \notin Early
  /\ t.finished => t.pc = "ended"

\* The UI thread works on the live socket, but for the last step of a drop.
UiAgrees ==
  /\ link.socket # 0 => th[link.socket].pc # "unborn"
  /\ ui.s # 0 => th[ui.s].pc # "unborn"
  /\ ui.next # 0 => th[ui.next].pc # "unborn" /\ ui.pc \in {"close", "stop", "join"}
  /\ ui.pc = "frame" => ui = Idle
  /\ ui.pc # "frame" => ui.s # 0
  /\ ui.pc \notin {"frame", "detach"} => ui.s = link.socket
  /\ ui.pc = "detach" => th[ui.s].pc = "ended"
  /\ link.attached => link.socket # 0 /\ th[link.socket].pc \notin Early

\* What the UI thread loaded from the flags is still true of a thread that is past it.
LoadsHold ==
  /\ ui.pc = "pump" => th[ui.s].finished
  /\ ui.died => ui.s # 0 /\ th[ui.s].pc = "ended"
  /\ ui.reap => ui.s # 0 /\ th[ui.s].pc \in Dead

GoneEnded == \A s \in Sockets : Gone(s) => th[s].pc = "ended"

IInv == /\ TypeOK
        /\ \A s \in Sockets : Local(th[s])
        /\ UiAgrees /\ LoadsHold /\ GoneEnded

\* A step of a socket's own threads.
Advance(t, u) ==
  /\ u \in Thread /\ Local(u)
  /\ t.pc # "unborn" /\ u.pc # "unborn"
  /\ t.pc = "ended" => u.pc = "ended"
  /\ t.pc \in Dead => u.pc \in Dead
  /\ t.pc \notin Early => u.pc \notin Early
  /\ t.finished => u.finished

ChanOK == /\ chan \in [Sockets -> [out : 0..OutBound, inward : Seq(Packet), closed : BOOLEAN]]
          /\ \A s \in Sockets : Len(chan[s].inward) <= InCap
-----------------------------------------------------------------------------
\* Before the first connect there is no socket and no thread.
LEMMA InitHolds == Init => IInv
  BY SocketAssumption
  DEF Init, IInv, TypeOK, Local, UiAgrees, LoadsHold, GoneEnded, Gone, Made, Sockets, Idle,
      SocketPc, WriterPc, UiPc, Early, Dead, Packet

\* An Advance of one thread keeps the invariant while the UI thread rests.
LEMMA AdvanceKeeps ==
  ASSUME IInv, NEW s \in Sockets, NEW u, Advance(th[s], u), th' = [th EXCEPT ![s] = u],
         UNCHANGED <<link, ui>>, ChanOK', peer' \in [Sockets -> BOOLEAN]
  PROVE  IInv'
<1>1. th'[s] = u /\ \A r \in Sockets \ {s} : th'[r] = th[r]
  BY DEF IInv, TypeOK
<1>2. TypeOK'
  BY DEF IInv, TypeOK, Advance, Thread, ChanOK
<1>3. \A r \in Sockets : Local(th'[r])
  BY <1>1 DEF IInv, Advance
<1>4. \A r \in Sockets : Advance(th[r], th'[r]) \/ th'[r] = th[r]
  BY <1>1
<1>5. link.socket \in Sockets \union {0} /\ ui.s \in Sockets \union {0}
      /\ ui.next \in Sockets \union {0}
  BY DEF IInv, TypeOK
<1>6. UiAgrees'
  BY <1>4, <1>5 DEF IInv, UiAgrees, Advance, Idle
<1>7. LoadsHold'
  BY <1>4, <1>5 DEF IInv, UiAgrees, LoadsHold, Advance
<1>8. GoneEnded'
  BY <1>4, <1>5 DEF IInv, GoneEnded, Gone, Made, Advance
<1> QED BY <1>2, <1>3, <1>6, <1>7, <1>8 DEF IInv, Local

\* Every step of a socket thread is an Advance, or leaves the flags alone.
LEMMA SocketThreadKeeps == \A s \in Sockets : IInv /\ SocketThread(s) => IInv'
<1> SUFFICES ASSUME NEW s \in Sockets, IInv, SocketThread(s) PROVE IInv'
  OBVIOUS
<1> DEFINE t == th[s]
<1>0. t \in Thread /\ Local(t) /\ ChanOK
  BY DEF IInv, TypeOK, Thread, ChanOK
<1>1. \A f, pc : goes(s, pc, f) => th' = [th EXCEPT ![s] = [f EXCEPT !.pc = pc]]
  BY DEF goes
<1>2. ASSUME NEW pc \in SocketPc, NEW f \in Thread, goes(s, pc, f),
             Advance(t, [f EXCEPT !.pc = pc]), UNCHANGED <<link, ui>>, ChanOK',
             peer' \in [Sockets -> BOOLEAN]
      PROVE  IInv'
  BY <1>1, <1>2, AdvanceKeeps
<1>3. UNCHANGED chan => ChanOK'
  BY <1>0 DEF ChanOK
<1>4. peer \in [Sockets -> BOOLEAN]
  BY DEF IInv, TypeOK
<1>5. CASE Establish(s)
  BY <1>0, <1>2, <1>3, <1>4, <1>5, ZenonT(40)
  DEF Establish, Advance, Thread, Local, SocketPc, Early, Dead
<1>6. CASE Attempt(s)
  <2>1. t.pc = "attempt" /\ UNCHANGED <<link, ui, chan>> /\ peer' \in [Sockets -> BOOLEAN]
    BY <1>4, <1>6 DEF Attempt
  <2>2. PICK pc \in {"establish", "finish", "setup"} : goes(s, pc, t)
    BY <1>6 DEF Attempt
  <2>3. Advance(t, [t EXCEPT !.pc = pc])
    BY <1>0, <2>1 DEF Advance, Thread, Local, SocketPc, Early, Dead
  <2> QED BY <1>0, <1>2, <1>3, <2>1, <2>2, <2>3 DEF SocketPc
<1>7. CASE Setup(s)
  <2>1. t.pc = "setup" /\ UNCHANGED <<link, ui, chan, peer>>
    BY <1>7 DEF Setup
  <2>2. CASE goes(s, "finish", t)
    BY <1>0, <1>2, <1>3, <1>4, <2>1, <2>2, ZenonT(40)
    DEF Advance, Thread, Local, SocketPc, Early, Dead
  <2>3. CASE goes(s, "writer", [t EXCEPT !.connected = TRUE])
    BY <1>0, <1>2, <1>3, <1>4, <2>1, <2>3 DEF Advance, Thread, Local, SocketPc, Early, Dead
  <2> QED BY <1>7, <2>2, <2>3 DEF Setup
<1>8. CASE StartWriter(s)
  <2>1. t.pc = "writer" /\ UNCHANGED <<link, ui, chan, peer>>
    BY <1>8 DEF StartWriter
  <2>2. CASE goes(s, "loop", [t EXCEPT !.writer = "check"])
    BY <1>0, <1>2, <1>3, <1>4, <2>1, <2>2
    DEF Advance, Thread, Local, SocketPc, WriterPc, Early, Dead
  <2>3. CASE goes(s, "finish", t)
    BY <1>0, <1>2, <1>3, <1>4, <2>1, <2>3, ZenonT(40)
    DEF Advance, Thread, Local, SocketPc, Early, Dead
  <2> QED BY <1>8, <2>2, <2>3 DEF StartWriter
<1>9. CASE CheckStop(s)
  <2>1. t.pc = "loop" /\ UNCHANGED <<link, ui, chan, peer>>
    BY <1>9 DEF CheckStop
  <2>2. PICK pc \in {"stop", "read"} : goes(s, pc, t)
    BY <1>9 DEF CheckStop
  <2>3. Advance(t, [t EXCEPT !.pc = pc])
    BY <1>0, <2>1 DEF Advance, Thread, Local, SocketPc, Early, Dead
  <2> QED BY <1>0, <1>2, <1>3, <1>4, <2>1, <2>2, <2>3 DEF SocketPc
<1>10. CASE Read(s)
  <2>1. t.pc = "read" /\ UNCHANGED <<link, ui, peer>>
    BY <1>10 DEF Read
  <2>2. PICK pc \in {"loop", "stop"} : goes(s, pc, t)
    BY <1>10 DEF Read
  <2>3. Advance(t, [t EXCEPT !.pc = pc])
    BY <1>0, <2>1 DEF Advance, Thread, Local, SocketPc, Early, Dead
  <2>4. ASSUME NEW p \in Packet, try_send(s, p) PROVE ChanOK'
    <3> DEFINE new == IF chan[s].closed \/ Len(chan[s].inward) = InCap
                      THEN chan[s].inward ELSE Append(chan[s].inward, p)
    <3>1. new \in Seq(Packet) /\ Len(new) <= InCap
      BY <1>0, SocketAssumption DEF ChanOK
    <3>2. chan' = [chan EXCEPT ![s].inward = new]
      BY <2>4 DEF try_send
    <3> HIDE DEF new
    <3> QED BY <1>0, <3>1, <3>2 DEF ChanOK
  <2>5. ChanOK'
    BY <1>3, <1>10, <2>4 DEF Read
  <2> QED BY <1>0, <1>2, <1>4, <2>1, <2>2, <2>3, <2>5 DEF SocketPc
<1>11. CASE RaiseStop(s)
  BY <1>0, <1>2, <1>3, <1>4, <1>11, ZenonT(40)
  DEF RaiseStop, Advance, Thread, Local, SocketPc, Early, Dead
<1>12. CASE ClearConnected(s)
  BY <1>0, <1>2, <1>3, <1>4, <1>12, ZenonT(40)
  DEF ClearConnected, Advance, Thread, Local, SocketPc, Early, Dead
<1>13. CASE JoinWriter(s)
  BY <1>0, <1>2, <1>3, <1>4, <1>13 DEF JoinWriter, Advance, Thread, Local, SocketPc, Early, Dead
<1>14. CASE Finish(s)
  BY <1>0, <1>2, <1>3, <1>4, <1>14, ZenonT(40)
  DEF Finish, Advance, Thread, Local, SocketPc, Early, Dead
<1> QED
  BY <1>5, <1>6, <1>7, <1>8, <1>9, <1>10, <1>11, <1>12, <1>13, <1>14 DEF SocketThread

\* Every step of a writer thread is an Advance of its socket's record.
LEMMA WriterThreadKeeps == \A s \in Sockets : IInv /\ WriterThread(s) => IInv'
<1> SUFFICES ASSUME NEW s \in Sockets, IInv, WriterThread(s) PROVE IInv'
  OBVIOUS
<1> DEFINE t == th[s]
<1>0. t \in Thread /\ Local(t) /\ ChanOK
  BY DEF IInv, TypeOK, Thread, ChanOK
<1>1. t.writer \in {"check", "recv", "write", "stop"} /\ UNCHANGED <<link, ui, peer>>
  BY DEF WriterThread, WriterCheck, WriterRecv, WriterWrite, WriterStop
<1>2. peer' \in [Sockets -> BOOLEAN]
  BY <1>1 DEF IInv, TypeOK
<1>3. ChanOK'
  <2>1. ASSUME chan' = [chan EXCEPT ![s].out = chan[s].out - 1], chan[s].out > 0
        PROVE  ChanOK'
    <3> DEFINE n == chan[s].out - 1
    <3>1. n \in 0..OutBound
      BY <1>0, <2>1, SocketAssumption DEF ChanOK
    <3>2. chan' = [chan EXCEPT ![s].out = n]
      BY <2>1
    <3> HIDE DEF n
    <3> QED BY <1>0, <3>1, <3>2 DEF ChanOK
  <2>2. UNCHANGED chan \/ (chan[s].out > 0 /\ chan' = [chan EXCEPT ![s].out = chan[s].out - 1])
    BY DEF WriterThread, WriterCheck, WriterRecv, WriterWrite, WriterStop
  <2> QED BY <1>0, <2>1, <2>2 DEF ChanOK
<1>4. \A pc \in WriterPc \ {"none"} : Advance(t, [t EXCEPT !.writer = pc])
  BY <1>0, <1>1 DEF Advance, Thread, Local, SocketPc, WriterPc, Early, Dead
<1>5. Advance(t, [t EXCEPT !.stop = TRUE, !.writer = "ended"])
  BY <1>0, <1>1 DEF Advance, Thread, Local, SocketPc, WriterPc, Early, Dead
<1>6. CASE WriterStop(s)
  <2>1. th' = [th EXCEPT ![s] = [t EXCEPT !.stop = TRUE, !.writer = "ended"]]
    BY <1>6 DEF WriterStop, IInv, TypeOK
  <2> QED BY <1>1, <1>2, <1>3, <1>5, <2>1, AdvanceKeeps
<1>7. CASE WriterCheck(s) \/ WriterRecv(s) \/ WriterWrite(s)
  <2>1. PICK pc \in WriterPc \ {"none"} : writes(s, pc)
    BY <1>7 DEF WriterCheck, WriterRecv, WriterWrite, WriterPc
  <2>2. th' = [th EXCEPT ![s] = [t EXCEPT !.writer = pc]]
    BY <2>1 DEF writes
  <2> QED BY <1>1, <1>2, <1>3, <1>4, <2>2, AdvanceKeeps
<1> QED BY <1>6, <1>7 DEF WriterThread
-----------------------------------------------------------------------------
(* The UI thread. *)

UiState == [pc : UiPc, s : Sockets \union {0}, next : Sockets \union {0}, died : BOOLEAN,
            reap : BOOLEAN]
LinkState == [socket : Sockets \union {0}, attached : BOOLEAN, core : BOOLEAN]

\* An action of the UI thread that leaves the threads' flags alone has only its own
\* variables to answer for.
LEMMA UiKeeps ==
  ASSUME IInv, UNCHANGED <<th, peer>>, link' \in LinkState, ui' \in UiState, ChanOK',
         UiAgrees', LoadsHold', GoneEnded'
  PROVE  IInv'
  BY DEF IInv, TypeOK, LinkState, UiState, ChanOK, Local

\* A packet more for the writer is bounded, and one less to apply as well.
LEMMA EmittedOK == ASSUME ChanOK, NEW s \in Sockets, emitted(s) PROVE ChanOK'
<1> DEFINE n == IF chan[s].out < OutBound THEN chan[s].out + 1 ELSE chan[s].out
<1>1. n \in 0..OutBound
  BY SocketAssumption DEF ChanOK
<1>2. chan' = [chan EXCEPT ![s].out = n]
  BY DEF emitted
<1> HIDE DEF n
<1> QED BY <1>1, <1>2 DEF ChanOK

\* Taking a packet from the reader keeps the channels within their caps.
LEMMA TakenOK ==
  ASSUME ChanOK, NEW s \in Sockets, NEW n \in 0..OutBound, chan[s].inward # <<>>,
         chan' = [chan EXCEPT ![s].inward = Tail(chan[s].inward), ![s].out = n]
  PROVE  ChanOK'
<1> DEFINE rest == Tail(chan[s].inward)
<1>1. rest \in Seq(Packet) /\ Len(rest) <= InCap
  BY SocketAssumption DEF ChanOK
<1> HIDE DEF rest
<1> QED BY <1>1 DEF ChanOK, rest

\* The steps of the menu and of pump up to a drop.
LEMMA PumpKeeps ==
  IInv /\ (\/ MenuDisconnect \/ PumpFinished \/ PumpDied \/ PumpEdge
           \/ \E b \in BOOLEAN : PumpAttach(b) \/ PumpApply(b)) => IInv'
<1> SUFFICES ASSUME IInv,
                    \/ MenuDisconnect \/ PumpFinished \/ PumpDied \/ PumpEdge
                    \/ \E b \in BOOLEAN : PumpAttach(b) \/ PumpApply(b)
             PROVE  IInv'
  OBVIOUS
<1>0. /\ link \in LinkState /\ ui \in UiState /\ ChanOK /\ Idle \in UiState
      /\ th \in [Sockets -> Thread] /\ \A s \in Sockets : Local(th[s])
  BY DEF IInv, TypeOK, LinkState, UiState, ChanOK, Thread, Idle, UiPc
<1>1. UNCHANGED <<th, peer>>
  BY DEF MenuDisconnect, PumpFinished, PumpDied, PumpEdge, PumpAttach, PumpApply
<1>2. UNCHANGED chan => ChanOK'
  BY <1>0 DEF ChanOK
<1>3. link.socket # 0 => link.socket \in Sockets
  BY <1>0 DEF LinkState
<1>4. ui.s # 0 => ui.s \in Sockets
  BY <1>0 DEF UiState
<1>5. CASE MenuDisconnect
  <2>1. /\ ui.pc = "frame" /\ link.socket # 0 /\ UNCHANGED <<link, chan>>
        /\ ui' = [pc |-> "notify", s |-> link.socket, next |-> 0, died |-> FALSE,
                  reap |-> FALSE]
    BY <1>5 DEF MenuDisconnect, Idle
  <2>2. ui' \in UiState /\ link' \in LinkState
    BY <1>0, <1>3, <2>1 DEF UiState, UiPc
  <2>3. UiAgrees' /\ LoadsHold'
    BY <1>1, <2>1 DEF IInv, UiAgrees, LoadsHold
  <2>4. GoneEnded'
    BY <1>1, <2>1 DEF IInv, UiAgrees, GoneEnded, Gone, Made, Idle
  <2> QED BY <1>1, <1>2, <2>1, <2>2, <2>3, <2>4, UiKeeps
<1>6. CASE PumpFinished
  <2> DEFINE pc == IF th[link.socket].finished THEN "pump" ELSE "edge"
  <2>1. /\ ui.pc = "frame" /\ link.socket # 0 /\ UNCHANGED <<link, chan>>
        /\ ui' = [pc |-> pc, s |-> link.socket, next |-> 0, died |-> FALSE, reap |-> FALSE]
    BY <1>6 DEF PumpFinished, Idle
  <2>2. pc \in {"pump", "edge"} /\ (pc = "pump" => th[link.socket].finished)
    OBVIOUS
  <2> HIDE DEF pc
  <2>3. ui' \in UiState /\ link' \in LinkState
    BY <1>0, <1>3, <2>1, <2>2 DEF UiState, UiPc
  <2>4. UiAgrees' /\ LoadsHold'
    BY <1>1, <2>1, <2>2 DEF IInv, UiAgrees, LoadsHold
  <2>5. GoneEnded'
    BY <1>1, <2>1 DEF IInv, UiAgrees, GoneEnded, Gone, Made, Idle
  <2> QED BY <1>1, <1>2, <2>1, <2>3, <2>4, <2>5, UiKeeps
<1>7. CASE PumpDied
  <2>1. /\ ui.pc = "pump" /\ UNCHANGED <<link, chan>> /\ ui.s \in Sockets
        /\ ui' = [ui EXCEPT !.died = ~th[ui.s].connected, !.pc = "edge"]
    BY <1>4, <1>7 DEF PumpDied, IInv, UiAgrees
  <2>2. /\ ui' \in UiState /\ ui'.s = ui.s /\ ui'.next = ui.next /\ ui'.reap = ui.reap
        /\ ui'.pc = "edge"
    BY <1>0, <2>1 DEF UiState, UiPc, Thread
  <2>3. th[ui.s].pc = "ended"
    BY <1>0, <2>1 DEF IInv, LoadsHold, Local
  <2>4. UiAgrees'
    BY <1>1, <2>1, <2>2 DEF IInv, UiAgrees
  <2>5. LoadsHold'
    BY <1>1, <2>1, <2>2, <2>3, <1>3 DEF IInv, UiAgrees, LoadsHold
  <2>6. GoneEnded'
    BY <1>1, <2>1, <2>2 DEF IInv, GoneEnded, Gone, Made
  <2> QED BY <1>0, <1>1, <1>2, <2>1, <2>2, <2>4, <2>5, <2>6, UiKeeps
<1>8. CASE PumpEdge
  <2>1. /\ ui.pc = "edge" /\ UNCHANGED <<link, chan>> /\ ui.s \in Sockets
        /\ ui.s = link.socket /\ ui.next = 0
    BY <1>4, <1>8 DEF PumpEdge, IInv, UiAgrees
  <2>2. CASE (link.attached /\ ~th[ui.s].connected) \/ ui.died
    <3>1. ui' = [ui EXCEPT !.pc = "notify", !.reap = TRUE]
      BY <1>8, <2>2 DEF PumpEdge
    <3>2. /\ ui' \in UiState /\ ui'.s = ui.s /\ ui'.next = ui.next /\ ui'.died = ui.died
          /\ ui'.pc = "notify"
      BY <1>0, <3>1 DEF UiState, UiPc
    <3>3. th[ui.s].pc \in Dead
      BY <1>0, <2>1, <2>2 DEF IInv, UiAgrees, LoadsHold, Local, Thread, SocketPc, Early, Dead
    <3>4. UiAgrees'
      BY <1>1, <2>1, <3>2 DEF IInv, UiAgrees
    <3>5. LoadsHold'
      BY <1>1, <2>1, <3>2, <3>3 DEF IInv, UiAgrees, LoadsHold
    <3>6. GoneEnded'
      BY <1>1, <2>1, <3>2 DEF IInv, GoneEnded, Gone, Made
    <3> QED BY <1>0, <1>1, <1>2, <2>1, <3>2, <3>4, <3>5, <3>6, UiKeeps
  <2>3. CASE ~((link.attached /\ ~th[ui.s].connected) \/ ui.died)
    <3>1. ui' = [ui EXCEPT !.pc = "attached"]
      BY <1>8, <2>3 DEF PumpEdge
    <3>2. /\ ui' \in UiState /\ ui'.s = ui.s /\ ui'.next = ui.next /\ ui'.died = ui.died
          /\ ui'.reap = ui.reap /\ ui'.pc = "attached"
      BY <1>0, <3>1 DEF UiState, UiPc
    <3>3. UiAgrees' /\ LoadsHold'
      BY <1>1, <2>1, <3>2 DEF IInv, UiAgrees, LoadsHold
    <3>4. GoneEnded'
      BY <1>1, <2>1, <3>2 DEF IInv, GoneEnded, Gone, Made
    <3> QED BY <1>0, <1>1, <1>2, <2>1, <3>2, <3>3, <3>4, UiKeeps
  <2> QED BY <2>2, <2>3
<1>9. ASSUME NEW b \in BOOLEAN, PumpAttach(b) PROVE IInv'
  <2>1. /\ ui.pc = "attached" /\ ui.s \in Sockets /\ ui.s = link.socket /\ ui.next = 0
    BY <1>4, <1>9 DEF PumpAttach, IInv, UiAgrees
  <2>2. CASE ~th[ui.s].connected
    <3>1. ui' = Idle /\ UNCHANGED <<link, chan>>
      BY <1>9, <2>2 DEF PumpAttach
    <3>2. UiAgrees' /\ LoadsHold'
      BY <1>1, <2>1, <3>1 DEF IInv, UiAgrees, LoadsHold, Idle
    <3>3. GoneEnded'
      BY <1>1, <2>1, <3>1 DEF IInv, GoneEnded, Gone, Made, Idle
    <3> QED BY <1>0, <1>1, <1>2, <3>1, <3>2, <3>3, UiKeeps
  <2>3. CASE th[ui.s].connected
    <3>1. /\ ui' = [ui EXCEPT !.pc = "apply"]
          /\ link' = [link EXCEPT !.attached = TRUE, !.core = TRUE]
          /\ emitted(ui.s) \/ UNCHANGED chan
      BY <1>9, <2>3 DEF PumpAttach, at
    <3>2. /\ ui' \in UiState /\ ui'.s = ui.s /\ ui'.next = ui.next /\ ui'.died = ui.died
          /\ ui'.reap = ui.reap /\ ui'.pc = "apply"
          /\ link' \in LinkState /\ link'.socket = link.socket
      BY <1>0, <3>1 DEF UiState, UiPc, LinkState
    <3>3. th[ui.s].pc \notin Early
      BY <1>0, <2>1, <2>3 DEF Local
    <3>4. UiAgrees' /\ LoadsHold'
      BY <1>1, <2>1, <3>2, <3>3 DEF IInv, UiAgrees, LoadsHold
    <3>5. GoneEnded'
      BY <1>1, <2>1, <3>2 DEF IInv, GoneEnded, Gone, Made
    <3>6. ChanOK'
      BY <1>0, <1>2, <2>1, <3>1, EmittedOK
    <3> QED BY <1>1, <3>2, <3>4, <3>5, <3>6, UiKeeps
  <2> QED BY <2>2, <2>3
<1>10. ASSUME NEW b \in BOOLEAN, PumpApply(b) PROVE IInv'
  <2>1. /\ ui.pc = "apply" /\ ui.s \in Sockets /\ ui.s = link.socket /\ ui.next = 0
        /\ UNCHANGED link
    BY <1>4, <1>10 DEF PumpApply, IInv, UiAgrees
  <2>2. ui' \in {Idle, [ui EXCEPT !.pc = "notify"], ui}
    BY <1>10 DEF PumpApply, at
  <2>3. ChanOK'
    <3> DEFINE inward == chan[ui.s].inward
               n == IF b /\ chan[ui.s].out < OutBound THEN chan[ui.s].out + 1
                    ELSE chan[ui.s].out
    <3>1. chan[ui.s].out \in 0..OutBound /\ n \in 0..OutBound
      BY <1>0, <2>1, SocketAssumption DEF ChanOK
    <3>2. CASE inward = <<>>
      BY <1>2, <1>10, <3>2 DEF PumpApply
    <3>3. CASE inward # <<>> /\ Head(inward) = "DISCONNECT"
      <4>1. chan' = [chan EXCEPT ![ui.s].inward = Tail(inward)]
        BY <1>10, <3>3 DEF PumpApply
      <4>2. chan' = [chan EXCEPT ![ui.s].inward = Tail(inward), ![ui.s].out = chan[ui.s].out]
        BY <1>0, <2>1, <4>1 DEF ChanOK
      <4> QED BY <1>0, <2>1, <3>1, <3>3, <4>2, TakenOK
    <3>4. CASE inward # <<>> /\ Head(inward) # "DISCONNECT"
      <4>1. chan' = [chan EXCEPT ![ui.s].inward = Tail(inward), ![ui.s].out = n]
        BY <1>0, <1>10, <2>1, <3>4 DEF PumpApply, ChanOK
      <4> HIDE DEF n
      <4> QED BY <1>0, <2>1, <3>1, <3>4, <4>1, TakenOK
    <3> QED BY <3>2, <3>3, <3>4
  <2>4. CASE ui' = Idle
    <3>1. UiAgrees' /\ LoadsHold'
      BY <1>1, <2>1, <2>4 DEF IInv, UiAgrees, LoadsHold, Idle
    <3>2. GoneEnded'
      BY <1>1, <2>1, <2>4 DEF IInv, GoneEnded, Gone, Made, Idle
    <3> QED BY <1>0, <1>1, <2>1, <2>3, <2>4, <3>1, <3>2, UiKeeps
  <2>5. CASE ui' \in {[ui EXCEPT !.pc = "notify"], ui}
    <3>1. /\ ui' \in UiState /\ ui'.s = ui.s /\ ui'.next = ui.next /\ ui'.died = ui.died
          /\ ui'.reap = ui.reap /\ ui'.pc \in {"apply", "notify"}
      BY <1>0, <2>1, <2>5 DEF UiState, UiPc
    <3>2. UiAgrees' /\ LoadsHold'
      BY <1>1, <2>1, <3>1 DEF IInv, UiAgrees, LoadsHold
    <3>3. GoneEnded'
      BY <1>1, <2>1, <3>1 DEF IInv, GoneEnded, Gone, Made
    <3> QED BY <1>0, <1>1, <2>1, <2>3, <3>1, <3>2, <3>3, UiKeeps
  <2> QED BY <2>2, <2>4, <2>5
<1> QED BY <1>5, <1>6, <1>7, <1>8, <1>9, <1>10

\* The steps of a drop, and of a connect that may begin one.
LEMMA DropKeeps ==
  IInv /\ (Notify \/ DropChannels \/ DropStop \/ DropJoin \/ Detach) => IInv'
<1> SUFFICES ASSUME IInv, Notify \/ DropChannels \/ DropStop \/ DropJoin \/ Detach
             PROVE  IInv'
  OBVIOUS
<1>0. /\ link \in LinkState /\ ui \in UiState /\ ChanOK /\ Idle \in UiState
      /\ th \in [Sockets -> Thread] /\ \A s \in Sockets : Local(th[s])
  BY DEF IInv, TypeOK, LinkState, UiState, ChanOK, Thread, Idle, UiPc
<1>1. ui.s \in Sockets
  BY <1>0 DEF IInv, UiAgrees, UiState, Notify, DropChannels, DropStop, DropJoin, Detach
<1>2. ASSUME NEW pc \in {"close", "stop", "join"}, at(pc), ui.s = link.socket,
             ui.pc \in {"notify", "close", "stop"}, UNCHANGED link,
             \A s \in Sockets : th'[s].pc = th[s].pc
      PROVE  ui' \in UiState /\ UiAgrees' /\ LoadsHold' /\ GoneEnded'
  <2>1. /\ ui' \in UiState /\ ui'.s = ui.s /\ ui'.next = ui.next /\ ui'.died = ui.died
        /\ ui'.reap = ui.reap /\ ui'.pc = pc
    BY <1>0, <1>2 DEF at, UiState, UiPc
  <2>2. ui.next # 0 => ui.next \in Sockets
    BY <1>0 DEF UiState
  <2>3. UiAgrees' /\ LoadsHold'
    BY <1>1, <1>2, <2>1, <2>2 DEF IInv, UiAgrees, LoadsHold
  <2>4. GoneEnded'
    BY <1>2, <2>1 DEF IInv, GoneEnded, Gone, Made
  <2> QED BY <2>1, <2>3, <2>4
<1>3. CASE Notify
  <2>1. /\ ui.pc = "notify" /\ at("close") /\ UNCHANGED <<link, th, peer>>
        /\ ui.s = link.socket
    BY <1>3 DEF Notify, IInv, UiAgrees
  <2>2. ChanOK'
    BY <1>0, <1>1, <1>3, EmittedOK DEF Notify, ChanOK
  <2> QED BY <1>0, <1>2, <2>1, <2>2, UiKeeps
<1>4. CASE DropChannels
  <2>1. /\ ui.pc = "close" /\ at("stop") /\ UNCHANGED <<link, th, peer>>
        /\ ui.s = link.socket
    BY <1>4 DEF DropChannels, IInv, UiAgrees
  <2>2. <<>> \in Seq(Packet) /\ Len(<<>>) <= InCap
    BY SocketAssumption
  <2>3. ChanOK'
    BY <1>0, <1>1, <1>4, <2>2 DEF DropChannels, ChanOK
  <2> QED BY <1>0, <1>2, <2>1, <2>3, UiKeeps
<1>5. CASE DropStop
  <2> DEFINE u == [th[ui.s] EXCEPT !.stop = TRUE]
  <2>1. /\ ui.pc = "stop" /\ at("join") /\ UNCHANGED <<link, chan, peer>>
        /\ ui.s = link.socket /\ th' = [th EXCEPT ![ui.s] = u]
    BY <1>5 DEF DropStop, IInv, UiAgrees
  <2>2. u \in Thread /\ Local(u) /\ u.pc = th[ui.s].pc
    <3>1. th[ui.s] \in Thread /\ Local(th[ui.s])
      BY <1>0, <1>1
    <3> QED BY <3>1 DEF Thread, Local
  <2> HIDE DEF u
  <2>3. th' \in [Sockets -> Thread] /\ \A s \in Sockets : Local(th'[s]) /\ th'[s].pc = th[s].pc
    BY <1>0, <1>1, <2>1, <2>2
  <2>4. ui' \in UiState /\ UiAgrees' /\ LoadsHold' /\ GoneEnded'
    BY <1>2, <2>1, <2>3
  <2>5. TypeOK'
    BY <2>1, <2>3, <2>4 DEF IInv, TypeOK, UiState, Thread
  <2> QED BY <2>3, <2>4, <2>5 DEF IInv, Local
<1>6. CASE DropJoin
  <2>1. /\ ui.pc = "join" /\ ui.s = link.socket /\ th[ui.s].pc = "ended"
        /\ UNCHANGED <<th, chan, peer>> /\ link' = reset_to(ui.next)
        /\ ui.next # 0 => th[ui.next].pc # "unborn"
    BY <1>6 DEF DropJoin, IInv, UiAgrees
  <2>2. link' \in LinkState /\ link'.socket = ui.next /\ ~link'.attached
    BY <1>0, <2>1 DEF reset_to, LinkState, UiState
  <2>3. ChanOK'
    BY <1>0, <2>1 DEF ChanOK
  <2>4. CASE ui.next = 0
    <3>1. ui' = [ui EXCEPT !.pc = "detach"]
      BY <1>6, <2>4 DEF DropJoin
    <3>2. /\ ui' \in UiState /\ ui'.s = ui.s /\ ui'.next = 0 /\ ui'.died = ui.died
          /\ ui'.reap = ui.reap /\ ui'.pc = "detach"
      BY <1>0, <2>4, <3>1 DEF UiState, UiPc
    <3>3. UiAgrees' /\ LoadsHold'
      BY <1>1, <2>1, <2>2, <2>4, <3>2 DEF IInv, UiAgrees, LoadsHold
    <3>4. GoneEnded'
      BY <2>1, <2>2, <2>4, <3>2 DEF IInv, GoneEnded, Gone, Made
    <3> QED BY <2>1, <2>2, <2>3, <3>2, <3>3, <3>4, UiKeeps
  <2>5. CASE ui.next # 0
    <3>1. ui' = Idle
      BY <1>6, <2>5 DEF DropJoin
    <3>2. UiAgrees' /\ LoadsHold'
      BY <2>1, <2>2, <3>1 DEF UiAgrees, LoadsHold, Idle
    <3>3. GoneEnded'
      BY <2>1, <2>2, <3>1 DEF IInv, GoneEnded, Gone, Made, Idle
    <3> QED BY <1>0, <2>1, <2>2, <2>3, <3>1, <3>2, <3>3, UiKeeps
  <2> QED BY <2>4, <2>5
<1>7. CASE Detach
  <2>1. /\ ui.pc = "detach" /\ th[ui.s].pc = "ended" /\ ui.next = 0 /\ ui' = Idle
        /\ UNCHANGED <<th, chan, peer>> /\ link' = [link EXCEPT !.core = FALSE]
    BY <1>7 DEF Detach, IInv, UiAgrees
  <2>2. /\ link' \in LinkState /\ link'.socket = link.socket
        /\ link'.attached = link.attached
    BY <1>0, <2>1 DEF LinkState
  <2>3. ChanOK'
    BY <1>0, <2>1 DEF ChanOK
  <2>4. UiAgrees' /\ LoadsHold'
    BY <2>1, <2>2 DEF IInv, UiAgrees, LoadsHold, Idle
  <2>5. GoneEnded'
    BY <2>1, <2>2 DEF IInv, GoneEnded, Gone, Made, Idle
  <2> QED BY <1>0, <2>1, <2>2, <2>3, <2>4, <2>5, UiKeeps
<1> QED BY <1>3, <1>4, <1>5, <1>6, <1>7

\* listen_on and connect: the new socket is spawned before the old one is dropped.
LEMMA ConnectKeeps == \A s \in Sockets : IInv /\ Connect(s) => IInv'
<1> SUFFICES ASSUME NEW s \in Sockets, IInv, Connect(s) PROVE IInv'
  OBVIOUS
<1> DEFINE u == [th[s] EXCEPT !.pc = "establish"]
<1>0. /\ link \in LinkState /\ ui \in UiState /\ ChanOK /\ Idle \in UiState
      /\ th \in [Sockets -> Thread] /\ \A r \in Sockets : Local(th[r])
  BY DEF IInv, TypeOK, LinkState, UiState, ChanOK, Thread, Idle, UiPc
<1>1. /\ ui.pc = "frame" /\ ui = Idle /\ th[s].pc = "unborn" /\ UNCHANGED <<chan, peer>>
      /\ th' = [th EXCEPT ![s] = u]
  BY DEF Connect, Made, goes, IInv, UiAgrees
<1>2. u \in Thread /\ Local(u) /\ u.pc = "establish"
  BY <1>0, <1>1 DEF Thread, SocketPc, Local, Early
<1> HIDE DEF u
<1>3. /\ th' \in [Sockets -> Thread] /\ \A r \in Sockets : Local(th'[r])
      /\ th'[s].pc = "establish" /\ \A r \in Sockets \ {s} : th'[r] = th[r]
  BY <1>0, <1>1, <1>2
<1>4. link.socket # 0 => link.socket \in Sockets \ {s}
  BY <1>0, <1>1 DEF IInv, UiAgrees, LinkState
<1>5. (\A r \in Sockets : r # 0) /\ ui.s = 0 /\ ui.next = 0
  BY <1>1 DEF Sockets, Idle
<1>6. CASE link.socket = 0
  <2>1. link' = reset_to(s) /\ ui' = ui
    BY <1>6 DEF Connect
  <2>2. link' \in LinkState /\ link'.socket = s /\ ~link'.attached
    BY <1>0, <2>1 DEF reset_to, LinkState
  <2>3. UiAgrees' /\ LoadsHold'
    BY <1>1, <1>3, <2>1, <2>2 DEF UiAgrees, LoadsHold, Idle
  <2>4. GoneEnded'
    BY <1>1, <1>3, <1>5, <1>6, <2>1, <2>2 DEF IInv, GoneEnded, Gone, Made
  <2>5. TypeOK'
    BY <1>0, <1>1, <1>3, <2>1, <2>2 DEF IInv, TypeOK, LinkState, Thread
  <2> QED BY <1>3, <2>3, <2>4, <2>5 DEF IInv, Local
<1>7. CASE link.socket # 0
  <2>1. /\ UNCHANGED link
        /\ ui' = [pc |-> "close", s |-> link.socket, next |-> s, died |-> FALSE,
                  reap |-> FALSE]
    BY <1>7 DEF Connect, Idle
  <2>2. UiAgrees' /\ LoadsHold'
    BY <1>1, <1>3, <1>4, <1>7, <2>1 DEF IInv, UiAgrees, LoadsHold
  <2>3. GoneEnded'
    BY <1>1, <1>3, <1>4, <1>5, <1>7, <2>1 DEF IInv, GoneEnded, Gone, Made
  <2>4. ui' \in UiState
    BY <1>4, <1>7, <2>1 DEF UiState, UiPc
  <2>5. TypeOK'
    BY <1>1, <1>3, <2>1, <2>4 DEF IInv, TypeOK, UiState, Thread
  <2> QED BY <1>3, <2>2, <2>3, <2>5 DEF IInv, Local
<1> QED BY <1>6, <1>7

\* The peer owes nothing and shares nothing but the stream.
LEMMA PeerKeeps == \A s \in Sockets : IInv /\ PeerCloses(s) => IInv'
  BY DEF PeerCloses, IInv, TypeOK, Local, UiAgrees, LoadsHold, GoneEnded, Gone, Made, Idle
-----------------------------------------------------------------------------
\* The inductive invariant: threads, UI thread and what it loaded from their flags agree.
THEOREM Inductive == Spec => []IInv
<1>1. IInv /\ [Next]_vars => IInv'
  <2>1. IInv /\ UNCHANGED vars => IInv'
    BY DEF vars, IInv, TypeOK, Local, UiAgrees, LoadsHold, GoneEnded, Gone, Made, Idle
  <2>2. IInv /\ Next => IInv'
    BY SocketThreadKeeps, WriterThreadKeeps, PumpKeeps, DropKeeps, ConnectKeeps, PeerKeeps
    DEF Next, Pump, Menu
  <2> QED BY <2>1, <2>2
<1> QED BY <1>1, InitHolds, PTL DEF Spec

\* Every field of the UI thread, the socket threads and the channels keeps its type, and
\* no inbound queue outgrows IN_QUEUE_CAP (link.rs:359).
THEOREM TypeCorrect == Spec => []TypeOK
  BY Inductive, PTL DEF IInv

\* For any number of sockets: one that was replaced or disconnected left no thread behind
\* (net_worker.rs:59, link.rs:372).
THEOREM NoneOutlives == Spec => []NoThreadOutlivesItsSocket
<1>1. IInv => NoThreadOutlivesItsSocket
  BY DEF IInv, GoneEnded, NoThreadOutlivesItsSocket, Local
<1> QED BY <1>1, Inductive, PTL

\* Whichever loads of the flags pump mixed, it takes down only a socket whose thread has left
\* its loop (link.rs:518-525).
THEOREM ReapSafe == Spec => []ReapsOnlyTheDead
<1>1. IInv => ReapsOnlyTheDead
  BY DEF IInv, LoadsHold, ReapsOnlyTheDead, Dead
<1> QED BY <1>1, Inductive, PTL
=============================================================================

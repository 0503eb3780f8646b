---------------------------- MODULE LinkExchange ----------------------------
(***************************************************************************)
(* What the Link cable promises two games that never abort a transfer: the *)
(* lockstep byte swap of crates/slopgb/src/link.rs and serial.rs, without  *)
(* packets, queues, sockets or pumps.                                      *)
(*                                                                         *)
(* A master that completes a transfer ships its byte and is held.  It is   *)
(* released by the peer's slave having taken that very byte, by taking a   *)
(* byte the peer's own master shipped, or by the cable being unplugged.    *)
(* Every byte is taken at most once, in order, and none is skipped.        *)
(***************************************************************************)
EXTENDS Naturals

CONSTANT Peers

VARIABLES sent,    \* per peer: bytes its master has shipped
          took,    \* per peer: bytes of its peer its port has taken
          held,    \* per peer: its master is held at completion
          plugged  \* per peer: its port has been told of a peer

xvars == <<sent, took, held, plugged>>

Peer(p) == CHOOSE q \in Peers : q # p

ExInit ==
  /\ sent = [p \in Peers |-> 0]
  /\ took = [p \in Peers |-> 0]
  /\ held = [p \in Peers |-> FALSE]
  /\ plugged = [p \in Peers |-> FALSE]

Ship(p) ==
  /\ plugged[p] /\ ~held[p]
  /\ sent' = [sent EXCEPT ![p] = @ + 1]
  /\ held' = [held EXCEPT ![p] = TRUE]
  /\ UNCHANGED <<took, plugged>>

\* The next byte of the peer: by an armed slave, or swapped by a held master.
TakeByte(p) ==
  /\ plugged[p]
  /\ took[p] < sent[Peer(p)]
  /\ took' = [took EXCEPT ![p] = @ + 1]
  /\ held' = [held EXCEPT ![p] = FALSE]
  /\ UNCHANGED <<sent, plugged>>

Answer(p) ==
  /\ plugged[p] /\ held[p]
  /\ took[Peer(p)] = sent[p]
  /\ held' = [held EXCEPT ![p] = FALSE]
  /\ UNCHANGED <<sent, took, plugged>>

Plug(p) ==
  /\ plugged' = [plugged EXCEPT ![p] = TRUE]
  /\ UNCHANGED <<sent, took, held>>

Unplug(p) ==
  /\ plugged' = [plugged EXCEPT ![p] = FALSE]
  /\ held' = [held EXCEPT ![p] = FALSE]
  /\ UNCHANGED <<sent, took>>

ExNext == \E p \in Peers : Ship(p) \/ TakeByte(p) \/ Answer(p) \/ Plug(p) \/ Unplug(p)

ExSpec == ExInit /\ [][ExNext]_xvars
=============================================================================

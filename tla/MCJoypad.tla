------------------------------- MODULE MCJoypad -------------------------------
\* Joypad for TLC: packets of three bits, of which the first packet's first bit says
\* whether the command has two, and the others what it asks for.
EXTENDS Joypad

MCLength == [p \in Packet |-> 1 + p[1]]
MCPlayers == [p \in Packet |-> CASE p[2] = 0 /\ p[3] = 0 -> 0
                                 [] p[2] = 0 /\ p[3] = 1 -> 2
                                 [] p[2] = 1 /\ p[3] = 0 -> 3
                                 [] OTHER -> IF p[1] = 0 THEN 4 ELSE 1]
MCFeeds == {[i \in 0..3 |-> [dpad |-> {}, buttons |-> IF i = 1 THEN Lines ELSE {}]],
            [i \in 0..3 |-> [dpad |-> IF i = 2 THEN Lines ELSE {}, buttons |-> {}]]}
=============================================================================

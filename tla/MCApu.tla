--------------------------------- MODULE MCApu ---------------------------------
EXTENDS Apu

MCLevels == {[initial |-> 1, add |-> TRUE, period |-> 1],
             [initial |-> 1, add |-> FALSE, period |-> 2],
             [initial |-> 0, add |-> TRUE, period |-> 0],
             [initial |-> 0, add |-> FALSE, period |-> 1]}
=============================================================================

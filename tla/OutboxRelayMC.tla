--------------------------- MODULE OutboxRelayMC ---------------------------
(* Values of the constants of OutboxRelay for TLC.                         *)
EXTENDS OutboxRelay

CONSTANTS w1, w2

TwoWorkers == {w1, w2}
ThreeEvents == 1..3
=============================================================================

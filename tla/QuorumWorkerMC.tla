--------------------------- MODULE QuorumWorkerMC ---------------------------
(* Values of QuorumWorker's constants for TLC. *)
EXTENDS QuorumWorker

CONSTANTS w1, w2, s1, e1, e2, e3, none

Workers == {w1, w2}
Events == {e1, e2, e3}
OneShard == [e \in Event |-> s1]
=============================================================================

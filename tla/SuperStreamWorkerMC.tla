------------------------ MODULE SuperStreamWorkerMC ------------------------
(* Values of SuperStreamWorker's constants for TLC. *)
EXTENDS SuperStreamWorker

CONSTANTS w1, w2, s1, e1, e2

Workers == {w1, w2}
Events == {e1, e2}
OneShard == [e \in Event |-> s1]
=============================================================================

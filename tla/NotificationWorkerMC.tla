------------------------ MODULE NotificationWorkerMC ------------------------
(* Values of NotificationWorker's constants for TLC. *)
EXTENDS NotificationWorker, TLC

CONSTANTS w1, w2, p1, p2, e1, e2, e3

Workers == {w1, w2}
Events == {e1, e2, e3}
TwoPartitions == (e1 :> p1) @@ (e2 :> p1) @@ (e3 :> p2)
=============================================================================

----------------------- MODULE KafkaPricingWorkerMC -----------------------
(* Values of the constants of KafkaPricingWorker for TLC.                  *)
EXTENDS KafkaPricingWorker, TLC

CONSTANTS w1, w2, s1, s2, e1, e2

TwoWorkers == {w1, w2}

OneShardOf == [e \in Event |-> s1]
TwoShardOf == (e1 :> s1) @@ (e2 :> s2)

WarmGroup == 0
FreshGroup == NoOffset

WorkerSymmetry == Permutations(TwoWorkers)
===========================================================================

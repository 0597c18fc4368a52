------------------------------ MODULE PipelineMC ------------------------------
(* Values of Pipeline's constants for TLC. *)
EXTENDS Pipeline

CONSTANTS q1, w1, w2, s1

Workers == {w1, w2}
OneShardOf == [e \in Event |-> s1]
WarmGroup == 0
==============================================================================

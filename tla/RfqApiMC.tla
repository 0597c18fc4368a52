------------------------------- MODULE RfqApiMC -------------------------------
(* Values of RfqApi's constants for TLC. *)
EXTENDS RfqApi, TLC

CONSTANTS c1, c2, c3, p1, p2

Calls == {c1, c2, c3}
Products == {p1, p2}
Symmetric == Permutations(Calls) \cup Permutations(Products)
==============================================================================

----------------------- MODULE RealtimeSubscriptionMC -----------------------
(* Values of RealtimeSubscription's constants for TLC. *)
EXTENDS RealtimeSubscription

CONSTANTS r1, r2

Requests == {r1, r2}
=============================================================================

--------------------------- MODULE AtLeastOnceRelay ---------------------------
(* What the transactional outbox promises, whatever relays it: an event    *)
(* that was stored may reach the broker any number of times, and counts as *)
(* published only when it has reached it.                                  *)
EXTENDS Naturals

CONSTANT Event

VARIABLES
    stored,         \* events of committed transactions
    sent,           \* per event: the copies the broker has
    published       \* events that count as published

vars == <<stored, sent, published>>

Init ==
    /\ stored = {}
    /\ sent = [e \in Event |-> 0]
    /\ published = {}

Store(e) ==
    /\ e \notin stored
    /\ stored' = stored \cup {e}
    /\ UNCHANGED <<sent, published>>

\* A copy may come late, after the event was confirmed.
Deliver(e) ==
    /\ e \in stored
    /\ sent' = [sent EXCEPT ![e] = @ + 1]
    /\ UNCHANGED <<stored, published>>

Confirm(e) ==
    /\ e \in stored \ published
    /\ sent[e] > 0
    /\ published' = published \cup {e}
    /\ UNCHANGED <<stored, sent>>

Next == \E e \in Event : Store(e) \/ Deliver(e) \/ Confirm(e)

Spec == Init /\ [][Next]_vars
==============================================================================

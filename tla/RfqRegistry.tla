----------------------------- MODULE RfqRegistry -----------------------------
(* What the transactional outbox promises those who read it: a revision of *)
(* an RFQ is stored in the step in which the event that announces it is,   *)
(* revisions follow each other, and no event is taken back.  An RFQ that   *)
(* nobody changes, or whose changes fail, keeps its revision.              *)
EXTENDS Integers

CONSTANTS Id, Product

VARIABLES
    registered,     \* RFQs that are stored, in their last revision
    announced       \* revisions that have an event in the outbox

vars == <<registered, announced>>

Init == registered = {} /\ announced = {}

Register(id, product) ==
    LET rfq == [id |-> id, revision |-> 1, product |-> product] IN
    /\ \A r \in registered : r.id # id
    /\ registered' = registered \cup {rfq}
    /\ announced' = announced \cup {rfq}

Change(rfq, product) ==
    LET next == [rfq EXCEPT !.revision = rfq.revision + 1, !.product = product] IN
    /\ registered' = (registered \ {rfq}) \cup {next}
    /\ announced' = announced \cup {next}

Next ==
    \/ \E id \in Id, product \in Product : Register(id, product)
    \/ \E rfq \in registered, product \in Product : Change(rfq, product)

Spec == Init /\ [][Next]_vars
==============================================================================

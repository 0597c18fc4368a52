------------------------------- MODULE Pipeline -------------------------------
(***************************************************************************)
(* The way of an RFQ's registration from the outbox to a pricing worker:   *)
(* OutboxRelay and KafkaPricingWorker side by side, on different processes,*)
(* joined at the topic.  What the outbox hands to the broker is the record *)
(* the pricing workers find in their log, and nothing else writes there.   *)
(***************************************************************************)
EXTENDS Integers, Sequences, FiniteSets

CONSTANTS
    Publisher,      \* outbox publisher processes
    Worker,         \* pricing worker processes
    Event,          \* RFQ registrations, numbered by occurred_at
    Unroutable, Limit, NoClaim, Orphan, MaxFaults, MaxLapses,
    Shard, NoShard, ShardOf, Unreadable, InitialCommit,
    MaxLog, MaxCopies, MaxFailures, MaxEvictions

\* The bounds of the topic never hold the outbox back.
ASSUME PipelineAssumption ==
    /\ MaxCopies > MaxFaults + MaxLapses
    /\ MaxLog >= MaxCopies * Cardinality(Event)

VARIABLES
    stored, published, claim, lapsed, sent, pc, batch, faults, lapses,
    log, committed, rebalancing, members, joined, assignment, saved, status,
    callback, assigned, mailbox, completions, runtime, task, queue, pendings,
    position, dispatching, registry, failures, evictions

Outbox == INSTANCE OutboxRelay WITH Worker <- Publisher
Pricing == INSTANCE KafkaPricingWorker

\* Each side has the constants it asks for.
ASSUME SidesAssumption == Outbox!ConstantsAssumption /\ Pricing!ConstantsAssumption

outboxVars == <<stored, published, claim, lapsed, sent, pc, batch, faults, lapses>>
pricingVars == <<log, committed, rebalancing, members, joined, assignment, saved,
                 status, callback, assigned, mailbox, completions, runtime, task,
                 queue, pendings, position, dispatching, registry, failures,
                 evictions>>
vars == <<outboxVars, pricingVars>>

Init == Outbox!Init /\ Pricing!Init

\* send_and_wait: the record is in the topic, under the key of its RFQ.
Relay(p) == Outbox!Deliver(p) /\ Pricing!Publish(Outbox!Current(p))

\* What the publishers, their table and their clock do away from the topic.
OutboxStep ==
    /\ Outbox!Next
    /\ UNCHANGED sent
    /\ UNCHANGED pricingVars

\* What the pricing workers and the broker do with what is in the topic.
PricingStep ==
    /\ \/ Pricing!CoordinatorStep
       \/ \E w \in Worker :
            \/ Pricing!WorkerStep(w) \/ Pricing!Start(w)
            \/ Pricing!WorkerFails(w) \/ Pricing!Crash(w) \/ Pricing!Evict(w)
    /\ UNCHANGED outboxVars

Next == (\E p \in Publisher : Relay(p)) \/ OutboxStep \/ PricingStep

Spec == Init /\ [][Next]_vars

\* Each process goes on by itself, as in the modules of the two sides.
Fairness ==
    /\ \A p \in Publisher :
        WF_vars(Relay(p) \/ (Outbox!WorkerStep(p) /\ OutboxStep))
    /\ \A e \in Event : WF_vars(Outbox!OrphanLapses(e) /\ OutboxStep)
    /\ WF_vars(Pricing!CoordinatorStep /\ PricingStep)
    /\ \A w \in Worker : WF_vars(Pricing!WorkerStep(w) /\ PricingStep)

FairSpec == Spec /\ Fairness

-----------------------------------------------------------------------------
(* Properties.                                                             *)

\* README: "At-least-once Delivery", from the table to the session.  An event
\* that the outbox counts as published, and so never sends again, has its
\* session in the database, or a record that the group has not committed yet.
NothingLost ==
    \A e \in published :
        \/ e \in saved
        \/ \E i \in DOMAIN log[ShardOf[e]] :
               i > committed[ShardOf[e]] /\ log[ShardOf[e]][i] = e

\* While some publisher and some pricing worker stay up, a registered RFQ that
\* can be sent has its session with the worker that consumes its shard in the
\* end, past failures on either side.
EventuallyPriced ==
    /\ \E p \in Publisher : <>[](pc[p] # "down")
    /\ \E w \in Worker : <>[](status[w] = "running")
    => \A e \in Event \ Unroutable :
         e \in stored ~>
            \E w \in Worker : e \in registry[w] /\ task[w][ShardOf[e]].pc # "none"

-----------------------------------------------------------------------------
(* The inductive invariant: NothingLost follows from it.                   *)

\* What counts as published was sent, and what was sent is in the topic.
PublishedIsSent == \A e \in published : sent[e] > 0

SentIsLogged ==
    \A e \in Event : sent[e] > 0 =>
        \E i \in DOMAIN log[ShardOf[e]] : log[ShardOf[e]][i] = e

PipelineInv ==
    /\ Outbox!InductiveInv /\ Pricing!InductiveInv /\ Pricing!DurableInv
    /\ PublishedIsSent /\ SentIsLogged
=============================================================================

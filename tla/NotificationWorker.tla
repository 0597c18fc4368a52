------------------------- MODULE NotificationWorker -------------------------
(***************************************************************************)
(* The notification workers: one loop per process that takes RFQ events    *)
(* from Kafka (KafkaRfqDomainEventsSubscriber), stores a notification for  *)
(* the assigned trader, pushes it to Redis                                 *)
(* (NotifyAssignedTraderOnRfqRegisteredUseCase) and commits the offset.    *)
(* The loop has no rebalance listener: a partition can move, or its        *)
(* position go back to the committed offset, while a record of it is in    *)
(* work.                                                                   *)
(*                                                                         *)
(* An event names its trader, so (source_event_id, recipient, type) is the *)
(* event.  Offsets count records: committed[p] = n means that n records    *)
(* of p are done.                                                          *)
(***************************************************************************)
EXTENDS Integers, Sequences, Functions

CONSTANTS
    Worker,         \* notification worker processes
    Partition,      \* partitions of the RFQ topic
    NoWorker,
    NoPartition,
    Event,
    PartitionOf,    \* the producer's choice of partition
    Unreadable,     \* the events _deserialize rejects
    FreshGroup,     \* TRUE: the group has no committed offset yet
    MaxLog,         \* bound: records per partition
    MaxRebalances,  \* bound: assignments that touch a live member's partition
    MaxFaults       \* bound: processes killed, or ended by an infrastructure error

NoOffset == -1

ASSUME NotificationAssumption ==
    /\ NoWorker \notin Worker /\ NoPartition \notin Partition
    /\ PartitionOf \in [Event -> Partition]
    /\ Unreadable \subseteq Event
    /\ FreshGroup \in BOOLEAN
    /\ MaxLog \in Nat /\ MaxRebalances \in Nat /\ MaxFaults \in Nat

VARIABLES
    log,            \* per partition: its records
    committed,      \* per partition: the group's committed offset, or NoOffset
    owner,          \* per partition: the group member it is assigned to
    position,       \* per partition: the records its owner has fetched
    loop,           \* per worker: consume_rfq_domain_events and its record
    rows,           \* per event: rows of notifications
    pushes,         \* per event: messages sent to the trader's Redis channel
    rebalances,     \* counted against MaxRebalances
    faults          \* counted against MaxFaults

groupVars == <<committed, owner, position, rebalances>>
vars == <<log, groupVars, loop, rows, pushes, faults>>

-----------------------------------------------------------------------------
Off == [pc |-> "off", partition |-> NoPartition, offset |-> 0]
Polling == [pc |-> "polling", partition |-> NoPartition, offset |-> 0]
Step == {"finding", "saving", "publishing", "acking"}

Up(w) == loop[w] # Off

\* The record that w works on (_current_message), and its event.
InHand(w, p, n) ==
    loop[w].pc \in Step /\ loop[w].partition = p /\ loop[w].offset = n
EventInHand(w) == log[loop[w].partition][loop[w].offset]

Init ==
    /\ log = [p \in Partition |-> <<>>]
    /\ committed = [p \in Partition |-> IF FreshGroup THEN NoOffset ELSE 0]
    /\ owner = [p \in Partition |-> NoWorker]
    /\ position = [p \in Partition |-> 0]
    /\ loop = [w \in Worker |-> Off]
    /\ rows = [e \in Event |-> 0]
    /\ pushes = [e \in Event |-> 0]
    /\ rebalances = 0 /\ faults = 0

-----------------------------------------------------------------------------
(* Kafka.                                                                  *)

\* The outbox publisher sends an event, perhaps for the second time.
Publish(e) ==
    /\ Len(log[PartitionOf[e]]) < MaxLog
    /\ log' = [log EXCEPT ![PartitionOf[e]] = Append(@, e)]
    /\ UNCHANGED <<groupVars, loop, rows, pushes, faults>>

\* auto_offset_reset is left at "latest".
StartingPosition(p) ==
    IF committed[p] = NoOffset THEN Len(log[p]) ELSE committed[p]

\* Mutant: a rebalance abandons the record in work.
AssignAbandoning(p, w) ==
    /\ Up(w)
    /\ owner[p] = NoWorker \/ rebalances < MaxRebalances
    /\ rebalances' = IF owner[p] = NoWorker THEN rebalances ELSE rebalances + 1
    /\ owner' = [owner EXCEPT ![p] = w]
    /\ position' = [position EXCEPT ![p] = StartingPosition(p)]
    /\ loop' = [v \in Worker |-> IF v = owner[p] THEN Polling ELSE loop[v]]
    /\ UNCHANGED <<log, committed, rows, pushes, faults>>

\* The group assigns p to w and w looks up where to start.  When another
\* member, or w itself, has p already, this is a rebalance: the record in
\* work goes on, and nobody waits for it.
Assign(p, w) ==
    /\ Up(w)
    /\ \/ owner[p] = NoWorker /\ UNCHANGED rebalances
       \/ /\ owner[p] # NoWorker /\ rebalances < MaxRebalances
          /\ rebalances' = rebalances + 1
    /\ owner' = [owner EXCEPT ![p] = w]
    /\ position' = [position EXCEPT ![p] = StartingPosition(p)]
    /\ UNCHANGED <<log, committed, loop, rows, pushes, faults>>

-----------------------------------------------------------------------------
(* Processes.                                                              *)

Start(w) ==
    /\ ~Up(w)
    /\ loop' = [loop EXCEPT ![w] = Polling]
    /\ UNCHANGED <<log, groupVars, rows, pushes, faults>>

\* The process ends; subscribe's finally and the provider stop the consumer,
\* or the broker times it out.
ProcessEnds(w) ==
    /\ loop' = [loop EXCEPT ![w] = Off]
    /\ owner' = [p \in Partition |-> IF owner[p] = w THEN NoWorker ELSE owner[p]]
    /\ UNCHANGED <<log, committed, position, rebalances, rows, pushes>>

\* The process is killed, or PostgreSQL, Redis or Kafka raises: main has no
\* handler, and the transaction is rolled back.
Fault(w) ==
    /\ Up(w) /\ faults < MaxFaults
    /\ faults' = faults + 1
    /\ ProcessEnds(w)

-----------------------------------------------------------------------------
(* The loop.                                                               *)

GoTo(w, pc) == loop' = [loop EXCEPT ![w].pc = pc]

HasNext(w, p) ==
    loop[w] = Polling /\ owner[p] = w /\ position[p] < Len(log[p])

\* subscribe yields the next record of some partition of w.
TakeRecord(w, p) ==
    /\ HasNext(w, p) /\ log[p][position[p] + 1] \notin Unreadable
    /\ position' = [position EXCEPT ![p] = @ + 1]
    /\ loop' = [loop EXCEPT ![w] =
           [pc |-> "finding", partition |-> p, offset |-> position[p] + 1]]
    /\ UNCHANGED <<log, committed, owner, rebalances, rows, pushes, faults>>

\* _deserialize raises, and the process ends.
DeserializeFails(w, p) ==
    /\ HasNext(w, p) /\ log[p][position[p] + 1] \in Unreadable
    /\ ProcessEnds(w)
    /\ UNCHANGED faults

\* Mutant: a notification that exists is pushed again.
FindBySourceRepublishing(w) ==
    /\ loop[w].pc = "finding"
    /\ GoTo(w, IF rows[EventInHand(w)] = 0 THEN "saving" ELSE "publishing")
    /\ UNCHANGED <<log, groupVars, rows, pushes, faults>>

\* find_by_source: when there is a notification, execute returns it, and
\* nothing is pushed.
FindBySource(w) ==
    /\ loop[w].pc = "finding"
    /\ GoTo(w, IF rows[EventInHand(w)] = 0 THEN "saving" ELSE "acking")
    /\ UNCHANGED <<log, groupVars, rows, pushes, faults>>

\* save and commit, in one transaction.
SaveNotification(w) ==
    /\ loop[w].pc = "saving" /\ rows[EventInHand(w)] = 0
    /\ rows' = [rows EXCEPT ![EventInHand(w)] = @ + 1]
    /\ GoTo(w, "publishing")
    /\ UNCHANGED <<log, groupVars, pushes, faults>>

\* uq_notification_source_recipient_type: another worker was faster; commit
\* raises and the process ends.
SaveConflicts(w) ==
    /\ loop[w].pc = "saving" /\ rows[EventInHand(w)] > 0
    /\ ProcessEnds(w)
    /\ UNCHANGED faults

\* RedisNotificationPublisher.publish
PublishNotification(w) ==
    /\ loop[w].pc = "publishing"
    /\ pushes' = [pushes EXCEPT ![EventInHand(w)] = @ + 1]
    /\ GoTo(w, "acking")
    /\ UNCHANGED <<log, groupVars, rows, faults>>

\* Mutant: one record too many is committed.
AckOneTooFar(w) ==
    /\ loop[w].pc = "acking" /\ owner[loop[w].partition] = w
    /\ committed' = [committed EXCEPT ![loop[w].partition] = loop[w].offset + 1]
    /\ loop' = [loop EXCEPT ![w] = Polling]
    /\ UNCHANGED <<log, owner, position, rebalances, rows, pushes, faults>>

\* ack commits message.offset + 1.
Ack(w) ==
    /\ loop[w].pc = "acking" /\ owner[loop[w].partition] = w
    /\ committed' = [committed EXCEPT ![loop[w].partition] = loop[w].offset]
    /\ loop' = [loop EXCEPT ![w] = Polling]
    /\ UNCHANGED <<log, owner, position, rebalances, rows, pushes, faults>>

\* The consumer refuses to commit for a partition it has lost.
AckFails(w) ==
    /\ loop[w].pc = "acking" /\ owner[loop[w].partition] # w
    /\ ProcessEnds(w)
    /\ UNCHANGED faults

-----------------------------------------------------------------------------
LoopStep(w) ==
    \/ FindBySource(w) \/ SaveNotification(w) \/ SaveConflicts(w)
    \/ PublishNotification(w) \/ Ack(w) \/ AckFails(w)
    \/ \E p \in Partition : TakeRecord(w, p) \/ DeserializeFails(w, p)

Next ==
    \/ \E e \in Event : Publish(e)
    \/ \E w \in Worker : LoopStep(w) \/ Start(w) \/ Fault(w)
    \/ \E w \in Worker, p \in Partition : Assign(p, w)

Spec == Init /\ [][Next]_vars

\* Loops go on, and the group assigns a partition that nobody has.
Fairness ==
    /\ \A w \in Worker : WF_vars(LoopStep(w))
    /\ \A p \in Partition :
           WF_vars(owner[p] = NoWorker /\ \E w \in Worker : Assign(p, w))

FairSpec == Spec /\ Fairness

-----------------------------------------------------------------------------
(* Properties.                                                             *)

\* The variables have the types of the objects they stand for.
TypeOK ==
    /\ log \in [Partition -> Seq(Event)]
    /\ committed \in [Partition -> Nat \cup {NoOffset}]
    /\ owner \in [Partition -> Worker \cup {NoWorker}]
    /\ position \in [Partition -> Nat]
    /\ loop \in [Worker -> [pc : Step \cup {"off", "polling"},
                            partition : Partition \cup {NoPartition}, offset : Nat]]
    /\ rows \in [Event -> Nat] /\ pushes \in [Event -> Nat]
    /\ rebalances \in Nat /\ faults \in Nat

\* Copies of an event, two workers with one record, crashes and redelivery
\* lead to one notification and at most one push, which comes after it.
PushedAtMostOnce == \A e \in Event : pushes[e] <= rows[e] /\ rows[e] <= 1

\* main: "the offset is committed after the notification has been stored".
CommittedIsNotified ==
    \A p \in Partition : \A n \in 1..committed[p] :
        n \in DOMAIN log[p] /\ rows[log[p][n]] > 0

\* Only a crash or an error between commit and publish loses a push:
\* rebalances, copies and unique-constraint violations do not.
PushesAreLostByFaults ==
    faults = 0 =>
        \A e \in Event : rows[e] > pushes[e] =>
            \E w \in Worker : loop[w].pc = "publishing" /\ EventInHand(w) = e

\* While some worker stays up and no record is unreadable, every record gets
\* its notification.
EventuallyNotified ==
    /\ \E w \in Worker : <>[]Up(w)
    /\ [](\A p \in Partition : Range(log[p]) \cap Unreadable = {})
    =>
        \A p \in Partition, n \in 1..MaxLog :
            n <= Len(log[p]) ~> n <= Len(log[p]) /\ rows[log[p][n]] > 0

-----------------------------------------------------------------------------
(* The inductive invariant.                                                *)

NotifiedUpTo(p, n) == \A i \in 1..n : i \in DOMAIN log[p] /\ rows[log[p][i]] > 0

\* A record in work is one of the log, and has its notification from the
\* commit on; the push is owed by one worker only.
HandInv ==
    \A w \in Worker :
        /\ loop[w].pc \in Step =>
               /\ loop[w].partition \in Partition
               /\ loop[w].offset \in DOMAIN log[loop[w].partition]
        /\ loop[w].pc \in {"publishing", "acking"} => rows[EventInHand(w)] = 1
        /\ loop[w].pc = "publishing" =>
               /\ pushes[EventInHand(w)] = 0
               /\ \A v \in Worker \ {w} :
                      loop[v].pc = "publishing" => EventInHand(v) # EventInHand(w)

\* Inductive, also in a group without offsets.
PushInv == TypeOK /\ HandInv /\ PushedAtMostOnce

\* Whoever owns a partition has fetched notified records, and the one in hand.
PositionInv ==
    \A p \in Partition :
        /\ position[p] <= Len(log[p])
        /\ owner[p] # NoWorker => \A n \in 1..position[p] :
               rows[log[p][n]] > 0 \/ InHand(owner[p], p, n)

\* Inductive when the group has offsets: a record in work follows records that
\* are notified, and a position starts from the committed offset.
OffsetInv ==
    /\ PositionInv /\ CommittedIsNotified
    /\ \A p \in Partition : committed[p] # NoOffset
    /\ \A w \in Worker : loop[w].pc \in Step =>
           NotifiedUpTo(loop[w].partition, loop[w].offset - 1)

NotificationInv == PushInv /\ OffsetInv
=============================================================================

---------------------- MODULE NotificationWorker_proofs ----------------------
(* Proofs about NotificationWorker.                                        *)
EXTENDS NotificationWorker, TLAPS

-----------------------------------------------------------------------------
(* Logs and records.                                                       *)

\* An index of a sequence has an element.
LEMMA Lookup ==
    ASSUME NEW S, NEW s \in Seq(S), NEW n \in DOMAIN s
    PROVE  s[n] \in S /\ n \in 1..Len(s)
  OBVIOUS

\* Publish only appends.
LEMMA LogGrows ==
    ASSUME NotificationAssumption, TypeOK, NEW e \in Event, Publish(e),
           NEW p \in Partition
    PROVE  /\ log'[p] \in Seq(Event) /\ Len(log[p]) <= Len(log'[p])
           /\ \A n \in DOMAIN log[p] : n \in DOMAIN log'[p] /\ log'[p][n] = log[p][n]
  <1>1. PartitionOf[e] \in Partition /\ log \in [Partition -> Seq(Event)]
    BY DEF NotificationAssumption, TypeOK
  <1>2. log' = [log EXCEPT ![PartitionOf[e]] = Append(log[PartitionOf[e]], e)]
    BY DEF Publish
  <1>3. log'[p] = log[p] \/ log'[p] = Append(log[p], e)
    BY <1>1, <1>2
  <1>4. log[p] \in Seq(Event)
    BY <1>1
  <1>5. CASE log'[p] = log[p]
    BY <1>4, <1>5
  <1>6. CASE log'[p] = Append(log[p], e)
    <2>1. /\ log'[p] \in Seq(Event) /\ Len(log'[p]) = Len(log[p]) + 1
          /\ Len(log[p]) \in Nat
          /\ DOMAIN log[p] = 1..Len(log[p]) /\ DOMAIN log'[p] = 1..(Len(log[p]) + 1)
      BY <1>4, <1>6
    <2>2. \A n \in 1..Len(log[p]) : log'[p][n] = log[p][n]
      BY <1>4, <1>6
    <2> QED BY <2>1, <2>2
  <1> QED BY <1>3, <1>5, <1>6

\* A record in work has an event.
LEMMA HandIsRecord ==
    ASSUME TypeOK, HandInv, NEW w \in Worker, loop[w].pc \in Step
    PROVE  /\ loop[w].partition \in Partition /\ loop[w].offset \in Nat \ {0}
           /\ loop[w].offset \in DOMAIN log[loop[w].partition]
           /\ EventInHand(w) \in Event
  <1>1. /\ loop[w].partition \in Partition
        /\ loop[w].offset \in DOMAIN log[loop[w].partition]
    BY DEF HandInv
  <1>2. log[loop[w].partition] \in Seq(Event)
    BY <1>1 DEF TypeOK
  <1> QED BY <1>1, <1>2, Lookup DEF EventInHand

\* So has the record that comes next.
LEMMA NextIsRecord ==
    ASSUME TypeOK, NEW w \in Worker, NEW p \in Partition, HasNext(w, p)
    PROVE  /\ position[p] + 1 \in DOMAIN log[p] /\ position[p] + 1 \in Nat \ {0}
           /\ loop[w].pc = "polling" /\ owner[p] = w
  <1>1. log[p] \in Seq(Event) /\ position[p] \in Nat /\ position[p] < Len(log[p])
    BY DEF TypeOK, HasNext
  <1> QED BY <1>1 DEF HasNext, Polling

\* What a worker that does not step has in hand stays what it is.
LEMMA SameHand ==
    ASSUME NEW v \in Worker, log' = log, loop'[v] = loop[v]
    PROVE  EventInHand(v)' = EventInHand(v)
  BY DEF EventInHand

-----------------------------------------------------------------------------
(* Type correctness.                                                       *)

\* The end of a process keeps the types.
LEMMA EndTypes ==
    ASSUME TypeOK, NEW w \in Worker, ProcessEnds(w), faults' \in Nat
    PROVE  TypeOK'
  BY DEF TypeOK, ProcessEnds, Off

\* A record has the type of loop[w].
LEMMA GoToType ==
    ASSUME TypeOK, NEW w \in Worker, NEW q \in Step, GoTo(w, q)
    PROVE  /\ loop'[w].pc = q /\ loop'[w].partition = loop[w].partition
           /\ loop'[w].offset = loop[w].offset
           /\ \A v \in Worker \ {w} : loop'[v] = loop[v]
           /\ loop' \in [Worker -> [pc : Step \cup {"off", "polling"},
                             partition : Partition \cup {NoPartition}, offset : Nat]]
  BY DEF TypeOK, GoTo

\* A counter of rows or pushes that is increased.
LEMMA Counted ==
    ASSUME NEW f \in [Event -> Nat], NEW e \in Event
    PROVE  [f EXCEPT ![e] = @ + 1] \in [Event -> Nat]
  OBVIOUS

\* Every step keeps TypeOK.
LEMMA NextTypes ==
    ASSUME NotificationAssumption, TypeOK, HandInv, [Next]_vars
    PROVE  TypeOK'
  <1>1. ASSUME NEW e \in Event, Publish(e) PROVE TypeOK'
    <2>1. log' \in [Partition -> Seq(Event)]
      <3>1. \A p \in Partition : log'[p] \in Seq(Event)
        BY <1>1, LogGrows
      <3> QED BY <1>1, <3>1 DEF Publish, TypeOK
    <2> QED BY <1>1, <2>1 DEF Publish, TypeOK, groupVars
  <1>2. ASSUME NEW w \in Worker, FindBySource(w) PROVE TypeOK'
    BY <1>2, GoToType DEF FindBySource, TypeOK, groupVars, Step
  <1>3. ASSUME NEW w \in Worker, SaveNotification(w) \/ PublishNotification(w)
        PROVE  TypeOK'
    <2>1. EventInHand(w) \in Event
      BY <1>3, HandIsRecord DEF SaveNotification, PublishNotification, Step
    <2>2. loop' \in [Worker -> [pc : Step \cup {"off", "polling"},
                        partition : Partition \cup {NoPartition}, offset : Nat]]
      BY <1>3, GoToType DEF SaveNotification, PublishNotification, Step
    <2>3. rows' \in [Event -> Nat] /\ pushes' \in [Event -> Nat]
      <3>1. CASE SaveNotification(w)
        BY <2>1, <3>1, Counted DEF SaveNotification, TypeOK
      <3>2. CASE PublishNotification(w)
        BY <2>1, <3>2, Counted DEF PublishNotification, TypeOK
      <3> QED BY <1>3, <3>1, <3>2
    <2> QED BY <1>3, <2>2, <2>3
            DEF SaveNotification, PublishNotification, TypeOK, groupVars
  <1>4. ASSUME NEW w \in Worker,
               SaveConflicts(w) \/ AckFails(w) \/ \E p \in Partition : DeserializeFails(w, p)
        PROVE  TypeOK'
    BY <1>4, EndTypes DEF SaveConflicts, AckFails, DeserializeFails, TypeOK
  <1>5. ASSUME NEW w \in Worker, Fault(w) PROVE TypeOK'
    <2>1. faults' \in Nat
      BY <1>5 DEF Fault, TypeOK
    <2> QED BY <1>5, <2>1, EndTypes DEF Fault
  <1>6. ASSUME NEW w \in Worker, Ack(w) PROVE TypeOK'
    <2>1. loop[w].partition \in Partition /\ loop[w].offset \in Nat
      BY <1>6, HandIsRecord DEF Ack, Step
    <2> QED BY <1>6, <2>1 DEF Ack, TypeOK, Polling
  <1>7. ASSUME NEW w \in Worker, NEW p \in Partition, TakeRecord(w, p) PROVE TypeOK'
    BY <1>7 DEF TakeRecord, TypeOK, Step
  <1>8. ASSUME NEW w \in Worker, Start(w) PROVE TypeOK'
    BY <1>8 DEF Start, TypeOK, groupVars, Polling
  <1>9. ASSUME NEW w \in Worker, NEW p \in Partition, Assign(p, w) PROVE TypeOK'
    <2>1. log[p] \in Seq(Event) /\ committed[p] \in Nat \cup {NoOffset}
      BY DEF TypeOK
    <2>2. StartingPosition(p) \in Nat
      BY <2>1 DEF StartingPosition
    <2> QED BY <1>9, <2>2 DEF Assign, TypeOK
  <1>10. CASE UNCHANGED vars
    BY <1>10 DEF vars, groupVars, TypeOK
  <1> QED
    BY <1>1, <1>2, <1>3, <1>4, <1>5, <1>6, <1>7, <1>8, <1>9, <1>10 DEF Next, LoopStep

-----------------------------------------------------------------------------
(* Notifications and pushes.                                               *)

\* What HandInv says of one worker, and of two.
Hand(w) ==
    /\ loop[w].pc \in Step =>
           /\ loop[w].partition \in Partition
           /\ loop[w].offset \in DOMAIN log[loop[w].partition]
    /\ loop[w].pc \in {"publishing", "acking"} => rows[EventInHand(w)] = 1
    /\ loop[w].pc = "publishing" => pushes[EventInHand(w)] = 0
Owe(v, w) ==
    loop[v].pc = "publishing" /\ loop[w].pc = "publishing" =>
        EventInHand(v) # EventInHand(w)

LEMMA HandSplit ==
    HandInv <=> /\ \A w \in Worker : Hand(w)
                /\ \A v, w \in Worker : v # w => Owe(v, w)
  BY DEF HandInv, Hand, Owe

\* When rows and pushes stay, and a worker is at no new push or ack, HandInv
\* holds on.
LEMMA QuietHand ==
    ASSUME TypeOK, HandInv, UNCHANGED <<log, rows, pushes>>,
           \A w \in Worker : \/ loop'[w] = loop[w]
                             \/ loop'[w].pc \notin {"publishing", "acking"} /\ Hand(w)'
    PROVE  HandInv'
  <1>1. \A w \in Worker : loop'[w] = loop[w] => Hand(w)'
    BY HandSplit DEF Hand, EventInHand
  <1>2. ASSUME NEW v \in Worker, NEW w \in Worker, v # w PROVE Owe(v, w)'
    BY <1>2, HandSplit DEF Owe, EventInHand
  <1> QED BY <1>1, <1>2, HandSplit DEF HandInv, Hand, Owe

\* The end of a process leaves the other hands alone.
LEMMA EndHand ==
    ASSUME TypeOK, HandInv, NEW w \in Worker, ProcessEnds(w)
    PROVE  HandInv'
  <1>1. loop'[w].pc = "off" /\ \A v \in Worker \ {w} : loop'[v] = loop[v]
    BY DEF ProcessEnds, TypeOK, Off
  <1>2. Hand(w)'
    BY <1>1 DEF Hand, Step
  <1> QED BY <1>1, <1>2, QuietHand DEF ProcessEnds

\* Every step keeps the hands, and one notification with at most one push.
LEMMA PushKept ==
    ASSUME NotificationAssumption, PushInv, [Next]_vars
    PROVE  HandInv' /\ PushedAtMostOnce'
  <1>0. TypeOK /\ HandInv /\ PushedAtMostOnce
    BY DEF PushInv
  <1> USE <1>0
  <1>a. UNCHANGED <<rows, pushes>> => PushedAtMostOnce'
    BY DEF PushedAtMostOnce
  <1>1. ASSUME NEW e \in Event, Publish(e) PROVE HandInv' /\ PushedAtMostOnce'
    <2>1. \A v \in Worker : loop[v].pc \in Step =>
              /\ loop[v].partition \in Partition
              /\ loop[v].offset \in DOMAIN log'[loop[v].partition]
              /\ EventInHand(v)' = EventInHand(v)
      BY <1>1, LogGrows, HandIsRecord DEF Publish, EventInHand
    <2>2. UNCHANGED <<loop, rows, pushes>>
      BY <1>1 DEF Publish
    <2> QED BY <1>a, <2>1, <2>2 DEF HandInv, Step
  <1>2. ASSUME NEW w \in Worker, FindBySource(w) PROVE HandInv' /\ PushedAtMostOnce'
    <2>0. UNCHANGED <<log, rows, pushes>> /\ loop[w].pc = "finding"
      BY <1>2 DEF FindBySource
    <2>1. EventInHand(w) \in Event /\ loop[w].pc \in Step
      BY <2>0, HandIsRecord DEF Step
    <2>2. /\ loop'[w].pc = IF rows[EventInHand(w)] = 0 THEN "saving" ELSE "acking"
          /\ loop'[w].partition = loop[w].partition /\ loop'[w].offset = loop[w].offset
          /\ \A v \in Worker \ {w} : loop'[v] = loop[v]
      BY <1>2, GoToType DEF FindBySource, Step
    <2>3. EventInHand(w)' = EventInHand(w)
      BY <2>0, <2>2 DEF EventInHand
    <2>4. rows[EventInHand(w)] # 0 => rows[EventInHand(w)] = 1
      BY <2>1 DEF PushedAtMostOnce, TypeOK
    <2>5. Hand(w)'
      BY <2>0, <2>1, <2>2, <2>3, <2>4, HandSplit DEF Hand, Step
    <2>6. \A v \in Worker \ {w} : Hand(v)'
      BY <2>0, <2>2, SameHand, HandSplit DEF Hand
    <2>7. \A u, v \in Worker : u # v => Owe(u, v)'
      BY <2>0, <2>2, SameHand, HandSplit DEF Owe
    <2> QED BY <1>a, <2>0, <2>5, <2>6, <2>7, HandSplit DEF HandInv, Hand, Owe
  <1>3. ASSUME NEW w \in Worker, SaveNotification(w) PROVE HandInv' /\ PushedAtMostOnce'
    <2> DEFINE e == EventInHand(w)
    <2>1. e \in Event /\ loop[w].pc = "saving" /\ rows[e] = 0
      BY <1>3, HandIsRecord DEF SaveNotification, Step
    <2>2. pushes[e] = 0
      BY <2>1 DEF PushedAtMostOnce, TypeOK
    <2>3. /\ loop'[w].pc = "publishing"
          /\ loop'[w].partition = loop[w].partition /\ loop'[w].offset = loop[w].offset
          /\ \A v \in Worker \ {w} : loop'[v] = loop[v]
      BY <1>3, GoToType DEF SaveNotification, Step
    <2>4. log' = log /\ pushes' = pushes /\ rows' = [rows EXCEPT ![e] = 1]
      BY <1>3, <2>1 DEF SaveNotification, TypeOK
    <2>5. \A v \in Worker : EventInHand(v)' = EventInHand(v)
      BY <2>3, <2>4 DEF EventInHand
    <2>6. \A v \in Worker \ {w} :
              loop[v].pc \in {"publishing", "acking"} => EventInHand(v) # e
      BY <2>1 DEF HandInv
    <2>7. rows'[e] = 1 /\ \A f \in Event : f # e => rows'[f] = rows[f]
      BY <2>1, <2>4 DEF TypeOK
    <2>8. Hand(w)'
      BY <2>1, <2>2, <2>3, <2>4, <2>5, <2>7, HandSplit DEF Hand, Step
    <2>9. ASSUME NEW v \in Worker \ {w} PROVE Hand(v)'
      <3>1. loop[v].pc \in {"publishing", "acking"} => EventInHand(v) \in Event
        BY HandIsRecord DEF Step
      <3> QED BY <2>3, <2>4, <2>5, <2>6, <2>7, <3>1, HandSplit DEF Hand
    <2>10. ASSUME NEW u \in Worker, NEW v \in Worker, u # v PROVE Owe(u, v)'
      BY <2>3, <2>5, <2>6, <2>10, HandSplit DEF Owe
    <2>11. PushedAtMostOnce'
      BY <2>2, <2>4, <2>7 DEF PushedAtMostOnce
    <2> QED BY <2>8, <2>9, <2>10, <2>11, HandSplit DEF HandInv, Hand, Owe
  <1>4. ASSUME NEW w \in Worker, PublishNotification(w)
        PROVE  HandInv' /\ PushedAtMostOnce'
    <2> DEFINE e == EventInHand(w)
    <2>1. e \in Event /\ loop[w].pc = "publishing" /\ rows[e] = 1 /\ pushes[e] = 0
      BY <1>4, HandIsRecord DEF PublishNotification, Step, HandInv
    <2>2. /\ loop'[w].pc = "acking"
          /\ loop'[w].partition = loop[w].partition /\ loop'[w].offset = loop[w].offset
          /\ \A v \in Worker \ {w} : loop'[v] = loop[v]
      BY <1>4, GoToType DEF PublishNotification, Step
    <2>3. log' = log /\ rows' = rows /\ pushes' = [pushes EXCEPT ![e] = 1]
      BY <1>4, <2>1 DEF PublishNotification, TypeOK
    <2>4. \A v \in Worker : EventInHand(v)' = EventInHand(v)
      BY <2>2, <2>3 DEF EventInHand
    <2>5. \A v \in Worker \ {w} : loop[v].pc = "publishing" => EventInHand(v) # e
      BY <2>1 DEF HandInv
    <2>6. pushes'[e] = 1 /\ \A f \in Event : f # e => pushes'[f] = pushes[f]
      BY <2>1, <2>3 DEF TypeOK
    <2>7. Hand(w)'
      BY <2>1, <2>2, <2>3, <2>4, HandSplit DEF Hand, Step
    <2>8. ASSUME NEW v \in Worker \ {w} PROVE Hand(v)'
      <3>1. loop[v].pc = "publishing" => EventInHand(v) \in Event
        BY HandIsRecord DEF Step
      <3> QED BY <2>2, <2>3, <2>4, <2>5, <2>6, <3>1, HandSplit DEF Hand
    <2>9. ASSUME NEW u \in Worker, NEW v \in Worker, u # v PROVE Owe(u, v)'
      BY <2>2, <2>4, <2>9, HandSplit DEF Owe
    <2>10. PushedAtMostOnce'
      BY <2>1, <2>3, <2>6 DEF PushedAtMostOnce
    <2> QED BY <2>7, <2>8, <2>9, <2>10, HandSplit DEF HandInv, Hand, Owe
  <1>5. ASSUME NEW w \in Worker,
               \/ SaveConflicts(w) \/ AckFails(w) \/ Fault(w)
               \/ \E p \in Partition : DeserializeFails(w, p)
        PROVE  HandInv' /\ PushedAtMostOnce'
    <2>1. ProcessEnds(w)
      BY <1>5 DEF SaveConflicts, AckFails, Fault, DeserializeFails
    <2> QED BY <1>a, <2>1, EndHand DEF ProcessEnds
  <1>6. ASSUME NEW w \in Worker, Ack(w) \/ Start(w)
        PROVE  HandInv' /\ PushedAtMostOnce'
    <2>1. /\ UNCHANGED <<log, rows, pushes>>
          /\ loop'[w].pc = "polling" /\ \A v \in Worker \ {w} : loop'[v] = loop[v]
      BY <1>6 DEF Ack, Start, TypeOK, Polling
    <2>2. Hand(w)'
      BY <2>1 DEF Hand, Step
    <2> QED BY <1>a, <2>1, <2>2, QuietHand
  <1>7. ASSUME NEW w \in Worker, NEW p \in Partition, TakeRecord(w, p)
        PROVE  HandInv' /\ PushedAtMostOnce'
    <2>1. /\ UNCHANGED <<log, rows, pushes>>
          /\ loop'[w] = [pc |-> "finding", partition |-> p, offset |-> position[p] + 1]
          /\ \A v \in Worker \ {w} : loop'[v] = loop[v]
      BY <1>7 DEF TakeRecord, TypeOK
    <2>2. position[p] + 1 \in DOMAIN log[p]
      BY <1>7, NextIsRecord DEF TakeRecord
    <2>3. Hand(w)'
      BY <2>1, <2>2 DEF Hand, Step
    <2>4. loop'[w].pc \notin {"publishing", "acking"}
      BY <2>1
    <2> QED BY <1>a, <2>1, <2>3, <2>4, QuietHand
  <1>8. ASSUME NEW w \in Worker, NEW p \in Partition, Assign(p, w)
        PROVE  HandInv' /\ PushedAtMostOnce'
    BY <1>a, <1>8, QuietHand DEF Assign
  <1>9. CASE UNCHANGED vars
    BY <1>a, <1>9, QuietHand DEF vars
  <1> QED
    BY <1>1, <1>2, <1>3, <1>4, <1>5, <1>6, <1>7, <1>8, <1>9 DEF Next, LoopStep

\* PushInv is inductive, with offsets or without.
THEOREM NotificationsInvariant == Spec => []PushInv
  <1>1. Init => PushInv
    BY NotificationAssumption
    DEF Init, PushInv, TypeOK, HandInv, PushedAtMostOnce, Off, Step, NoOffset,
        NotificationAssumption
  <1>2. PushInv /\ [Next]_vars => PushInv'
    BY NotificationAssumption, NextTypes, PushKept DEF PushInv
  <1> QED BY <1>1, <1>2, PTL DEF Spec

\* The unique constraint and find_by_source give an event one notification,
\* and its trader at most one push, after it (models.py,
\* notify_assigned_trader_on_rfq_registered.py).
THEOREM PushedOnce == Spec => []PushedAtMostOnce
  <1>1. PushInv => PushedAtMostOnce
    BY DEF PushInv
  <1> QED BY <1>1, NotificationsInvariant, PTL
-----------------------------------------------------------------------------
(* Offsets, in a group that has some.                                      *)

\* What OffsetInv says of one partition, and of one worker.
Offsets(p) ==
    /\ position[p] <= Len(log[p])
    /\ owner[p] # NoWorker => \A n \in 1..position[p] :
           rows[log[p][n]] > 0 \/ InHand(owner[p], p, n)
    /\ committed[p] # NoOffset
    /\ NotifiedUpTo(p, committed[p])
Behind(w) ==
    loop[w].pc \in Step => NotifiedUpTo(loop[w].partition, loop[w].offset - 1)

LEMMA OffsetSplit ==
    OffsetInv <=> /\ \A p \in Partition : Offsets(p)
                  /\ \A w \in Worker : Behind(w)
  BY DEF OffsetInv, PositionInv, CommittedIsNotified, Offsets, Behind, NotifiedUpTo

\* Logs and notifications only grow.
LEMMA NotifiedGrows ==
    ASSUME NotificationAssumption, TypeOK, HandInv, [Next]_vars
    PROVE  /\ \A p \in Partition : \A n \in DOMAIN log[p] :
                  n \in DOMAIN log'[p] /\ log'[p][n] = log[p][n]
           /\ \A p \in Partition : Len(log[p]) <= Len(log'[p])
           /\ \A e \in Event : rows[e] > 0 => rows'[e] > 0
  <1>1. CASE \E e \in Event : Publish(e)
    BY <1>1, LogGrows DEF Publish
  <1>2. ASSUME NEW w \in Worker, SaveNotification(w)
        PROVE  log' = log /\ \A e \in Event : rows[e] > 0 => rows'[e] > 0
    <2>1. EventInHand(w) \in Event
      BY <1>2, HandIsRecord DEF SaveNotification, Step
    <2> QED BY <1>2, <2>1 DEF SaveNotification, TypeOK
  <1>3. CASE /\ ~ \E e \in Event : Publish(e)
             /\ ~ \E w \in Worker : SaveNotification(w)
    <2>1. log' = log /\ rows' = rows
      BY <1>3 DEF Next, LoopStep, FindBySource, SaveConflicts, PublishNotification, Ack,
                  AckFails, TakeRecord, DeserializeFails, Start, Fault, ProcessEnds,
                  Assign, vars
    <2>2. \A p \in Partition : Len(log[p]) \in Nat
      BY DEF TypeOK
    <2> QED BY <2>1, <2>2
  <1>4. \A p \in Partition : Len(log[p]) \in Nat
    BY DEF TypeOK
  <1> QED BY <1>1, <1>2, <1>3, <1>4

\* What has been notified stays so.
LEMMA UpToGrows ==
    ASSUME NotificationAssumption, TypeOK, HandInv, [Next]_vars,
           NEW p \in Partition, NEW n \in Int, NotifiedUpTo(p, n)
    PROVE  NotifiedUpTo(p, n)'
  <1>1. log[p] \in Seq(Event)
    BY DEF TypeOK
  <1>2. \A i \in 1..n : i \in DOMAIN log[p] /\ rows[log[p][i]] > 0 /\ log[p][i] \in Event
    BY <1>1, Lookup DEF NotifiedUpTo
  <1> QED BY <1>2, NotifiedGrows DEF NotifiedUpTo

\* A worker whose record stays the same is still behind notified records.
LEMMA StillBehind ==
    ASSUME NotificationAssumption, TypeOK, HandInv, [Next]_vars,
           NEW w \in Worker, Behind(w), loop[w].pc \in Step,
           loop'[w].partition = loop[w].partition, loop'[w].offset = loop[w].offset
    PROVE  Behind(w)'
  <1>1. /\ loop[w].partition \in Partition /\ loop[w].offset - 1 \in Int
        /\ NotifiedUpTo(loop[w].partition, loop[w].offset - 1)
    BY HandIsRecord DEF Behind
  <1>2. NotifiedUpTo(loop[w].partition, loop[w].offset - 1)'
    BY <1>1, UpToGrows
  <1> QED BY <1>2 DEF Behind, NotifiedUpTo

\* A partition keeps its offsets while its owner keeps its record, or leaves it
\* notified.
LEMMA SameOffsets ==
    ASSUME NotificationAssumption, PushInv, [Next]_vars, TypeOK', NEW p \in Partition,
           Offsets(p),
           owner'[p] \in {owner[p], NoWorker},
           position'[p] = position[p], committed'[p] = committed[p],
           owner[p] # NoWorker /\ owner'[p] # NoWorker =>
               \A n \in 1..position[p] : InHand(owner[p], p, n) =>
                   \/ rows[log[p][n]] > 0
                   \/ /\ loop'[owner[p]].pc \in Step
                      /\ loop'[owner[p]].partition = p /\ loop'[owner[p]].offset = n
    PROVE  Offsets(p)'
  <1>0. TypeOK /\ HandInv
    BY DEF PushInv
  <1>1. log[p] \in Seq(Event) /\ log'[p] \in Seq(Event) /\ position[p] \in Nat
        /\ committed[p] \in Int
    BY <1>0 DEF TypeOK, NoOffset
  <1>2. position'[p] <= Len(log'[p])
    BY <1>0, <1>1, NotifiedGrows DEF Offsets
  <1>3. \A i \in 1..committed[p] : i \in DOMAIN log'[p] /\ rows'[log'[p][i]] > 0
    BY <1>0, <1>1, UpToGrows DEF Offsets, NotifiedUpTo
  <1>4. ASSUME owner'[p] # NoWorker, NEW n \in 1..position'[p]
        PROVE  rows'[log'[p][n]] > 0 \/ InHand(owner[p], p, n)'
    <2>1. owner'[p] = owner[p] /\ owner[p] # NoWorker /\ n \in 1..position[p]
      BY <1>4
    <2>2. n \in DOMAIN log[p] /\ log[p][n] \in Event
      BY <1>1, <2>1, Lookup DEF Offsets
    <2>3. log'[p][n] = log[p][n] /\ (rows[log[p][n]] > 0 => rows'[log[p][n]] > 0)
      BY <1>0, <2>2, NotifiedGrows
    <2>4. CASE rows[log[p][n]] > 0
      BY <2>3, <2>4
    <2>5. CASE InHand(owner[p], p, n)
      <3>1. \/ rows[log[p][n]] > 0
            \/ /\ loop'[owner[p]].pc \in Step
               /\ loop'[owner[p]].partition = p /\ loop'[owner[p]].offset = n
        BY <1>4, <2>1, <2>5
      <3> QED BY <2>1, <2>3, <3>1 DEF InHand
    <2> QED BY <2>1, <2>4, <2>5 DEF Offsets
  <1> QED BY <1>2, <1>3, <1>4 DEF Offsets, NotifiedUpTo

\* Every step keeps the offsets.
LEMMA OffsetKept ==
    ASSUME NotificationAssumption, NotificationInv, [Next]_vars, TypeOK'
    PROVE  OffsetInv'
  <1>0. /\ TypeOK /\ HandInv /\ PushInv
        /\ \A p \in Partition : Offsets(p)
        /\ \A w \in Worker : Behind(w)
    BY OffsetSplit DEF NotificationInv, PushInv
  <1> USE <1>0
  <1>a. \A w \in Worker : loop'[w].pc \notin Step => Behind(w)'
    BY DEF Behind
  <1>b. \A w \in Worker : loop'[w] = loop[w] => Behind(w)'
    <2> SUFFICES ASSUME NEW w \in Worker, loop'[w] = loop[w], loop[w].pc \in Step
                 PROVE  Behind(w)'
      BY <1>a
    <2> QED BY StillBehind
  <1>c. UNCHANGED <<groupVars, loop>> =>
            (\A p \in Partition : Offsets(p)') /\ (\A w \in Worker : Behind(w)')
    <2> SUFFICES ASSUME UNCHANGED <<groupVars, loop>>, NEW p \in Partition
                 PROVE  Offsets(p)'
      BY <1>b
    <2> QED BY SameOffsets DEF groupVars, InHand
  <1>1. CASE UNCHANGED <<groupVars, loop>>
    BY <1>1, <1>c, OffsetSplit DEF OffsetInv, PositionInv, CommittedIsNotified, Offsets,
                                  Behind, NotifiedUpTo
  <1>2. ASSUME NEW w \in Worker, ProcessEnds(w)
        PROVE  (\A p \in Partition : Offsets(p)') /\ (\A v \in Worker : Behind(v)')
    <2>1. /\ loop'[w].pc \notin Step /\ \A v \in Worker \ {w} : loop'[v] = loop[v]
          /\ \A p \in Partition :
                 owner'[p] = IF owner[p] = w THEN NoWorker ELSE owner[p]
          /\ UNCHANGED <<committed, position>>
      BY <1>2 DEF ProcessEnds, TypeOK, Off, Step
    <2>2. \A p \in Partition : owner[p] \in Worker \cup {NoWorker}
      BY DEF TypeOK
    <2>3. ASSUME NEW p \in Partition PROVE Offsets(p)'
      BY <2>1, <2>2, SameOffsets DEF InHand
    <2> QED BY <1>a, <1>b, <2>1, <2>3
  <1>3. ASSUME NEW w \in Worker, NEW q \in Step, loop[w].pc \in Step, GoTo(w, q),
               UNCHANGED groupVars
        PROVE  (\A p \in Partition : Offsets(p)') /\ (\A v \in Worker : Behind(v)')
    <2>1. /\ loop'[w].pc = q /\ loop'[w].partition = loop[w].partition
          /\ loop'[w].offset = loop[w].offset
          /\ \A v \in Worker \ {w} : loop'[v] = loop[v]
      BY <1>3, GoToType
    <2>2. ASSUME NEW p \in Partition PROVE Offsets(p)'
      <3>1. owner[p] \in Worker \cup {NoWorker}
        BY DEF TypeOK
      <3> QED BY <1>3, <2>1, <3>1, SameOffsets DEF InHand, groupVars
    <2>3. Behind(w)'
      BY <1>3, <2>1, StillBehind
    <2> QED BY <1>b, <2>1, <2>2, <2>3
  <1>4. ASSUME NEW w \in Worker, Ack(w)
        PROVE  (\A p \in Partition : Offsets(p)') /\ (\A v \in Worker : Behind(v)')
    <2> DEFINE q == loop[w].partition
               n == loop[w].offset
    <2>1. /\ loop[w].pc = "acking" /\ q \in Partition /\ n \in Nat \ {0}
          /\ n \in DOMAIN log[q] /\ rows[log[q][n]] = 1
      BY <1>4, HandIsRecord DEF Ack, Step, HandInv, EventInHand
    <2>2. NotifiedUpTo(q, n - 1)
      BY <2>1 DEF Behind, Step
    <2>3. /\ loop'[w].pc \notin Step /\ \A v \in Worker \ {w} : loop'[v] = loop[v]
          /\ UNCHANGED <<log, owner, position, rows>>
          /\ committed' = [committed EXCEPT ![q] = n]
      BY <1>4 DEF Ack, TypeOK, Polling, Step
    <2>4. \A i \in 1..n : i \in DOMAIN log[q] /\ rows[log[q][i]] > 0
      <3>1. \A i \in 1..n : i = n \/ i \in 1..(n - 1)
        BY <2>1
      <3> QED BY <2>1, <2>2, <3>1 DEF NotifiedUpTo
    <2>5. ASSUME NEW p \in Partition PROVE Offsets(p)'
      <3>1. \A i \in 1..position[p] : InHand(w, p, i) => rows[log[p][i]] > 0
        BY <2>1 DEF InHand
      <3>2. owner[p] \in Worker \cup {NoWorker}
        BY DEF TypeOK
      <3>3. CASE p # q
        <4>1. committed'[p] = committed[p]
          BY <2>3, <3>3 DEF TypeOK
        <4> QED BY <2>3, <3>1, <3>2, <4>1, SameOffsets DEF InHand
      <3>4. CASE p = q
        <4>1. committed'[p] = n /\ n # NoOffset
          <5>1. n # NoOffset
            BY <2>1 DEF NoOffset
          <5>2. committed \in [Partition -> Nat \cup {NoOffset}]
            BY DEF TypeOK
          <5>3. committed'[q] = n
            BY <2>1, <2>3, <5>2
          <5> QED BY <3>4, <5>1, <5>3
        <4>2. position[p] <= Len(log[p])
          BY DEF Offsets
        <4>3. ASSUME owner[p] # NoWorker, NEW i \in 1..position[p]
              PROVE  rows[log[p][i]] > 0 \/ InHand(owner[p], p, i)'
          <5>1. owner'[p] = owner[p] /\ position'[p] = position[p]
            BY <2>3
          <5>2. CASE owner[p] = w
            BY <3>1, <4>3, <5>2 DEF Offsets
          <5>3. CASE owner[p] # w
            <6>1. loop'[owner[p]] = loop[owner[p]]
              BY <2>3, <3>2, <4>3, <5>3
            <6> QED BY <4>3, <5>1, <6>1 DEF Offsets, InHand
          <5> QED BY <5>2, <5>3
        <4> QED BY <2>3, <2>4, <3>4, <4>1, <4>2, <4>3 DEF Offsets, NotifiedUpTo
      <3> QED BY <3>3, <3>4
    <2> QED BY <1>a, <1>b, <2>3, <2>5
  <1>5. ASSUME NEW w \in Worker, NEW q \in Partition, TakeRecord(w, q)
        PROVE  (\A p \in Partition : Offsets(p)') /\ (\A v \in Worker : Behind(v)')
    <2>1. /\ loop'[w] = [pc |-> "finding", partition |-> q, offset |-> position[q] + 1]
          /\ \A v \in Worker \ {w} : loop'[v] = loop[v]
          /\ position' = [position EXCEPT ![q] = @ + 1]
          /\ UNCHANGED <<log, committed, owner, rows>>
      BY <1>5 DEF TakeRecord, TypeOK
    <2>2. /\ position[q] + 1 \in DOMAIN log[q] /\ owner[q] = w
          /\ loop[w].pc = "polling" /\ position[q] \in Nat /\ log[q] \in Seq(Event)
      BY <1>5, NextIsRecord DEF TakeRecord, TypeOK
    <2>3. \A p \in Partition : \A n \in 1..position[p] : ~InHand(w, p, n)
      BY <2>2 DEF InHand, Step
    <2>4. \A n \in 1..position[q] : rows[log[q][n]] > 0
      BY <2>2, <2>3, NotificationAssumption DEF Offsets, NotificationAssumption
    <2>5. NotifiedUpTo(q, position[q])
      BY <2>2, <2>4 DEF NotifiedUpTo
    <2>6. Behind(w)'
      <3>1. loop'[w].partition = q /\ loop'[w].offset - 1 = position[q]
        BY <2>1, <2>2
      <3> QED BY <2>1, <2>5, <3>1 DEF Behind, NotifiedUpTo
    <2>7. ASSUME NEW p \in Partition, p # q PROVE Offsets(p)'
      <3>1. position'[p] = position[p] /\ owner[p] \in Worker \cup {NoWorker}
        BY <2>1, <2>7 DEF TypeOK
      <3> QED BY <2>1, <2>3, <2>7, <3>1, SameOffsets DEF InHand
    <2>8. Offsets(q)'
      <3>1. position'[q] = position[q] + 1 /\ position'[q] <= Len(log[q])
        BY <2>1, <2>2 DEF TypeOK
      <3>2. \A n \in 1..position'[q] : n \in 1..position[q] \/ n = position[q] + 1
        BY <2>2, <3>1
      <3>4. \A n \in 1..position'[q] :
                \/ rows[log[q][n]] > 0
                \/ /\ loop'[w].pc \in Step
                   /\ loop'[w].partition = q /\ loop'[w].offset = n
        BY <2>1, <2>4, <3>2 DEF Step
      <3> QED BY <2>1, <2>2, <3>1, <3>4 DEF Offsets, InHand, NotifiedUpTo
    <2> QED BY <1>b, <2>1, <2>6, <2>7, <2>8
  <1>6. ASSUME NEW w \in Worker, NEW q \in Partition, Assign(q, w)
        PROVE  (\A p \in Partition : Offsets(p)') /\ (\A v \in Worker : Behind(v)')
    <2>1. /\ owner' = [owner EXCEPT ![q] = w]
          /\ position' = [position EXCEPT ![q] = StartingPosition(q)]
          /\ UNCHANGED <<log, committed, loop, rows>>
      BY <1>6 DEF Assign
    <2>2. ASSUME NEW p \in Partition, p # q PROVE Offsets(p)'
      <3>1. position'[p] = position[p] /\ owner'[p] = owner[p]
        BY <2>1, <2>2 DEF TypeOK
      <3> QED BY <2>1, <2>2, <3>1, SameOffsets DEF InHand
    <2>3. Offsets(q)'
      <3>1. committed[q] \in Nat /\ StartingPosition(q) = committed[q]
        BY DEF Offsets, StartingPosition, TypeOK
      <3>2. position'[q] = committed[q]
        BY <2>1, <3>1 DEF TypeOK
      <3>3. log[q] \in Seq(Event)
        BY DEF TypeOK
      <3>4. \A i \in 1..committed[q] : i \in DOMAIN log[q] /\ rows[log[q][i]] > 0
        BY DEF Offsets, NotifiedUpTo
      <3>5. committed[q] <= Len(log[q])
        <4>1. CASE committed[q] = 0
          BY <3>3, <4>1
        <4>2. CASE committed[q] # 0
          <5>1. committed[q] \in 1..committed[q]
            BY <3>1, <4>2
          <5>2. committed[q] \in DOMAIN log[q]
            BY <3>4, <5>1
          <5> QED BY <3>3, <5>2
        <4> QED BY <4>1, <4>2
      <3>6. committed[q] # NoOffset
        BY DEF Offsets
      <3> QED BY <2>1, <3>2, <3>4, <3>5, <3>6 DEF Offsets, NotifiedUpTo
    <2> QED BY <1>b, <2>1, <2>2, <2>3
  <1>7. ASSUME NEW w \in Worker, Start(w)
        PROVE  (\A p \in Partition : Offsets(p)') /\ (\A v \in Worker : Behind(v)')
    <2>1. /\ loop[w].pc = "off" /\ loop'[w].pc \notin Step
          /\ \A v \in Worker \ {w} : loop'[v] = loop[v]
          /\ UNCHANGED groupVars
      BY <1>7 DEF Start, Up, Off, TypeOK, Polling, Step
    <2>2. ASSUME NEW p \in Partition PROVE Offsets(p)'
      <3>1. owner[p] \in Worker \cup {NoWorker}
        BY DEF TypeOK
      <3> QED BY <2>1, <3>1, SameOffsets DEF InHand, groupVars, Step
    <2> QED BY <1>a, <1>b, <2>1, <2>2
  <1>8. (\A p \in Partition : Offsets(p)') /\ (\A v \in Worker : Behind(v)')
    <2>1. ASSUME NEW w \in Worker, LoopStep(w) \/ Start(w) \/ Fault(w)
          PROVE  (\A p \in Partition : Offsets(p)') /\ (\A v \in Worker : Behind(v)')
      <3>1. CASE FindBySource(w) \/ SaveNotification(w) \/ PublishNotification(w)
        BY <1>3, <3>1 DEF FindBySource, SaveNotification, PublishNotification, Step
      <3>2. CASE \/ SaveConflicts(w) \/ AckFails(w) \/ Fault(w)
                 \/ \E p \in Partition : DeserializeFails(w, p)
        BY <1>2, <3>2 DEF SaveConflicts, AckFails, Fault, DeserializeFails
      <3> QED BY <1>4, <1>5, <1>7, <2>1, <3>1, <3>2 DEF LoopStep
    <2>2. CASE \E e \in Event : Publish(e)
      BY <1>c, <2>2 DEF Publish
    <2>3. CASE UNCHANGED vars
      BY <1>c, <2>3 DEF vars
    <2> QED BY <1>6, <2>1, <2>2, <2>3 DEF Next
  <1> QED BY <1>8 DEF OffsetInv, PositionInv, CommittedIsNotified, Offsets, Behind,
                      NotifiedUpTo

\* NotificationInv is inductive in a group that has offsets.
THEOREM OffsetsInvariant ==
    ASSUME FreshGroup = FALSE
    PROVE  Spec => []NotificationInv
  <1>1. Init => NotificationInv
    <2> SUFFICES ASSUME Init PROVE NotificationInv
      OBVIOUS
    <2>1. PushInv
      BY NotificationAssumption
      DEF Init, PushInv, TypeOK, HandInv, PushedAtMostOnce, Off, Step, NoOffset,
          NotificationAssumption
    <2>2. OffsetInv
      BY DEF Init, OffsetInv, PositionInv, CommittedIsNotified, Off, Step, NoOffset
    <2> QED BY <2>1, <2>2 DEF NotificationInv
  <1>2. NotificationInv /\ [Next]_vars => NotificationInv'
    BY NotificationAssumption, NextTypes, PushKept, OffsetKept DEF PushInv, NotificationInv
  <1> QED BY <1>1, <1>2, PTL DEF Spec

\* "The offset is committed after the notification has been stored" (main.py),
\* across crashes, copies, rebalances under a record in work and late acks, for
\* a group that has offsets.
THEOREM CommittedNotified ==
    ASSUME FreshGroup = FALSE
    PROVE  Spec => []CommittedIsNotified
  <1>1. NotificationInv => CommittedIsNotified
    BY DEF NotificationInv, OffsetInv
  <1> QED BY <1>1, OffsetsInvariant, PTL

-----------------------------------------------------------------------------
(* Lost pushes.                                                            *)

\* Only a crash or an error between the commit of a notification and its
\* publication loses the push (notify_assigned_trader_on_rfq_registered.py).
THEOREM LostPushesAreFaults == Spec => []PushesAreLostByFaults
  <1>1. Init => PushesAreLostByFaults
    BY DEF Init, PushesAreLostByFaults
  <1>2. PushInv /\ PushesAreLostByFaults /\ [Next]_vars => PushesAreLostByFaults'
    <2> SUFFICES ASSUME PushInv, PushesAreLostByFaults, [Next]_vars,
                        faults' = 0, NEW e \in Event, rows'[e] > pushes'[e]
                 PROVE  \E v \in Worker :
                            loop'[v].pc = "publishing" /\ EventInHand(v)' = e
      BY DEF PushesAreLostByFaults
    <2>0. TypeOK /\ HandInv /\ PushedAtMostOnce
      BY DEF PushInv
    <2> USE <2>0
    <2>1. faults = 0 /\ \A w \in Worker : ~Fault(w)
      BY DEF Next, LoopStep, Publish, FindBySource, SaveNotification, SaveConflicts,
             PublishNotification, Ack, AckFails, TakeRecord, DeserializeFails, Start,
             Fault, Assign, vars, TypeOK
    <2>2. CASE rows[e] > pushes[e]
      <3>1. PICK v \in Worker : loop[v].pc = "publishing" /\ EventInHand(v) = e
        BY <2>1, <2>2 DEF PushesAreLostByFaults
      <3>2. CASE loop'[v] = loop[v]
        <4>1. EventInHand(v)' = EventInHand(v)
          <5>1. CASE log' = log
            BY <3>2, <5>1, SameHand
          <5>2. CASE log' # log
            <6>1. PICK f \in Event : Publish(f)
              BY <5>2 DEF Next, LoopStep, FindBySource, SaveNotification, SaveConflicts,
                     PublishNotification, Ack, AckFails, TakeRecord, DeserializeFails,
                     Start, Fault, ProcessEnds, Assign, vars
            <6>2. /\ loop[v].partition \in Partition
                  /\ loop[v].offset \in DOMAIN log[loop[v].partition]
              BY <3>1, HandIsRecord DEF Step
            <6> QED BY <3>2, <6>1, <6>2, LogGrows, NotificationAssumption DEF EventInHand
          <5> QED BY <5>1, <5>2
        <4> QED BY <3>1, <3>2, <4>1
      <3>3. CASE loop'[v] # loop[v]
        <4>1. PublishNotification(v)
          BY <2>1, <3>1, <3>3 DEF Next, LoopStep, Publish, FindBySource, SaveNotification,
                 SaveConflicts, PublishNotification, Ack, AckFails, TakeRecord, HasNext,
                 DeserializeFails, Start, Up, Off, Polling, ProcessEnds, GoTo, Assign, vars,
                 TypeOK
        <4>2. pushes' = [pushes EXCEPT ![e] = @ + 1] /\ rows' = rows
          BY <3>1, <4>1 DEF PublishNotification
        <4>3. pushes'[e] = pushes[e] + 1 /\ rows[e] <= 1
          BY <4>2 DEF TypeOK, PushedAtMostOnce
        <4> QED BY <4>2, <4>3 DEF TypeOK
      <3> QED BY <3>2, <3>3
    <2>3. CASE ~(rows[e] > pushes[e])
      <3>1. PICK w \in Worker : SaveNotification(w) /\ EventInHand(w) = e
        <4>1. rows'[e] # rows[e] \/ pushes'[e] # pushes[e]
          BY <2>3
        <4>2. ASSUME NEW w \in Worker, PublishNotification(w) PROVE FALSE
          <5>1. EventInHand(w) \in Event
            BY <4>2, HandIsRecord DEF PublishNotification, Step
          <5>2. rows' = rows /\ pushes'[e] >= pushes[e]
            BY <4>2, <5>1 DEF PublishNotification, TypeOK
          <5> QED BY <2>3, <5>1, <5>2, <4>2 DEF PublishNotification, TypeOK
        <4>3. \E w \in Worker : SaveNotification(w)
          BY <4>1, <4>2 DEF Next, LoopStep, Publish, FindBySource, SaveConflicts, Ack,
                 AckFails, TakeRecord, DeserializeFails, Start, Fault, ProcessEnds,
                 Assign, vars
        <4>4. PICK w \in Worker : SaveNotification(w)
          BY <4>3
        <4>5. EventInHand(w) = e
          BY <4>1, <4>4 DEF SaveNotification, TypeOK
        <4> QED BY <4>4, <4>5
      <3>2. /\ loop'[w].pc = "publishing" /\ loop'[w].partition = loop[w].partition
            /\ loop'[w].offset = loop[w].offset /\ log' = log
        BY <3>1, GoToType DEF SaveNotification, Step
      <3> QED BY <3>1, <3>2 DEF EventInHand
    <2> QED BY <2>2, <2>3
  <1> QED BY <1>1, <1>2, NotificationsInvariant, PTL DEF Spec
=============================================================================

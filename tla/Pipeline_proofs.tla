--------------------------- MODULE Pipeline_proofs ---------------------------
(* Proofs about Pipeline: each side of the composition does what its own    *)
(* module allows, so that what is proved of the two modules holds of the    *)
(* composition, and what counts as published is never lost.                 *)
EXTENDS Pipeline, TLAPS

\* The same instances as in Pipeline, with what is proved of them.
OutboxSide == INSTANCE OutboxRelay_proofs WITH Worker <- Publisher
PricingSide == INSTANCE KafkaPricingWorker_proofs

-----------------------------------------------------------------------------
(* OutboxSide and PricingSide define what Outbox and Pricing define.        *)

\* The assumptions, initial states and invariants of the outbox.
LEMMA SameOutbox ==
    /\ OutboxSide!ConstantsAssumption
    /\ Outbox!Init => OutboxSide!Init
    /\ Outbox!InductiveInv <=> OutboxSide!InductiveInv
  <1>1. OutboxSide!ConstantsAssumption
    BY SidesAssumption DEF Outbox!ConstantsAssumption, OutboxSide!ConstantsAssumption
  <1>2. Outbox!Init => OutboxSide!Init
    BY DEF Outbox!Init, OutboxSide!Init
  <1>3. Outbox!InductiveInv <=> OutboxSide!InductiveInv
    BY DEF Outbox!Current, OutboxSide!Current, Outbox!RowTypes,
           OutboxSide!RowTypes, Outbox!WorkerTypes, OutboxSide!WorkerTypes,
           Outbox!TypeOK, OutboxSide!TypeOK, Outbox!PublishedIsUnclaimed,
           OutboxSide!PublishedIsUnclaimed, Outbox!Active, OutboxSide!Active,
           Outbox!BatchInv, OutboxSide!BatchInv, Outbox!LocksAreDisjoint,
           OutboxSide!LocksAreDisjoint, Outbox!NoLapseInv,
           OutboxSide!NoLapseInv, Outbox!InductiveInv, OutboxSide!InductiveInv
  <1> QED BY <1>1, <1>2, <1>3

\* The steps of a publisher.
LEMMA SamePublisherStep ==
    ASSUME NEW p \in Publisher, Outbox!WorkerStep(p) \/ Outbox!WorkerFault(p)
    PROVE  OutboxSide!WorkerStep(p) \/ OutboxSide!WorkerFault(p)
  <1> USE DEF Outbox!rowVars, OutboxSide!rowVars, Outbox!Current,
              OutboxSide!Current, Outbox!Locked, OutboxSide!Locked,
              Outbox!Orphaned, OutboxSide!Orphaned, Outbox!NextEvent,
              OutboxSide!NextEvent, Outbox!Unclaim, OutboxSide!Unclaim,
              Outbox!Fault, OutboxSide!Fault, Outbox!LeaveBatch,
              OutboxSide!LeaveBatch
  <1>1. Outbox!SelectPending(p) => OutboxSide!SelectPending(p)
    <2>1. {e \in Event : Outbox!Claimable(e)} = {e \in Event : OutboxSide!Claimable(e)}
      BY DEF Outbox!Claimable, OutboxSide!Claimable
    <2>2. \A S : Outbox!IsSelection(S) <=> OutboxSide!IsSelection(S)
      BY <2>1 DEF Outbox!IsSelection, OutboxSide!IsSelection,
             Outbox!Cardinality, OutboxSide!Cardinality
    <2> QED BY <2>2 DEF Outbox!SelectPending, OutboxSide!SelectPending
  <1>2. Outbox!CommitClaim(p) => OutboxSide!CommitClaim(p)
    BY DEF Outbox!CommitClaim, OutboxSide!CommitClaim
  <1>3. Outbox!Deliver(p) => OutboxSide!Deliver(p)
    BY DEF Outbox!Deliver, OutboxSide!Deliver
  <1>4. Outbox!Reject(p) => OutboxSide!Reject(p)
    BY DEF Outbox!Reject, OutboxSide!Reject
  <1>5. Outbox!MarkPublished(p) => OutboxSide!MarkPublished(p)
    BY DEF Outbox!MarkPublished, OutboxSide!MarkPublished
  <1>6. Outbox!MarkFailed(p) => OutboxSide!MarkFailed(p)
    BY DEF Outbox!MarkFailed, OutboxSide!MarkFailed
  <1>7. Outbox!ClaimLapses(p) => OutboxSide!ClaimLapses(p)
    BY DEF Outbox!ClaimLapses, OutboxSide!ClaimLapses
  <1>8. Outbox!PublishRaises(p) => OutboxSide!PublishRaises(p)
    BY DEF Outbox!PublishRaises, OutboxSide!PublishRaises
  <1>9. Outbox!ClaimRaises(p) => OutboxSide!ClaimRaises(p)
    BY DEF Outbox!ClaimRaises, OutboxSide!ClaimRaises
  <1>10. Outbox!MarkRaises(p) => OutboxSide!MarkRaises(p)
    BY DEF Outbox!MarkRaises, OutboxSide!MarkRaises
  <1>11. Outbox!Crash(p) => OutboxSide!Crash(p)
    BY DEF Outbox!Crash, OutboxSide!Crash
  <1>12. Outbox!Start(p) => OutboxSide!Start(p)
    BY DEF Outbox!Start, OutboxSide!Start
  <1> QED
    BY <1>1, <1>2, <1>3, <1>4, <1>5, <1>6, <1>7, <1>8, <1>9, <1>10, <1>11,
       <1>12
       DEF Outbox!WorkerStep, OutboxSide!WorkerStep, Outbox!WorkerFault,
           OutboxSide!WorkerFault

\* Every step of the outbox.
LEMMA SameOutboxNext == Outbox!Next => OutboxSide!Next
  <1>1. ASSUME NEW e \in Event, Outbox!Store(e) \/ Outbox!OrphanLapses(e)
        PROVE  OutboxSide!Store(e) \/ OutboxSide!OrphanLapses(e)
    BY <1>1 DEF Outbox!Store, OutboxSide!Store, Outbox!OrphanLapses,
                OutboxSide!OrphanLapses
  <1> QED BY <1>1, SamePublisherStep DEF Outbox!Next, OutboxSide!Next

\* The assumptions, initial states and invariants of the pricing workers.
LEMMA SamePricing ==
    /\ PricingSide!ConstantsAssumption
    /\ Pricing!Init => PricingSide!Init
    /\ Pricing!InductiveInv <=> PricingSide!InductiveInv
    /\ Pricing!DurableInv <=> PricingSide!DurableInv
  <1>1. PricingSide!ConstantsAssumption
    BY SidesAssumption DEF Pricing!ConstantsAssumption,
           PricingSide!ConstantsAssumption, Pricing!NoOffset,
           PricingSide!NoOffset
  <1>2. Pricing!Init => PricingSide!Init
    BY DEF Pricing!Init, PricingSide!Init, Pricing!NoOffset,
           PricingSide!NoOffset, Pricing!Idle, PricingSide!Idle,
           Pricing!NoTask, PricingSide!NoTask
  <1>3. Pricing!InductiveInv <=> PricingSide!InductiveInv
    BY DEF Pricing!NoOffset, PricingSide!NoOffset, Pricing!Acquired,
           PricingSide!Acquired, Pricing!Released, PricingSide!Released,
           Pricing!Change, PricingSide!Change, Pricing!Idle, PricingSide!Idle,
           Pricing!NoTask, PricingSide!NoTask, Pricing!SessionsOf,
           PricingSide!SessionsOf, Pricing!Running, PricingSide!Running,
           Pricing!Consuming, PricingSide!Consuming, Pricing!TaskPc,
           PricingSide!TaskPc, Pricing!RuntimePc, PricingSide!RuntimePc,
           Pricing!TypeOK, PricingSide!TypeOK, Pricing!HasTask,
           PricingSide!HasTask, Pricing!Busy, PricingSide!Busy, Pricing!InHand,
           PricingSide!InHand, Pricing!LifecycleInv, PricingSide!LifecycleInv,
           Pricing!HandshakeInv, PricingSide!HandshakeInv, Pricing!HoldingsInv,
           PricingSide!HoldingsInv, Pricing!Streaming, PricingSide!Streaming,
           Pricing!Taken, PricingSide!Taken, Pricing!StreamInv,
           PricingSide!StreamInv, Pricing!LogInv, PricingSide!LogInv,
           Pricing!InductiveInv, PricingSide!InductiveInv
  <1>4. Pricing!DurableInv <=> PricingSide!DurableInv
    BY DEF Pricing!DurableInv, PricingSide!DurableInv, Pricing!SavedUpTo,
           PricingSide!SavedUpTo, Pricing!CommittedIsSaved,
           PricingSide!CommittedIsSaved, Pricing!Streaming,
           PricingSide!Streaming, Pricing!Passed, PricingSide!Passed,
           Pricing!Busy, PricingSide!Busy, Pricing!HasTask,
           PricingSide!HasTask, Pricing!Consuming, PricingSide!Consuming,
           Pricing!Running, PricingSide!Running, Pricing!NoOffset,
           PricingSide!NoOffset, Pricing!NoTask, PricingSide!NoTask
  <1> QED BY <1>1, <1>2, <1>3, <1>4

\* The steps of a pricing worker, at one of its shards.
LEMMA SameShardStep ==
    ASSUME NEW w \in Worker, NEW s \in Shard, Pricing!ShardStep(w, s)
    PROVE  PricingSide!ShardStep(w, s)
  <1> USE DEF Pricing!groupVars, PricingSide!groupVars, Pricing!ownerVars,
              PricingSide!ownerVars, Pricing!shardVars, PricingSide!shardVars,
              Pricing!faultVars, PricingSide!faultVars, Pricing!Acquired,
              PricingSide!Acquired, Pricing!Released, PricingSide!Released,
              Pricing!Waiting, PricingSide!Waiting, Pricing!Running,
              PricingSide!Running, Pricing!Cancelling, PricingSide!Cancelling,
              Pricing!Consuming, PricingSide!Consuming, Pricing!Complete,
              PricingSide!Complete, Pricing!ForgetMemory,
              PricingSide!ForgetMemory, Pricing!Fail, PricingSide!Fail,
              Pricing!TakeChange, PricingSide!TakeChange, Pricing!HasNext,
              PricingSide!HasNext, Pricing!EventAt, PricingSide!EventAt,
              Pricing!Advance, PricingSide!Advance, Pricing!Activate,
              PricingSide!Activate, Pricing!NoOffset, PricingSide!NoOffset,
              Pricing!Idle, PricingSide!Idle, Pricing!NoTask,
              PricingSide!NoTask
  <1>1. Pricing!BeginAcquire(w, s) => PricingSide!BeginAcquire(w, s)
    BY DEF Pricing!BeginAcquire, PricingSide!BeginAcquire
  <1>2. Pricing!BeginRelease(w, s) => PricingSide!BeginRelease(w, s)
    BY DEF Pricing!BeginRelease, PricingSide!BeginRelease
  <1>3. Pricing!TaskStops(w, s) => PricingSide!TaskStops(w, s)
    BY DEF Pricing!TaskStops, PricingSide!TaskStops
  <1>4. Pricing!ResetPosition(w, s) => PricingSide!ResetPosition(w, s)
    BY DEF Pricing!ResetPosition, PricingSide!ResetPosition
  <1>5. Pricing!Dispatch(w, s) => PricingSide!Dispatch(w, s)
    BY DEF Pricing!Dispatch, PricingSide!Dispatch
  <1>6. Pricing!DispatcherDies(w, s) => PricingSide!DispatcherDies(w, s)
    BY DEF Pricing!DispatcherDies, PricingSide!DispatcherDies
  <1>7. Pricing!TakeDelivery(w, s) => PricingSide!TakeDelivery(w, s)
    BY DEF Pricing!TakeDelivery, PricingSide!TakeDelivery
  <1>8. Pricing!SaveSession(w, s) => PricingSide!SaveSession(w, s)
    BY DEF Pricing!SaveSession, PricingSide!SaveSession
  <1>9. Pricing!ActivateAndAck(w, s) => PricingSide!ActivateAndAck(w, s)
    BY DEF Pricing!ActivateAndAck, PricingSide!ActivateAndAck
  <1>10. Pricing!CommitOffset(w, s) => PricingSide!CommitOffset(w, s)
    BY DEF Pricing!CommitOffset, PricingSide!CommitOffset
  <1>11. Pricing!CommitRejected(w, s) => PricingSide!CommitRejected(w, s)
    BY DEF Pricing!CommitRejected, PricingSide!CommitRejected
  <1>12. Pricing!AckReturns(w, s) => PricingSide!AckReturns(w, s)
    BY DEF Pricing!AckReturns, PricingSide!AckReturns
  <1> QED
    BY <1>1, <1>2, <1>3, <1>4, <1>5, <1>6, <1>7, <1>8, <1>9, <1>10, <1>11,
       <1>12
       DEF Pricing!ShardStep, PricingSide!ShardStep

\* The steps of a pricing worker as a whole, and what befalls it.
LEMMA SameWorkerStep ==
    ASSUME NEW w \in Worker
    PROVE  /\ Pricing!WorkerStep(w) => PricingSide!WorkerStep(w)
           /\ Pricing!Start(w) => PricingSide!Start(w)
           /\ Pricing!WorkerFails(w) => PricingSide!WorkerFails(w)
           /\ Pricing!Crash(w) => PricingSide!Crash(w)
           /\ Pricing!Evict(w) => PricingSide!Evict(w)
  <1> USE DEF Pricing!groupVars, PricingSide!groupVars, Pricing!ownerVars,
              PricingSide!ownerVars, Pricing!shardVars, PricingSide!shardVars,
              Pricing!faultVars, PricingSide!faultVars, Pricing!Acquired,
              PricingSide!Acquired, Pricing!Released, PricingSide!Released,
              Pricing!SessionsOf, PricingSide!SessionsOf, Pricing!Running,
              PricingSide!Running, Pricing!Cancelling, PricingSide!Cancelling,
              Pricing!RemoveMember, PricingSide!RemoveMember,
              Pricing!PublishChanges, PricingSide!PublishChanges,
              Pricing!Complete, PricingSide!Complete, Pricing!ForgetMemory,
              PricingSide!ForgetMemory, Pricing!Fail, PricingSide!Fail,
              Pricing!NoOffset, PricingSide!NoOffset, Pricing!Idle,
              PricingSide!Idle, Pricing!NoTask, PricingSide!NoTask,
              Pricing!Waiting, PricingSide!Waiting
  <1>1. Pricing!Join(w) => PricingSide!Join(w)
    BY DEF Pricing!Join, PricingSide!Join
  <1>2. Pricing!OnPartitionsRevoked(w) => PricingSide!OnPartitionsRevoked(w)
    BY DEF Pricing!OnPartitionsRevoked, PricingSide!OnPartitionsRevoked
  <1>3. Pricing!OnPartitionsAssigned(w) => PricingSide!OnPartitionsAssigned(w)
    BY DEF Pricing!OnPartitionsAssigned, PricingSide!OnPartitionsAssigned
  <1>4. Pricing!CallbackReturns(w) => PricingSide!CallbackReturns(w)
    BY DEF Pricing!CallbackReturns, PricingSide!CallbackReturns
  <1>5. Pricing!WorkerFails(w) => PricingSide!WorkerFails(w)
    BY DEF Pricing!WorkerFails, PricingSide!WorkerFails
  <1>6. Pricing!StopConsumer(w) => PricingSide!StopConsumer(w)
    BY DEF Pricing!StopConsumer, PricingSide!StopConsumer
  <1>7. Pricing!Crash(w) => PricingSide!Crash(w)
    BY DEF Pricing!Crash, PricingSide!Crash
  <1>8. Pricing!Start(w) => PricingSide!Start(w)
    BY DEF Pricing!Start, PricingSide!Start
  <1>9. Pricing!ReadSessions(w) => PricingSide!ReadSessions(w)
    BY DEF Pricing!ReadSessions, PricingSide!ReadSessions
  <1>10. Pricing!FinishAcquire(w) => PricingSide!FinishAcquire(w)
    BY DEF Pricing!FinishAcquire, PricingSide!FinishAcquire
  <1>11. Pricing!FinishRelease(w) => PricingSide!FinishRelease(w)
    BY DEF Pricing!FinishRelease, PricingSide!FinishRelease
  <1>12. Pricing!Evict(w) => PricingSide!Evict(w)
    BY DEF Pricing!Evict, PricingSide!Evict
  <1> QED
    BY <1>1, <1>2, <1>3, <1>4, <1>5, <1>6, <1>7, <1>8, <1>9, <1>10, <1>11,
       <1>12, SameShardStep
       DEF Pricing!WorkerStep, PricingSide!WorkerStep

\* The steps of the group's coordinator.
LEMMA SameCoordinatorStep == Pricing!CoordinatorStep => PricingSide!CoordinatorStep
  <1>1. Pricing!CompleteRebalance => PricingSide!CompleteRebalance
    BY DEF Pricing!CompleteRebalance, PricingSide!CompleteRebalance,
           Pricing!groupVars, PricingSide!groupVars, Pricing!ownerVars,
           PricingSide!ownerVars, Pricing!shardVars, PricingSide!shardVars,
           Pricing!faultVars, PricingSide!faultVars
  <1>2. \A w \in Worker : Pricing!DropMember(w) => PricingSide!DropMember(w)
    BY DEF Pricing!DropMember, PricingSide!DropMember, Pricing!RemoveMember,
           PricingSide!RemoveMember, Pricing!Running, PricingSide!Running,
           Pricing!NoOffset, PricingSide!NoOffset, Pricing!groupVars,
           PricingSide!groupVars, Pricing!ownerVars, PricingSide!ownerVars,
           Pricing!shardVars, PricingSide!shardVars, Pricing!faultVars,
           PricingSide!faultVars
  <1> QED BY <1>1, <1>2 DEF Pricing!CoordinatorStep, PricingSide!CoordinatorStep

\* What the outbox hands over is published in the topic.
LEMMA SamePublish ==
    ASSUME NEW e, Pricing!Publish(e)
    PROVE  PricingSide!Publish(e)
  BY DEF Pricing!Publish, PricingSide!Publish, Pricing!Copies,
         PricingSide!Copies, Pricing!Cardinality, PricingSide!Cardinality,
         Pricing!groupVars, PricingSide!groupVars, Pricing!ownerVars,
         PricingSide!ownerVars, Pricing!shardVars, PricingSide!shardVars,
         Pricing!faultVars, PricingSide!faultVars

\* Every step of the pricing workers.
LEMMA SamePricingNext == Pricing!Next => PricingSide!Next
  <1>1. Pricing!Environment => PricingSide!Environment
    BY SameWorkerStep, SamePublish DEF Pricing!Environment, PricingSide!Environment
  <1> QED
    BY <1>1, SameWorkerStep, SameCoordinatorStep DEF Pricing!Next, PricingSide!Next

-----------------------------------------------------------------------------
(* The steps of the composition, as each side sees them.                   *)

\* What publisher p hands over is an event, and the topic has it behind the
\* records it had.
LEMMA RelaySteps ==
    ASSUME Outbox!InductiveInv, NEW p \in Publisher, Relay(p)
    PROVE  /\ Outbox!Next /\ Pricing!Next
           /\ \E e \in Event : /\ sent' = [sent EXCEPT ![e] = sent[e] + 1]
                               /\ log' = [log EXCEPT ![ShardOf[e]] = Append(log[ShardOf[e]], e)]
  <1>1. Outbox!Deliver(p) /\ Pricing!Publish(Outbox!Current(p))
    BY DEF Relay
  <1>2. Outbox!Current(p) \in Event
    <2>1. OutboxSide!Active(p)
      BY <1>1 DEF Outbox!Deliver, OutboxSide!Active
    <2>2. OutboxSide!Current(p) \in Event
      BY <2>1, SameOutbox, OutboxSide!ActiveHasCurrent
    <2> QED BY <2>2 DEF Outbox!Current, OutboxSide!Current
  <1>3. Outbox!Next /\ Pricing!Next
    BY <1>1, <1>2 DEF Outbox!Next, Outbox!WorkerStep, Pricing!Next, Pricing!Environment
  <1> QED BY <1>1, <1>2, <1>3 DEF Outbox!Deliver, Pricing!Publish

\* Whatever happens, each side does what its own module allows, or nothing.
LEMMA StepOfEachSide ==
    ASSUME Outbox!InductiveInv, [Next]_vars
    PROVE  [Outbox!Next]_(Outbox!vars) /\ [Pricing!Next]_(Pricing!vars)
  <1>0. /\ UNCHANGED outboxVars => UNCHANGED Outbox!vars
        /\ UNCHANGED pricingVars => UNCHANGED Pricing!vars
    BY DEF outboxVars, pricingVars, Outbox!vars, Outbox!rowVars, Pricing!vars,
           Pricing!groupVars, Pricing!ownerVars, Pricing!shardVars, Pricing!faultVars
  <1>1. CASE UNCHANGED vars
    BY <1>0, <1>1 DEF vars
  <1>2. CASE \E p \in Publisher : Relay(p)
    BY <1>2, RelaySteps
  <1>3. CASE OutboxStep
    BY <1>0, <1>3 DEF OutboxStep
  <1>4. CASE PricingStep
    BY <1>0, <1>4 DEF PricingStep, Pricing!Next, Pricing!Environment
  <1> QED BY <1>1, <1>2, <1>3, <1>4 DEF Next

\* The outbox keeps its invariant.
LEMMA OutboxKeeps ==
    ASSUME Outbox!InductiveInv, [Next]_vars
    PROVE  [OutboxSide!Next]_(OutboxSide!vars) /\ Outbox!InductiveInv'
  <1>1. [OutboxSide!Next]_(OutboxSide!vars)
    BY StepOfEachSide, SameOutboxNext
       DEF Outbox!vars, OutboxSide!vars, Outbox!rowVars, OutboxSide!rowVars
  <1>2. OutboxSide!InductiveInv'
    BY <1>1, SameOutbox, OutboxSide!NextInductive
  <1> QED BY <1>1, <1>2, SameOutbox, PTL

\* So it holds in every reachable state.
LEMMA OutboxHolds == Spec => []Outbox!InductiveInv
  <1>1. Init => Outbox!InductiveInv
    BY SameOutbox, OutboxSide!InitInductive DEF Init
  <1> QED BY <1>1, OutboxKeeps, PTL DEF Spec

-----------------------------------------------------------------------------
(* PipelineInv is inductive.                                               *)

\* A step of the composition keeps the invariants of both sides, takes no
\* record out of the topic, and leaves what was published sent.
LEMMA SidesKeep ==
    ASSUME PipelineInv, [Next]_vars
    PROVE  /\ Outbox!InductiveInv' /\ Pricing!InductiveInv' /\ Pricing!DurableInv'
           /\ PublishedIsSent'
           /\ \A s \in Shard : \A i \in 1..Len(log[s]) :
                  i \in 1..Len(log'[s]) /\ log'[s][i] = log[s][i]
  <1>1. OutboxSide!InductiveInv /\ PricingSide!InductiveInv /\ PricingSide!DurableInv
    BY SameOutbox, SamePricing DEF PipelineInv
  <1>2. [OutboxSide!Next]_(OutboxSide!vars) /\ Outbox!InductiveInv'
    BY OutboxKeeps DEF PipelineInv
  <1>3. [PricingSide!Next]_(PricingSide!vars)
    BY StepOfEachSide, SamePricingNext
       DEF PipelineInv, Pricing!vars, PricingSide!vars, Pricing!groupVars, PricingSide!groupVars,
           Pricing!ownerVars, PricingSide!ownerVars, Pricing!shardVars,
           PricingSide!shardVars, Pricing!faultVars, PricingSide!faultVars
  <1>4. PricingSide!InductiveInv' /\ PricingSide!DurableInv'
    BY <1>1, <1>3, SamePricing, PricingSide!NextInductive, PricingSide!NextDurable
  <1>5. PublishedIsSent'
    BY <1>1, <1>2, SameOutbox, OutboxSide!PublishedStaysSent DEF PipelineInv, PublishedIsSent
  <1>6. PricingSide!DataStays
    <2>1. PricingSide!TypeOK /\ PricingSide!LogInv
      BY <1>1 DEF PricingSide!InductiveInv
    <2> QED BY <1>3, <2>1, SamePricing, PricingSide!StepKeepsData
  <1>7. Pricing!InductiveInv' /\ Pricing!DurableInv'
    BY <1>4, SamePricing, PTL
  <1> QED BY <1>2, <1>5, <1>6, <1>7 DEF PricingSide!DataStays

\* What was sent is in the topic: it comes there as it is sent, and stays.
LEMMA SentStaysLogged ==
    ASSUME PipelineInv, [Next]_vars
    PROVE  SentIsLogged'
  <1>1. /\ log \in [Shard -> Seq(Event)] /\ log' \in [Shard -> Seq(Event)]
        /\ sent \in [Event -> Nat] /\ ShardOf \in [Event -> Shard]
    BY SidesKeep, SidesAssumption
       DEF PipelineInv, Pricing!InductiveInv, Pricing!TypeOK, Outbox!InductiveInv,
           Outbox!TypeOK, Pricing!ConstantsAssumption
  <1>2. ASSUME NEW s \in Shard, NEW i \in DOMAIN log[s]
        PROVE  i \in DOMAIN log'[s] /\ log'[s][i] = log[s][i]
    <2>1. log[s] \in Seq(Event) /\ log'[s] \in Seq(Event)
      BY <1>1
    <2>2. i \in 1..Len(log[s]) /\ DOMAIN log'[s] = 1..Len(log'[s])
      BY <2>1
    <2> QED BY <2>2, SidesKeep
  <1>3. SUFFICES ASSUME NEW e \in Event, sent'[e] > 0
                 PROVE  \E i \in DOMAIN log'[ShardOf[e]] : log'[ShardOf[e]][i] = e
    BY DEF SentIsLogged
  <1>4. CASE sent[e] > 0
    BY <1>1, <1>2, <1>4 DEF PipelineInv, SentIsLogged
  <1>5. CASE sent[e] <= 0
    <2>1. sent'[e] # sent[e]
      BY <1>1, <1>3, <1>5
    <2>2. PICK p \in Publisher : Relay(p)
      BY <2>1 DEF Next, OutboxStep, PricingStep, vars, outboxVars
    <2>3. log' = [log EXCEPT ![ShardOf[e]] = Append(log[ShardOf[e]], e)]
      BY <1>1, <2>1, <2>2, RelaySteps DEF PipelineInv
    <2>4. /\ log'[ShardOf[e]] = Append(log[ShardOf[e]], e)
          /\ log[ShardOf[e]] \in Seq(Event) /\ log'[ShardOf[e]] \in Seq(Event)
      BY <1>1, <2>3
    <2>5. /\ Len(log[ShardOf[e]]) + 1 \in 1..Len(log'[ShardOf[e]])
          /\ log'[ShardOf[e]][Len(log[ShardOf[e]]) + 1] = e
      BY <2>4
    <2> QED BY <1>2, <2>4, <2>5
  <1> QED BY <1>1, <1>4, <1>5

\* Where the group starts at the beginning of the log, PipelineInv holds in
\* every reachable state.
LEMMA PipelineInductive == InitialCommit = 0 /\ Spec => []PipelineInv
  <1>1. InitialCommit = 0 /\ Init => PipelineInv
    <2> SUFFICES ASSUME InitialCommit = 0, Init PROVE PipelineInv
      OBVIOUS
    <2>1. Outbox!InductiveInv
      BY SameOutbox, OutboxSide!InitInductive DEF Init
    <2>2. Pricing!InductiveInv
      BY SamePricing, PricingSide!InitInductive DEF Init
    <2>3. Pricing!DurableInv
      BY DEF Init, Pricing!Init, Pricing!DurableInv, Pricing!CommittedIsSaved,
             Pricing!SavedUpTo, Pricing!Streaming, Pricing!NoOffset
    <2>4. PublishedIsSent /\ SentIsLogged
      BY DEF Init, Outbox!Init, PublishedIsSent, SentIsLogged
    <2> QED BY <2>1, <2>2, <2>3, <2>4 DEF PipelineInv
  <1>2. PipelineInv /\ [Next]_vars => PipelineInv'
    BY SidesKeep, SentStaysLogged DEF PipelineInv
  <1> QED BY <1>1, <1>2, PTL DEF Spec

-----------------------------------------------------------------------------
(* What holds of the composition.                                          *)

\* The composition adds nothing to what the outbox does: what is proved of
\* OutboxRelay (exclusive claims, the promise of AtLeastOnceRelay) holds here.
THEOREM OutboxIsOutboxRelay == Spec => Outbox!Spec
  <1>1. Init => Outbox!Init
    BY DEF Init
  <1>2. Outbox!InductiveInv /\ [Next]_vars => [Outbox!Next]_(Outbox!vars)
    BY StepOfEachSide
  <1> QED BY <1>1, <1>2, OutboxHolds, PTL DEF Spec, Outbox!Spec

\* Nor to what the pricing workers and the broker do: what is proved of
\* KafkaPricingWorker (the hand-over, the sole owner, the commits) holds here.
THEOREM PricingIsKafkaPricingWorker == Spec => Pricing!Spec
  <1>1. Init => Pricing!Init
    BY DEF Init
  <1>2. Outbox!InductiveInv /\ [Next]_vars => [Pricing!Next]_(Pricing!vars)
    BY StepOfEachSide
  <1> QED BY <1>1, <1>2, OutboxHolds, PTL DEF Spec, Pricing!Spec

\* From the table to the session: an event that counts as published, and is
\* never sent again, has its session in the database or a record the group
\* has still to handle, whatever fails on either side.
THEOREM NothingIsLost == InitialCommit = 0 /\ Spec => []NothingLost
  <1>1. PipelineInv => NothingLost
    <2> SUFFICES ASSUME PipelineInv, NEW e \in published
                 PROVE  \/ e \in saved
                        \/ \E i \in DOMAIN log[ShardOf[e]] :
                               i > committed[ShardOf[e]] /\ log[ShardOf[e]][i] = e
      BY DEF NothingLost
    <2>1. e \in Event /\ ShardOf[e] \in Shard
      BY SidesAssumption DEF PipelineInv, Outbox!InductiveInv, Outbox!TypeOK,
                             Outbox!RowTypes, Pricing!ConstantsAssumption
    <2>2. PICK i \in DOMAIN log[ShardOf[e]] : log[ShardOf[e]][i] = e
      BY <2>1 DEF PipelineInv, PublishedIsSent, SentIsLogged
    <2>3. /\ log[ShardOf[e]] \in Seq(Event)
          /\ committed[ShardOf[e]] \in Nat \cup {Pricing!NoOffset}
      BY <2>1 DEF PipelineInv, Pricing!InductiveInv, Pricing!TypeOK
    <2>4. committed[ShardOf[e]] \in Int /\ i \in Nat \ {0}
      BY <2>3 DEF Pricing!NoOffset
    <2>5. CASE i <= committed[ShardOf[e]]
      BY <2>1, <2>2, <2>4, <2>5
         DEF PipelineInv, Pricing!DurableInv, Pricing!CommittedIsSaved, Pricing!SavedUpTo
    <2> QED BY <2>2, <2>4, <2>5
  <1> QED BY <1>1, PipelineInductive, PTL
=============================================================================

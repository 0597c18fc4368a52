---------------------- MODULE KafkaPricingWorker_proofs ----------------------
(* Proofs about KafkaPricingWorker.                                        *)
EXTENDS KafkaPricingWorker, TLAPS

-----------------------------------------------------------------------------
(* Type correctness.                                                       *)

\* Forgetting what is in the memory of a process keeps the types of the
\* variables it touches (ForgetMemory).
LEMMA ForgetMemoryTypes ==
    ASSUME TypeOK, NEW w \in Worker, ForgetMemory(w)
    PROVE  /\ mailbox' \in [Worker -> SUBSET Change]
           /\ runtime' \in [Worker -> [pc : RuntimePc, shard : Shard \cup {NoShard},
                                       snapshot : SUBSET Event]]
           /\ task' \in [Worker -> [Shard -> [pc : TaskPc, offset : Nat]]]
           /\ queue' \in [Worker -> [Shard -> Seq(Nat)]]
           /\ pendings' \in [Worker -> [Shard -> SUBSET Nat]]
           /\ position' \in [Worker -> [Shard -> Nat \cup {NoOffset}]]
           /\ dispatching' \in [Worker -> BOOLEAN]
           /\ registry' \in [Worker -> SUBSET Event]
  <1>1. Idle \in [pc : RuntimePc, shard : Shard \cup {NoShard}, snapshot : SUBSET Event]
    BY DEF Idle, RuntimePc
  <1>2. NoTask \in [pc : TaskPc, offset : Nat]
    BY DEF NoTask, TaskPc
  <1> QED
    BY <1>1, <1>2 DEF TypeOK, ForgetMemory

\* The end of a process keeps TypeOK.
LEMMA FailTypes ==
    ASSUME TypeOK, NEW w \in Worker, Fail(w), failures' \in Nat, evictions' \in Nat
    PROVE  TypeOK'
  BY ForgetMemoryTypes DEF TypeOK, Fail, groupVars

\* The messages and the timeouts of the coordinator keep TypeOK.
LEMMA CoordinatorTypes ==
    ASSUME TypeOK, CoordinatorStep \/ \E w \in Worker : Join(w) \/ Evict(w)
    PROVE  TypeOK'
  <1> USE DEF groupVars, ownerVars, shardVars, faultVars
  <1>1. CASE CompleteRebalance
    <2>1. assignment' \in [Worker -> SUBSET Shard]
      BY <1>1 DEF CompleteRebalance
    <2>2. joined' \in SUBSET members' /\ members' \in SUBSET Worker /\ rebalancing' \in BOOLEAN
      BY <1>1 DEF TypeOK, CompleteRebalance
    <2> QED BY <1>1, <2>1, <2>2 DEF TypeOK, CompleteRebalance
  <1>2. ASSUME NEW w \in Worker, RemoveMember(w)
        PROVE  /\ members' \in SUBSET Worker /\ joined' \in SUBSET members'
               /\ assignment' \in [Worker -> SUBSET Shard]
               /\ rebalancing' \in BOOLEAN
    <2>1. rebalancing' \in BOOLEAN
      BY <1>2 DEF RemoveMember
    <2> QED BY <1>2, <2>1 DEF TypeOK, RemoveMember
  <1>3. CASE \E w \in Worker : DropMember(w)
    BY <1>2, <1>3 DEF TypeOK, DropMember
  <1>4. CASE \E w \in Worker : Evict(w)
    BY <1>2, <1>4 DEF TypeOK, Evict
  <1>5. CASE \E w \in Worker : Join(w)
    BY <1>5 DEF TypeOK, Join
  <1> QED BY <1>1, <1>3, <1>4, <1>5 DEF CoordinatorStep

\* A delivery in hand is a record of its shard's log.
LEMMA BusyOffset ==
    ASSUME TypeOK, NEW w \in Worker, NEW s \in Shard, StreamInv(w, s), Busy(w, s)
    PROVE  /\ task[w][s].offset \in 1..Len(log[s])
           /\ EventAt(s, task[w][s].offset) \in Event
  <1>1. position[w][s] # NoOffset /\ HasTask(w, s)
    BY DEF StreamInv, Busy, HasTask, NoTask
  <1>2. /\ position[w][s] \in Nat /\ position[w][s] <= Len(log[s])
        /\ Len(queue[w][s]) \in Nat
        /\ task[w][s].offset = Taken(w, s) /\ Taken(w, s) \in Nat /\ Taken(w, s) # 0
    BY <1>1 DEF StreamInv, Streaming, TypeOK
  <1>3. task[w][s].offset \in 1..Len(log[s])
    BY <1>2 DEF Taken, TypeOK
  <1> QED BY <1>3 DEF TypeOK, EventAt

\* The steps of the runtime, the dispatcher and the tasks keep TypeOK; the
\* session that is saved is one the log holds.
LEMMA ShardStepTypes ==
    ASSUME ConstantsAssumption, TypeOK,
           NEW w \in Worker, NEW s \in Shard, StreamInv(w, s), ShardStep(w, s)
    PROVE  TypeOK'
  <1> USE DEF groupVars, ownerVars, shardVars, faultVars
  <1>1. CASE BeginAcquire(w, s)
    <2>1. CASE task[w][s] # NoTask
      <3>1. Fail(w) /\ UNCHANGED faultVars
        BY <1>1, <2>1 DEF BeginAcquire
      <3> QED BY <3>1, FailTypes DEF TypeOK
    <2>2. CASE task[w][s] = NoTask
      <3>1. TakeChange(w, Acquired(s), "restoring") /\ UNCHANGED faultVars
        BY <1>1, <2>2 DEF BeginAcquire
      <3> QED BY <3>1 DEF TakeChange, Acquired, TypeOK, RuntimePc
    <2> QED BY <2>1, <2>2
  <1>2. CASE BeginRelease(w, s)
    BY <1>2 DEF BeginRelease, TakeChange, Released, TypeOK, RuntimePc
  <1>3. CASE TaskStops(w, s)
    BY <1>3 DEF TaskStops, TypeOK, NoTask, TaskPc
  <1>4. CASE ResetPosition(w, s)
    BY <1>4 DEF ResetPosition, TypeOK
  <1>5. CASE Dispatch(w, s)
    <2> DEFINE o == position[w][s] + 1
    <2>1. o \in Nat
      <3>1. position[w][s] \in Nat \cup {NoOffset} /\ position[w][s] # NoOffset
        BY <1>5 DEF Dispatch, HasNext, TypeOK
      <3> QED BY <3>1
    <2>2. /\ pendings' = [pendings EXCEPT ![w][s] = @ \cup {o}]
          /\ queue' = [queue EXCEPT ![w][s] = Append(@, o)]
          /\ position' = [position EXCEPT ![w][s] = o]
      BY <1>5 DEF Dispatch
    <2> HIDE DEF o
    <2>3. pendings' \in [Worker -> [Shard -> SUBSET Nat]]
      BY <2>1, <2>2 DEF TypeOK
    <2>4. queue' \in [Worker -> [Shard -> Seq(Nat)]]
      BY <2>1, <2>2 DEF TypeOK
    <2>5. position' \in [Worker -> [Shard -> Nat \cup {NoOffset}]]
      BY <2>1, <2>2 DEF TypeOK
    <2> QED BY <1>5, <2>3, <2>4, <2>5 DEF Dispatch, TypeOK
  <1>6. CASE DispatcherDies(w, s)
    BY <1>6 DEF DispatcherDies, TypeOK
  <1>7. CASE TakeDelivery(w, s)
    <2>1. queue[w][s] \in Seq(Nat) /\ queue[w][s] # <<>>
      BY <1>7 DEF TakeDelivery, TypeOK
    <2>2. Head(queue[w][s]) \in Nat /\ Tail(queue[w][s]) \in Seq(Nat)
      BY <2>1
    <2>3. task' \in [Worker -> [Shard -> [pc : TaskPc, offset : Nat]]]
      BY <1>7, <2>2 DEF TakeDelivery, TypeOK, TaskPc
    <2>4. queue' \in [Worker -> [Shard -> Seq(Nat)]]
      BY <1>7, <2>2 DEF TakeDelivery, TypeOK
    <2> QED BY <1>7, <2>3, <2>4 DEF TakeDelivery, TypeOK
  <1>8. CASE SaveSession(w, s)
    <2>1. EventAt(s, task[w][s].offset) \in Event
      BY <1>8, BusyOffset DEF SaveSession, Busy
    <2> QED BY <1>8, <2>1 DEF SaveSession, Advance, TypeOK, TaskPc
  <1>9. CASE ActivateAndAck(w, s)
    <2>1. CASE task[w][s].offset \notin pendings[w][s]
      <3>1. Fail(w) /\ UNCHANGED faultVars
        BY <1>9, <2>1 DEF ActivateAndAck
      <3> QED BY <3>1, FailTypes DEF TypeOK
    <2>2. CASE task[w][s].offset \in pendings[w][s]
      <3>1. EventAt(s, task[w][s].offset) \in Event
        BY <1>9, BusyOffset DEF ActivateAndAck, Busy
      <3>2. Activate(w, s) /\ UNCHANGED faultVars
        BY <1>9, <2>2 DEF ActivateAndAck
      <3>3. registry' \in [Worker -> SUBSET Event]
        BY <3>1, <3>2 DEF Activate, TypeOK
      <3>4. pendings' \in [Worker -> [Shard -> SUBSET Nat]]
        BY <3>2 DEF Activate, TypeOK
      <3>5. task' \in [Worker -> [Shard -> [pc : TaskPc, offset : Nat]]]
        BY <3>2 DEF Activate, Advance, TypeOK, TaskPc
      <3> QED BY <3>2, <3>3, <3>4, <3>5 DEF Activate, TypeOK
    <2> QED BY <2>1, <2>2
  <1>10. CASE CommitOffset(w, s)
    BY <1>10 DEF CommitOffset, TypeOK, TaskPc, Advance
  <1>11. CASE CommitRejected(w, s)
    BY <1>11, FailTypes DEF CommitRejected, TypeOK
  <1>12. CASE AckReturns(w, s)
    BY <1>12 DEF AckReturns, TypeOK, Waiting, TaskPc
  <1> QED
    BY <1>1, <1>2, <1>3, <1>4, <1>5, <1>6, <1>7, <1>8, <1>9, <1>10, <1>11, <1>12
       DEF ShardStep

\* The remaining steps of a worker, its start and its failures keep TypeOK.
LEMMA WorkerTypes ==
    ASSUME TypeOK, NEW w \in Worker, runtime[w] # Idle => runtime[w].shard \in Shard,
           \/ OnPartitionsRevoked(w) \/ OnPartitionsAssigned(w)
           \/ CallbackReturns(w) \/ ReadSessions(w) \/ FinishAcquire(w)
           \/ FinishRelease(w) \/ StopConsumer(w)
           \/ Start(w) \/ WorkerFails(w) \/ Crash(w)
    PROVE  TypeOK'
  <1> USE DEF groupVars, ownerVars, shardVars, faultVars
  <1>1. CASE OnPartitionsRevoked(w)
    BY <1>1 DEF TypeOK, OnPartitionsRevoked, PublishChanges, Released, Change
  <1>2. CASE OnPartitionsAssigned(w)
    BY <1>2 DEF TypeOK, OnPartitionsAssigned, PublishChanges, Acquired, Change
  <1>3. CASE CallbackReturns(w)
    BY <1>3 DEF TypeOK, CallbackReturns
  <1>4. CASE ReadSessions(w)
    BY <1>4 DEF TypeOK, ReadSessions, RuntimePc
  <1>5. CASE FinishAcquire(w)
    BY <1>5 DEF TypeOK, FinishAcquire, Complete, Idle, RuntimePc, Waiting, TaskPc
  <1>6. CASE FinishRelease(w)
    BY <1>6 DEF TypeOK, FinishRelease, Complete, Idle, RuntimePc
  <1>7. CASE StopConsumer(w)
    <2>1. rebalancing' \in BOOLEAN
      BY <1>7 DEF StopConsumer, RemoveMember
    <2> QED BY <1>7, <2>1 DEF TypeOK, StopConsumer, RemoveMember
  <1>8. CASE Start(w)
    BY <1>8 DEF TypeOK, Start
  <1>9. CASE WorkerFails(w)
    BY <1>9, FailTypes DEF TypeOK, WorkerFails
  <1>10. CASE Crash(w)
    <2>1. /\ status' \in [Worker -> {"down", "running", "stopping"}]
          /\ callback' \in [Worker ->
                 {"none", "joining", "assigning", "stable", "revoking"}]
          /\ assigned' \in [Worker -> SUBSET Shard]
          /\ completions' \in [Worker -> SUBSET Change]
          /\ failures' \in Nat
      BY <1>10 DEF TypeOK, Crash
    <2> QED BY <1>10, <2>1, ForgetMemoryTypes DEF TypeOK, Crash
  <1> QED
    BY <1>1, <1>2, <1>3, <1>4, <1>5, <1>6, <1>7, <1>8, <1>9, <1>10

-----------------------------------------------------------------------------
(* The inductive invariant, worker by worker.                              *)

LocalInv(w) ==
    /\ LifecycleInv(w)
    /\ Running(w) => HandshakeInv(w) /\ HoldingsInv(w)
    /\ \A s \in Shard : StreamInv(w, s)

\* The memory of w, its status and its place in the rebalance stay.
Untouched(w) ==
    /\ status'[w] = status[w] /\ callback'[w] = callback[w]
    /\ assigned'[w] = assigned[w] /\ mailbox'[w] = mailbox[w]
    /\ completions'[w] = completions[w] /\ runtime'[w] = runtime[w]
    /\ task'[w] = task[w] /\ queue'[w] = queue[w] /\ pendings'[w] = pendings[w]
    /\ position'[w] = position[w] /\ registry'[w] = registry[w]

LogGrows == \A s \in Shard : Len(log[s]) <= Len(log'[s])

\* The stream of a shard is not disturbed by what happens to other shards, or
\* when the worker stops following it.
LEMMA StreamKeeps ==
    ASSUME TypeOK, TypeOK', NEW w \in Worker, NEW s \in Shard, StreamInv(w, s),
           Len(log[s]) <= Len(log'[s]),
           task'[w][s] = task[w][s], queue'[w][s] = queue[w][s],
           pendings'[w][s] = pendings[w][s], position'[w][s] = position[w][s],
           Streaming(w, s)' => Streaming(w, s)
    PROVE  StreamInv(w, s)'
  <1>1. Taken(w, s)' = Taken(w, s)
    BY DEF Taken
  <1>2. Len(log[s]) \in Nat /\ Len(log'[s]) \in Nat
    BY DEF TypeOK
  <1>3. position[w][s] \in Nat \cup {NoOffset}
    BY DEF TypeOK
  <1> QED BY <1>1, <1>2, <1>3 DEF StreamInv, Busy, NoOffset

\* A worker whose memory stays keeps its part of the invariant while the log
\* grows.
LEMMA UntouchedKeeps ==
    ASSUME TypeOK, TypeOK', NEW w \in Worker, LocalInv(w), Untouched(w), LogGrows
    PROVE  LocalInv(w)'
  <1>1. LifecycleInv(w)'
    BY DEF LocalInv, LifecycleInv, Untouched, Running
  <1>2. Running(w)' => HandshakeInv(w)' /\ HoldingsInv(w)'
    BY DEF LocalInv, HandshakeInv, HoldingsInv, InHand, Untouched, Running, HasTask
  <1>3. ASSUME NEW s \in Shard PROVE StreamInv(w, s)'
    <2>1. Streaming(w, s)' <=> Streaming(w, s)
      BY DEF Untouched, Streaming, Consuming, Running, HasTask
    <2> QED BY <2>1, StreamKeeps DEF Untouched, LocalInv, LogGrows
  <1> QED BY <1>1, <1>2, <1>3 DEF LocalInv

\* A process whose memory is forgotten satisfies its part trivially.
LEMMA ForgottenKeeps ==
    ASSUME TypeOK, NEW w \in Worker, ForgetMemory(w), ~Running(w)',
           status'[w] = "down" => callback'[w] = "none" /\ completions'[w] = {}
    PROVE  LocalInv(w)'
  <1>1. /\ mailbox'[w] = {} /\ runtime'[w] = Idle /\ registry'[w] = {}
        /\ \A s \in Shard : /\ task'[w][s] = NoTask /\ queue'[w][s] = <<>>
                            /\ pendings'[w][s] = {} /\ position'[w][s] = NoOffset
    BY DEF ForgetMemory, TypeOK
  <1>2. LifecycleInv(w)'
    BY <1>1 DEF LifecycleInv
  <1>3. \A s \in Shard : StreamInv(w, s)'
    BY <1>1 DEF StreamInv, Streaming, Busy, NoTask
  <1> QED BY <1>2, <1>3 DEF LocalInv

\* With no future to wait for, the mailbox is empty and the runtime idle.
LEMMA NothingInHand ==
    ASSUME NEW w \in Worker, HandshakeInv(w), completions[w] = {}
    PROVE  mailbox[w] = {} /\ runtime[w] = Idle
  <1>1. mailbox[w] = {} /\ InHand(w) = {}
    BY DEF HandshakeInv
  <1>2. {Released(runtime[w].shard)} # {} /\ {Acquired(runtime[w].shard)} # {}
    OBVIOUS
  <1> QED BY <1>1, <1>2 DEF InHand

\* Revoke callback: every task is under a release that is still to come.
LEMMA RevokedLocal ==
    ASSUME InductiveInv, NEW w \in Worker, OnPartitionsRevoked(w), TypeOK'
    PROVE  LocalInv(w)'
  <1> USE DEF OnPartitionsRevoked, PublishChanges, shardVars, InductiveInv, TypeOK
  <1>1. /\ Running(w) /\ Running(w)' /\ callback[w] = "stable" /\ callback'[w] = "revoking"
        /\ completions[w] = {} /\ runtime[w] = Idle
        /\ mailbox'[w] = {Released(s) : s \in assigned[w]}
        /\ completions'[w] = {Released(s) : s \in assigned[w]}
    <2>1. Running(w) /\ Running(w)' /\ callback[w] = "stable" /\ callback'[w] = "revoking"
      BY DEF Running
    <2>2. completions[w] = {} /\ runtime[w] = Idle
      BY <2>1, NothingInHand DEF HandshakeInv
    <2>3. /\ mailbox'[w] = {Released(s) : s \in assigned[w]}
          /\ completions'[w] = {Released(s) : s \in assigned[w]}
      OBVIOUS
    <2> QED BY <2>1, <2>2, <2>3
  <1>2. LifecycleInv(w)'
    BY <1>1 DEF LifecycleInv, Running
  <1>3. HandshakeInv(w)'
    BY <1>1 DEF HandshakeInv, HasTask, InHand
  <1>4. HoldingsInv(w)'
    BY <1>1 DEF HandshakeInv, HoldingsInv, HasTask
  <1>5. ASSUME NEW s \in Shard PROVE StreamInv(w, s)'
    <2>1. Streaming(w, s)' => Streaming(w, s)
      BY <1>1 DEF Streaming, Consuming, Running, HasTask, HandshakeInv
    <2>2. Len(log[s]) <= Len(log'[s])
      OBVIOUS
    <2>3. /\ task'[w][s] = task[w][s] /\ queue'[w][s] = queue[w][s]
          /\ pendings'[w][s] = pendings[w][s] /\ position'[w][s] = position[w][s]
      OBVIOUS
    <2>4. StreamInv(w, s)
      OBVIOUS
    <2> HIDE DEF TypeOK
    <2> QED BY <2>1, <2>2, <2>3, <2>4, StreamKeeps
  <1> QED BY <1>2, <1>3, <1>4, <1>5 DEF LocalInv

\* Assigned callback: nothing of an earlier assignment is left.
LEMMA AssignedLocal ==
    ASSUME InductiveInv, NEW w \in Worker, OnPartitionsAssigned(w), TypeOK'
    PROVE  LocalInv(w)'
  <1> USE DEF OnPartitionsAssigned, PublishChanges, shardVars, InductiveInv, TypeOK
  <1>0. Running(w) /\ callback[w] = "joining" /\ completions[w] = {} /\ HandshakeInv(w)
    BY DEF HandshakeInv, Running
  <1>1. /\ Running(w) /\ Running(w)' /\ callback[w] = "joining" /\ callback'[w] = "assigning"
        /\ completions[w] = {} /\ runtime[w] = Idle
        /\ assigned'[w] = assignment[w]
        /\ mailbox'[w] = {Acquired(s) : s \in assignment[w]}
        /\ completions'[w] = {Acquired(s) : s \in assignment[w]}
    BY <1>0, NothingInHand DEF Running
  <1>2. /\ \A s \in Shard : ~HasTask(w, s) /\ ~HasTask(w, s)'
        /\ \A s \in Shard : queue[w][s] = <<>> /\ pendings[w][s] = {}
        /\ registry[w] = {}
    BY <1>1 DEF HandshakeInv, HoldingsInv, HasTask
  <1>3. LifecycleInv(w)'
    BY <1>1 DEF LifecycleInv, Running
  <1>4. HandshakeInv(w)'
    BY <1>1, <1>2 DEF HandshakeInv, InHand
  <1>5. HoldingsInv(w)'
    BY <1>1, <1>2 DEF HoldingsInv
  <1>6. \A s \in Shard : StreamInv(w, s)'
    BY <1>1, <1>2 DEF StreamInv, Streaming, Busy, HasTask, NoTask
  <1> QED BY <1>3, <1>4, <1>5, <1>6 DEF LocalInv

\* A callback returns with no change left to wait for.
LEMMA ReturnsLocal ==
    ASSUME InductiveInv, NEW w \in Worker, CallbackReturns(w), TypeOK'
    PROVE  LocalInv(w)'
  <1> USE DEF CallbackReturns, shardVars, InductiveInv, TypeOK
  <1>1. /\ Running(w) /\ Running(w)' /\ completions[w] = {}
        /\ runtime[w] = Idle /\ mailbox[w] = {}
    BY NothingInHand DEF HandshakeInv, Running
  <1>2. LifecycleInv(w)'
    BY <1>1 DEF LifecycleInv, Running
  <1>3. HandshakeInv(w)'
    BY <1>1 DEF HandshakeInv, HasTask, InHand
  <1>4. HoldingsInv(w)'
    BY <1>1 DEF HandshakeInv, HoldingsInv, HasTask
  <1>5. ASSUME NEW s \in Shard PROVE StreamInv(w, s)'
    <2>1. Streaming(w, s)' => Streaming(w, s)
      BY <1>1 DEF Streaming, Consuming, Running, HasTask, HandshakeInv
    <2>2. Len(log[s]) <= Len(log'[s])
      OBVIOUS
    <2>3. /\ task'[w][s] = task[w][s] /\ queue'[w][s] = queue[w][s]
          /\ pendings'[w][s] = pendings[w][s] /\ position'[w][s] = position[w][s]
      OBVIOUS
    <2>4. StreamInv(w, s)
      OBVIOUS
    <2> HIDE DEF TypeOK
    <2> QED BY <2>1, <2>2, <2>3, <2>4, StreamKeeps
  <1> QED BY <1>2, <1>3, <1>4, <1>5 DEF LocalInv

\* The runtime starts on a change: it moves from the mailbox into its hand.
LEMMA TakeChangeLocal ==
    ASSUME InductiveInv, TypeOK', NEW w \in Worker, NEW s \in Shard, Running(w),
           runtime[w] = Idle,
           \/ Acquired(s) \in mailbox[w] /\ TakeChange(w, Acquired(s), "restoring")
           \/ Released(s) \in mailbox[w] /\ TakeChange(w, Released(s), "releasing")
    PROVE  LocalInv(w)'
  <1> DEFINE c == IF Acquired(s) \in mailbox[w] /\ TakeChange(w, Acquired(s), "restoring")
                  THEN Acquired(s) ELSE Released(s)
  <1> USE DEF TakeChange, shardVars, InductiveInv
  <1>1. /\ runtime'[w] # Idle /\ InHand(w) = {} /\ runtime'[w].shard = s
        /\ c \in mailbox[w] /\ mailbox'[w] = mailbox[w] \ {c} /\ InHand(w)' = {c}
        /\ runtime'[w].snapshot = {}
    BY DEF TypeOK, InHand, Idle, Acquired, Released
  <1>2. /\ status'[w] = status[w] /\ callback'[w] = callback[w]
        /\ completions'[w] = completions[w] /\ assigned'[w] = assigned[w]
        /\ registry'[w] = registry[w] /\ task'[w] = task[w] /\ queue'[w] = queue[w]
        /\ pendings'[w] = pendings[w] /\ position' = position /\ log' = log
    OBVIOUS
  <1>3. LifecycleInv(w)'
    BY <1>2 DEF LifecycleInv, Running
  <1> HIDE DEF c
  <1>4. HandshakeInv(w)'
    BY <1>1, <1>2 DEF HandshakeInv, HasTask
  <1>5. HoldingsInv(w)'
    BY <1>1, <1>2 DEF HoldingsInv, HasTask
  <1>6. ASSUME NEW x \in Shard PROVE StreamInv(w, x)'
    <2>1. Streaming(w, x)' => Streaming(w, x)
      BY <1>2 DEF Streaming, Consuming, Running, HasTask
    <2>2. Len(log[x]) <= Len(log'[x])
      BY <1>2 DEF TypeOK
    <2> QED BY <1>2, <2>1, <2>2, StreamKeeps
  <1> QED BY <1>3, <1>4, <1>5, <1>6 DEF LocalInv

\* list_active: the snapshot holds sessions of the runtime's shard.
LEMMA ReadLocal ==
    ASSUME InductiveInv, TypeOK', NEW w \in Worker, ReadSessions(w)
    PROVE  LocalInv(w)'
  <1> USE DEF ReadSessions, ownerVars, shardVars, InductiveInv
  <1>1. /\ runtime[w] # Idle /\ runtime'[w] # Idle /\ InHand(w)' = InHand(w)
        /\ runtime'[w].shard = runtime[w].shard
        /\ runtime'[w].snapshot \subseteq SessionsOf(runtime[w].shard)
    BY DEF TypeOK, InHand, Idle
  <1>2. /\ status'[w] = status[w] /\ callback'[w] = callback[w]
        /\ mailbox'[w] = mailbox[w] /\ Running(w) /\ Running(w)'
        /\ completions'[w] = completions[w] /\ assigned'[w] = assigned[w]
        /\ registry'[w] = registry[w] /\ task'[w] = task[w] /\ queue'[w] = queue[w]
        /\ pendings'[w] = pendings[w] /\ position' = position /\ log' = log
    BY DEF Running
  <1>3. LifecycleInv(w)'
    BY <1>2 DEF LifecycleInv, Running
  <1>4. HandshakeInv(w)'
    BY <1>1, <1>2 DEF HandshakeInv, HasTask
  <1>5. HoldingsInv(w)'
    BY <1>1, <1>2 DEF HoldingsInv, HasTask, SessionsOf
  <1>6. ASSUME NEW x \in Shard PROVE StreamInv(w, x)'
    <2>1. Streaming(w, x)' => Streaming(w, x)
      BY <1>2 DEF Streaming, Consuming, Running, HasTask
    <2>2. Len(log[x]) <= Len(log'[x])
      BY <1>2 DEF TypeOK
    <2> QED BY <1>2, <2>1, <2>2, StreamKeeps
  <1> QED BY <1>3, <1>4, <1>5, <1>6 DEF LocalInv

\* A change in hand tells where the callback is and that it owns the shard.
LEMMA HandFacts ==
    ASSUME InductiveInv, NEW w \in Worker, Running(w), runtime[w] # Idle
    PROVE  /\ HandshakeInv(w) /\ HoldingsInv(w) /\ LifecycleInv(w)
           /\ runtime[w].shard \in Shard /\ runtime[w].shard \in assigned[w]
           /\ runtime[w].pc = "releasing" =>
                /\ callback[w] = "revoking" /\ InHand(w) = {Released(runtime[w].shard)}
           /\ runtime[w].pc # "releasing" =>
                /\ callback[w] = "assigning" /\ InHand(w) = {Acquired(runtime[w].shard)}
                /\ ~HasTask(w, runtime[w].shard)
  <1>1. HandshakeInv(w) /\ HoldingsInv(w) /\ LifecycleInv(w) /\ runtime[w].shard \in Shard
    BY DEF InductiveInv, HandshakeInv
  <1>2. callback[w] \in {"none", "joining", "assigning", "stable", "revoking"}
    BY DEF InductiveInv, TypeOK
  <1>3. callback[w] # "none" /\ InHand(w) \subseteq completions[w]
    BY <1>1 DEF HandshakeInv, LifecycleInv
  <1>4. CASE runtime[w].pc = "releasing"
    <2>1. InHand(w) = {Released(runtime[w].shard)}
      BY <1>4 DEF InHand
    <2>2. Released(runtime[w].shard) \in completions[w]
      BY <1>3, <2>1
    <2>3. callback[w] = "revoking" /\ runtime[w].shard \in assigned[w]
      BY <1>1, <1>2, <1>3, <2>2 DEF HandshakeInv, Acquired, Released
    <2> QED BY <1>1, <1>4, <2>1, <2>3
  <1>5. CASE runtime[w].pc # "releasing"
    <2>1. InHand(w) = {Acquired(runtime[w].shard)}
      BY <1>5 DEF InHand
    <2>2. Acquired(runtime[w].shard) \in completions[w]
      BY <1>3, <2>1
    <2>3. callback[w] = "assigning" /\ runtime[w].shard \in assigned[w]
      BY <1>1, <1>2, <1>3, <2>2 DEF HandshakeInv, Acquired, Released
    <2>4. ~HasTask(w, runtime[w].shard)
      BY <1>1, <2>2, <2>3 DEF HandshakeInv
    <2> QED BY <1>1, <1>5, <2>1, <2>3, <2>4
  <1> QED BY <1>4, <1>5

\* An acquire ends: the shard has its sessions and its task.
LEMMA FinishAcquireLocal ==
    ASSUME InductiveInv, ConstantsAssumption, TypeOK', NEW w \in Worker, FinishAcquire(w)
    PROVE  LocalInv(w)'
  <1> DEFINE sh == runtime[w].shard
  <1> USE DEF FinishAcquire, Complete
  <1>1. Running(w) /\ runtime[w] # Idle /\ runtime[w].pc # "releasing"
    BY DEF Idle
  <1>2. /\ HandshakeInv(w) /\ HoldingsInv(w) /\ LifecycleInv(w)
        /\ sh \in Shard /\ sh \in assigned[w] /\ callback[w] = "assigning"
        /\ InHand(w) = {Acquired(sh)} /\ ~HasTask(w, sh)
    BY <1>1, HandFacts
  <1>3. /\ status' = status /\ callback' = callback /\ mailbox' = mailbox
        /\ assigned' = assigned /\ queue' = queue /\ pendings' = pendings
        /\ position' = position /\ log' = log
        /\ Running(w)'
        /\ runtime'[w] = Idle /\ InHand(w)' = {}
        /\ completions'[w] = completions[w] \ {Acquired(sh)}
        /\ registry'[w] = registry[w] \cup runtime[w].snapshot
        /\ task'[w][sh] = Waiting
        /\ \A x \in Shard : x # sh => task'[w][x] = task[w][x]
    BY <1>1, <1>2 DEF InductiveInv, TypeOK, InHand, Running
  <1> HIDE DEF FinishAcquire, Complete
  <1>4. LifecycleInv(w)'
    BY <1>2, <1>3 DEF LifecycleInv, Running
  <1>5. HandshakeInv(w)'
    <2>1. completions'[w] = mailbox'[w]
      BY <1>2, <1>3 DEF HandshakeInv
    <2>2. ASSUME NEW x \in assigned'[w], x \in Shard
          PROVE  HasTask(w, x)' <=> Acquired(x) \notin completions'[w]
      <3>1. CASE x = sh
        BY <1>3, <3>1 DEF HasTask, Waiting, NoTask
      <3>2. CASE x # sh
        BY <1>2, <1>3, <2>2, <3>2 DEF HandshakeInv, HasTask, Acquired
      <3> QED BY <3>1, <3>2
    <2>3. assigned'[w] \subseteq Shard
      BY DEF TypeOK
    <2> QED BY <1>2, <1>3, <2>1, <2>2, <2>3 DEF HandshakeInv, HasTask
  <1>6. HoldingsInv(w)'
    BY <1>2, <1>3 DEF HoldingsInv, SessionsOf, Idle, ConstantsAssumption
  <1>7. ASSUME NEW x \in Shard PROVE StreamInv(w, x)'
    <2>1. StreamInv(w, x)
      BY DEF InductiveInv
    <2>2. Len(log[x]) <= Len(log'[x])
      BY <1>3 DEF InductiveInv, TypeOK
    <2>3. CASE x # sh
      <3>1. Streaming(w, x)' => Streaming(w, x)
        BY <1>1, <1>2, <1>3, <2>3 DEF Streaming, Consuming, Running, HasTask
      <3> QED BY <1>3, <2>1, <2>2, <2>3, <3>1, StreamKeeps DEF InductiveInv
    <2>4. CASE x = sh
      <3>1. Streaming(w, x)' => Streaming(w, x)
        BY <1>1, <1>2, <1>3 DEF Streaming, Consuming, Running
      <3>2. ~Busy(w, x)' /\ task'[w][x] = Waiting /\ Taken(w, x)' = Taken(w, x)
        BY <1>3, <2>4 DEF Busy, Waiting, Taken
      <3>3. ~(task'[w][x].pc \in {"saving", "saved"})
        BY <3>2 DEF Waiting
      <3>4. position'[w][x] = position[w][x] /\ queue'[w][x] = queue[w][x]
            /\ pendings'[w][x] = pendings[w][x] /\ log'[x] = log[x]
        BY <1>3
      <3>5. position'[w][x] = NoOffset => queue'[w][x] = <<>>
        BY <2>1, <3>4 DEF StreamInv
      <3>6. Streaming(w, x)' =>
              /\ Taken(w, x)' \in Nat /\ position'[w][x] <= Len(log'[x])
              /\ \A i \in 1..Len(queue'[w][x]) :
                     /\ queue'[w][x][i] = Taken(w, x)' + i
                     /\ queue'[w][x][i] \in pendings'[w][x]
        BY <2>1, <3>1, <3>2, <3>4 DEF StreamInv
      <3> QED BY <3>2, <3>3, <3>5, <3>6 DEF StreamInv
    <2> QED BY <2>3, <2>4
  <1> QED BY <1>4, <1>5, <1>6, <1>7 DEF LocalInv

\* The cancelled task ends: its queue and its deliveries go with it.
LEMMA TaskStopsLocal ==
    ASSUME InductiveInv, TypeOK', NEW w \in Worker, NEW s \in Shard, TaskStops(w, s)
    PROVE  LocalInv(w)'
  <1> USE DEF TaskStops, Cancelling, ownerVars
  <1>1. Running(w) /\ runtime[w] # Idle /\ runtime[w].pc = "releasing" /\ runtime[w].shard = s
    BY DEF Idle
  <1>2. /\ HandshakeInv(w) /\ HoldingsInv(w) /\ LifecycleInv(w)
        /\ s \in assigned[w] /\ callback[w] = "revoking"
        /\ InHand(w) = {Released(s)}
    BY <1>1, HandFacts
  <1>3. /\ status' = status /\ callback' = callback /\ mailbox' = mailbox
        /\ completions' = completions /\ runtime' = runtime /\ registry' = registry
        /\ assigned' = assigned /\ position' = position /\ log' = log
        /\ InHand(w)' = InHand(w) /\ Running(w)'
        /\ task'[w][s] = NoTask /\ queue'[w][s] = <<>> /\ pendings'[w][s] = {}
        /\ \A x \in Shard : x # s => /\ task'[w][x] = task[w][x]
                                     /\ queue'[w][x] = queue[w][x]
                                     /\ pendings'[w][x] = pendings[w][x]
    BY <1>1 DEF InductiveInv, TypeOK, InHand, Running
  <1> HIDE DEF TaskStops, Cancelling
  <1>4. LifecycleInv(w)'
    BY <1>2, <1>3 DEF LifecycleInv, Running
  <1>5. HandshakeInv(w)'
    <2>1. \A x \in Shard : HasTask(w, x)' => HasTask(w, x)
      BY <1>3 DEF HasTask
    <2>2. assigned[w] \subseteq Shard
      BY DEF InductiveInv, TypeOK
    <2> QED BY <1>2, <1>3, <2>1, <2>2 DEF HandshakeInv
  <1>6. HoldingsInv(w)'
    <2>1. \A e \in registry'[w] :
             /\ ShardOf[e] \in assigned'[w] /\ callback'[w] # "joining"
             /\ Released(ShardOf[e]) \in completions'[w]
      BY <1>2, <1>3 DEF HoldingsInv
    <2>2. runtime'[w].snapshot \subseteq SessionsOf(runtime'[w].shard)
      BY <1>2, <1>3 DEF HoldingsInv
    <2>3. \A x \in Shard : queue'[w][x] # <<>> \/ pendings'[w][x] # {} =>
             x \in assigned'[w] /\ callback'[w] # "joining" /\ HasTask(w, x)'
      BY <1>2, <1>3 DEF HoldingsInv, HasTask
    <2> QED BY <2>1, <2>2, <2>3 DEF HoldingsInv, SessionsOf
  <1>7. ASSUME NEW x \in Shard PROVE StreamInv(w, x)'
    <2>1. StreamInv(w, x)
      BY DEF InductiveInv
    <2>2. Len(log[x]) <= Len(log'[x])
      BY <1>3 DEF InductiveInv, TypeOK
    <2>3. CASE x # s
      <3>1. Streaming(w, x)' => Streaming(w, x)
        BY <1>3, <2>3 DEF Streaming, Consuming, Running, HasTask
      <3> QED BY <1>3, <2>1, <2>2, <2>3, <3>1, StreamKeeps DEF InductiveInv
    <2>4. CASE x = s
      <3>1. ~Streaming(w, x)' /\ ~Busy(w, x)' /\ queue'[w][x] = <<>>
        BY <1>2, <1>3, <2>4 DEF Streaming, Consuming, HasTask, Busy, NoTask
      <3> QED BY <3>1 DEF StreamInv
    <2> QED BY <2>3, <2>4
  <1> QED BY <1>4, <1>5, <1>6, <1>7 DEF LocalInv

\* A release ends: no session of the shard stays in the registry.
LEMMA FinishReleaseLocal ==
    ASSUME InductiveInv, ConstantsAssumption, TypeOK', NEW w \in Worker, FinishRelease(w)
    PROVE  LocalInv(w)'
  <1> DEFINE sh == runtime[w].shard
  <1> USE DEF FinishRelease, Complete
  <1>1. Running(w) /\ runtime[w] # Idle /\ runtime[w].pc = "releasing"
    BY DEF Idle
  <1>2. /\ HandshakeInv(w) /\ HoldingsInv(w) /\ LifecycleInv(w)
        /\ sh \in Shard /\ sh \in assigned[w] /\ callback[w] = "revoking"
        /\ InHand(w) = {Released(sh)}
    BY <1>1, HandFacts
  <1>3. /\ status' = status /\ callback' = callback /\ mailbox' = mailbox
        /\ assigned' = assigned /\ queue' = queue /\ pendings' = pendings
        /\ position' = position /\ log' = log /\ task' = task
        /\ Running(w)' /\ ~HasTask(w, sh)
        /\ runtime'[w] = Idle /\ InHand(w)' = {}
        /\ completions'[w] = completions[w] \ {Released(sh)}
        /\ registry'[w] = registry[w] \ SessionsOf(sh)
    BY <1>1, <1>2 DEF InductiveInv, TypeOK, InHand, Running, shardVars, HasTask
  <1> HIDE DEF FinishRelease, Complete
  <1>4. LifecycleInv(w)'
    BY <1>2, <1>3 DEF LifecycleInv, Running
  <1>5. HandshakeInv(w)'
    <2>1. completions'[w] = mailbox'[w]
      BY <1>2, <1>3 DEF HandshakeInv
    <2>2. assigned[w] \subseteq Shard
      BY DEF InductiveInv, TypeOK
    <2>3. ASSUME NEW x \in assigned[w], HasTask(w, x)
          PROVE  Released(x) \in completions'[w]
      BY <1>2, <1>3, <2>3 DEF HandshakeInv, Released
    <2>4. \A x \in Shard : HasTask(w, x)' <=> HasTask(w, x)
      BY <1>3 DEF HasTask
    <2> QED BY <1>2, <1>3, <2>1, <2>2, <2>3, <2>4 DEF HandshakeInv
  <1>6. HoldingsInv(w)'
    <2>1. \A x \in Shard : HasTask(w, x)' <=> HasTask(w, x)
      BY <1>3 DEF HasTask
    <2>2. ASSUME NEW e \in registry'[w]
          PROVE  ShardOf[e] \in assigned'[w] /\ Released(ShardOf[e]) \in completions'[w]
      <3>1. e \in registry[w] /\ e \in Event /\ ShardOf[e] # sh
        BY <1>3, <2>2 DEF SessionsOf, InductiveInv, TypeOK
      <3>2. ShardOf[e] \in assigned[w] /\ Released(ShardOf[e]) \in completions[w]
        BY <1>2, <3>1 DEF HoldingsInv
      <3> QED BY <1>3, <3>1, <3>2 DEF Released
    <2>3. runtime'[w].snapshot \subseteq SessionsOf(runtime'[w].shard)
      BY <1>3 DEF Idle
    <2>4. callback'[w] # "joining"
      BY <1>2, <1>3
    <2> QED BY <1>2, <1>3, <2>1, <2>2, <2>3, <2>4 DEF HoldingsInv, SessionsOf
  <1>7. ASSUME NEW x \in Shard PROVE StreamInv(w, x)'
    <2>1. StreamInv(w, x) /\ Len(log[x]) <= Len(log'[x])
      BY <1>3 DEF InductiveInv, TypeOK
    <2>2. Streaming(w, x)' => Streaming(w, x)
      BY <1>3 DEF Streaming, Consuming, Running, HasTask
    <2> QED BY <1>3, <2>1, <2>2, StreamKeeps DEF InductiveInv
  <1> QED BY <1>4, <1>5, <1>6, <1>7 DEF LocalInv

\* The steps of the dispatcher and of the tasks leave the hand-over alone.
HandOverStays(w) ==
    /\ Running(w)
    /\ status' = status /\ callback' = callback /\ assigned' = assigned
    /\ mailbox' = mailbox /\ completions' = completions /\ runtime' = runtime
    /\ \A x \in Shard : HasTask(w, x)' <=> HasTask(w, x)

\* Such a step keeps the life cycle and the handshake of the worker.
LEMMA HandOverKeeps ==
    ASSUME InductiveInv, NEW w \in Worker, HandOverStays(w)
    PROVE  LifecycleInv(w)' /\ HandshakeInv(w)'
  <1>1. LifecycleInv(w) /\ HandshakeInv(w) /\ assigned[w] \subseteq Shard
    BY DEF InductiveInv, HandOverStays, TypeOK
  <1>2. LifecycleInv(w)'
    BY <1>1 DEF HandOverStays, LifecycleInv, Running
  <1>3. HandshakeInv(w)'
    BY <1>1 DEF HandOverStays, HandshakeInv, InHand
  <1> QED BY <1>2, <1>3

\* The streams of the other shards of w stay.
OtherStreamsStay(w, s) ==
    /\ log' = log
    /\ \A x \in Shard \ {s} :
          /\ task'[w][x] = task[w][x] /\ queue'[w][x] = queue[w][x]
          /\ pendings'[w][x] = pendings[w][x] /\ position'[w][x] = position[w][x]

\* Such a step keeps the streams of the worker if it keeps that of s.
LEMMA OtherStreamsKeep ==
    ASSUME InductiveInv, TypeOK', NEW w \in Worker, NEW s \in Shard, HandOverStays(w),
           OtherStreamsStay(w, s), StreamInv(w, s)'
    PROVE  \A x \in Shard : StreamInv(w, x)'
  <1>1. ASSUME NEW x \in Shard, x # s PROVE StreamInv(w, x)'
    <2>1. StreamInv(w, x) /\ Len(log[x]) <= Len(log'[x])
      BY DEF InductiveInv, TypeOK, OtherStreamsStay
    <2>2. Streaming(w, x)' => Streaming(w, x)
      BY <1>1 DEF Streaming, Consuming, Running, HasTask, OtherStreamsStay, HandOverStays
    <2> QED BY <1>1, <2>1, <2>2, StreamKeeps DEF InductiveInv, OtherStreamsStay
  <1> QED BY <1>1

\* A new position starts an empty stream inside the log.
LEMMA ResetPositionLocal ==
    ASSUME InductiveInv, TypeOK', NEW w \in Worker, NEW s \in Shard, ResetPosition(w, s)
    PROVE  LocalInv(w)'
  <1> USE DEF ResetPosition, ownerVars, shardVars, Consuming
  <1>1. HandOverStays(w) /\ OtherStreamsStay(w, s) /\ registry' = registry
        /\ task' = task /\ queue' = queue /\ pendings' = pendings
    BY DEF HandOverStays, OtherStreamsStay, HasTask, InductiveInv, TypeOK
  <1>2. /\ queue[w][s] = <<>> /\ ~Busy(w, s)
        /\ position'[w][s] \in Nat /\ position'[w][s] <= Len(log[s])
    BY DEF InductiveInv, StreamInv, LogInv, TypeOK
  <1>3. StreamInv(w, s)'
    <2>1. Taken(w, s)' = position'[w][s]
      BY <1>1, <1>2 DEF Taken
    <2>2. ~Busy(w, s)' /\ queue'[w][s] = <<>> /\ log' = log
      BY <1>1, <1>2 DEF Busy
    <2> QED BY <1>2, <2>1, <2>2 DEF StreamInv, Busy
  <1>4. HoldingsInv(w)'
    BY <1>1 DEF HandOverStays, HoldingsInv, HasTask, InductiveInv
  <1> QED BY <1>1, <1>3, <1>4, HandOverKeeps, OtherStreamsKeep DEF LocalInv

\* A dispatch lengthens the queue and the position by one.
LEMMA DispatchLocal ==
    ASSUME InductiveInv, TypeOK', NEW w \in Worker, NEW s \in Shard, Dispatch(w, s)
    PROVE  LocalInv(w)'
  <1> DEFINE o == position[w][s] + 1
  <1> USE DEF Dispatch, HasNext, ownerVars
  <1>1. HandOverStays(w) /\ OtherStreamsStay(w, s) /\ registry' = registry /\ task' = task
    BY DEF HandOverStays, OtherStreamsStay, HasTask, InductiveInv, TypeOK, Consuming
  <1>2. /\ Streaming(w, s) /\ StreamInv(w, s) /\ position[w][s] \in Nat
        /\ o \in Nat /\ o <= Len(log[s]) /\ queue[w][s] \in Seq(Nat)
    BY DEF InductiveInv, Streaming, TypeOK, NoOffset
  <1>3. /\ queue'[w][s] = Append(queue[w][s], o) /\ position'[w][s] = o
        /\ pendings'[w][s] = pendings[w][s] \cup {o} /\ log' = log
    BY DEF InductiveInv, TypeOK
  <1> HIDE DEF Dispatch, HasNext
  <1>4. StreamInv(w, s)'
    <2>1. /\ Len(queue'[w][s]) = Len(queue[w][s]) + 1
          /\ \A i \in 1..Len(queue[w][s]) : queue'[w][s][i] = queue[w][s][i]
          /\ queue'[w][s][Len(queue[w][s]) + 1] = o
          /\ Len(queue[w][s]) \in Nat
      BY <1>2, <1>3
    <2>2. Taken(w, s)' = Taken(w, s) /\ o = Taken(w, s) + (Len(queue[w][s]) + 1)
      <3>1. position'[w][s] = position[w][s] + 1 /\ position[w][s] \in Nat
        BY <1>2, <1>3
      <3>2. o = position[w][s] + 1
        OBVIOUS
      <3>3. ASSUME NEW p \in Nat, NEW n \in Nat
            PROVE  (p + 1) - (n + 1) = p - n /\ p + 1 = (p - n) + (n + 1)
        OBVIOUS
      <3>4. Taken(w, s) = position[w][s] - Len(queue[w][s])
        BY DEF Taken
      <3>5. Taken(w, s)' = (position[w][s] + 1) - (Len(queue[w][s]) + 1)
        BY <2>1, <3>1 DEF Taken
      <3> QED BY <2>1, <3>1, <3>2, <3>3, <3>4, <3>5
    <2>3. \A i \in 1..Len(queue'[w][s]) :
             queue'[w][s][i] = Taken(w, s)' + i /\ queue'[w][s][i] \in pendings'[w][s]
      <3>1. ASSUME NEW i \in 1..Len(queue[w][s])
            PROVE  queue'[w][s][i] = Taken(w, s)' + i /\ queue'[w][s][i] \in pendings'[w][s]
        BY <1>2, <1>3, <2>1, <2>2 DEF StreamInv
      <3>2. /\ queue'[w][s][Len(queue[w][s]) + 1] = Taken(w, s)' + (Len(queue[w][s]) + 1)
            /\ queue'[w][s][Len(queue[w][s]) + 1] \in pendings'[w][s]
        BY <1>3, <2>1, <2>2
      <3>3. \A i \in 1..(Len(queue[w][s]) + 1) :
                i \in 1..Len(queue[w][s]) \/ i = Len(queue[w][s]) + 1
        BY <2>1
      <3> QED BY <2>1, <3>1, <3>2, <3>3
    <2>4. Busy(w, s)' <=> Busy(w, s)
      BY <1>1 DEF Busy
    <2>5. Taken(w, s)' \in Nat /\ position'[w][s] <= Len(log'[s])
      BY <1>2, <1>3, <2>2 DEF StreamInv
    <2>6. Busy(w, s)' => task'[w][s].offset = Taken(w, s)' /\ Taken(w, s)' # 0
      BY <1>1, <1>2, <2>2, <2>4 DEF StreamInv
    <2>7. task'[w][s].pc \in {"saving", "saved"} =>
              task'[w][s].offset \in pendings'[w][s]
      BY <1>1, <1>2, <1>3 DEF StreamInv
    <2>8. position'[w][s] # NoOffset
      BY <1>2, <1>3 DEF NoOffset
    <2> QED BY <2>3, <2>5, <2>6, <2>7, <2>8 DEF StreamInv
  <1>5. HoldingsInv(w)'
    <2>1. s \in assigned[w] /\ callback[w] \in {"assigning", "stable"} /\ HoldingsInv(w)
      BY DEF Dispatch, HasNext, Consuming, InductiveInv
    <2>2. \A x \in Shard \ {s} : queue'[w][x] = queue[w][x] /\ pendings'[w][x] = pendings[w][x]
      BY <1>1 DEF OtherStreamsStay
    <2> QED BY <1>1, <2>1, <2>2 DEF HandOverStays, HoldingsInv, HasTask
  <1> QED BY <1>1, <1>4, <1>5, HandOverKeeps, OtherStreamsKeep DEF LocalInv

\* A delivery leaves the queue and is the one in hand.
LEMMA TakeDeliveryLocal ==
    ASSUME InductiveInv, TypeOK', NEW w \in Worker, NEW s \in Shard, TakeDelivery(w, s)
    PROVE  LocalInv(w)'
  <1> USE DEF TakeDelivery, ownerVars
  <1>1. /\ HandOverStays(w) /\ OtherStreamsStay(w, s) /\ registry' = registry
        /\ pendings' = pendings /\ position' = position /\ log' = log
        /\ HasTask(w, s) /\ Running(w)
    BY DEF HandOverStays, OtherStreamsStay, HasTask, InductiveInv, TypeOK, Waiting, NoTask
  <1>2. /\ queue[w][s] \in Seq(Nat) /\ queue[w][s] # <<>> /\ StreamInv(w, s)
        /\ queue'[w][s] = Tail(queue[w][s])
        /\ task'[w][s] = [pc |-> "saving", offset |-> Head(queue[w][s])]
    BY DEF InductiveInv, TypeOK
  <1>3. Streaming(w, s) /\ position[w][s] \in Nat
    BY <1>1, <1>2 DEF Streaming, StreamInv, InductiveInv, TypeOK
  <1> HIDE DEF TakeDelivery
  <1>4. StreamInv(w, s)'
    <2>1. /\ Len(queue[w][s]) \in Nat \ {0}
          /\ Len(queue'[w][s]) = Len(queue[w][s]) - 1
          /\ \A i \in 1..Len(queue'[w][s]) : queue'[w][s][i] = queue[w][s][i + 1]
          /\ Head(queue[w][s]) = queue[w][s][1]
      BY <1>2
    <2>2. Taken(w, s)' = Taken(w, s) + 1 /\ Taken(w, s) \in Nat
      BY <1>1, <1>2, <1>3, <2>1 DEF Taken, StreamInv
    <2>3. task'[w][s].offset = Taken(w, s)' /\ task'[w][s].offset \in pendings'[w][s]
      BY <1>1, <1>2, <1>3, <2>1, <2>2 DEF StreamInv
    <2>4. ASSUME NEW i \in 1..Len(queue'[w][s])
          PROVE  queue'[w][s][i] = Taken(w, s)' + i /\ queue'[w][s][i] \in pendings'[w][s]
      <3>1. i + 1 \in 1..Len(queue[w][s])
        BY <2>1
      <3>2. queue[w][s][i + 1] = Taken(w, s) + (i + 1)
            /\ queue[w][s][i + 1] \in pendings[w][s]
        BY <1>2, <1>3, <3>1 DEF StreamInv
      <3>3. queue'[w][s][i] = queue[w][s][i + 1]
        BY <2>1
      <3>4. Taken(w, s) + (i + 1) = Taken(w, s)' + i
        <4>1. ASSUME NEW t \in Nat, NEW u, u = t + 1, NEW j \in Int
              PROVE  t + (j + 1) = u + j
          BY <4>1
        <4>2. i \in Int
          BY <2>1
        <4> QED BY <2>2, <4>1, <4>2
      <3>5. pendings'[w][s] = pendings[w][s]
        BY <1>1
      <3> QED BY <3>2, <3>3, <3>4, <3>5, Zenon
    <2>5. position'[w][s] <= Len(log'[s]) /\ position'[w][s] # NoOffset
      BY <1>1, <1>2, <1>3 DEF StreamInv, NoOffset
    <2> QED BY <2>2, <2>3, <2>4, <2>5 DEF StreamInv
  <1>5. HoldingsInv(w)'
    <2>1. HoldingsInv(w)
      BY <1>1 DEF InductiveInv
    <2>2. \A x \in Shard : queue'[w][x] # <<>> => queue[w][x] # <<>>
      BY <1>1, <1>2 DEF OtherStreamsStay
    <2> QED BY <1>1, <2>1, <2>2 DEF HandOverStays, HoldingsInv
  <1> QED BY <1>1, <1>4, <1>5, HandOverKeeps, OtherStreamsKeep DEF LocalInv

\* The delivery in hand goes on: the same offset, past the database or the
\* broker, or done.
LEMMA AdvanceLocal ==
    ASSUME InductiveInv, TypeOK', NEW w \in Worker, NEW s \in Shard,
           \/ SaveSession(w, s) \/ CommitOffset(w, s) \/ AckReturns(w, s)
    PROVE  LocalInv(w)'
  <1> USE DEF SaveSession, CommitOffset, AckReturns, Advance, ownerVars
  <1>1. Busy(w, s) /\ HasTask(w, s) /\ Running(w)
    BY DEF Busy, HasTask, NoTask
  <1>2. /\ \/ task'[w][s] = Waiting
           \/ /\ task'[w][s].pc \in {"saved", "committed"}
              /\ task'[w][s].offset = task[w][s].offset
              /\ task'[w][s].pc = "saved" => task[w][s].pc = "saving"
        /\ \A x \in Shard \ {s} : task'[w][x] = task[w][x]
    BY DEF InductiveInv, TypeOK
  <1>3. /\ HandOverStays(w) /\ OtherStreamsStay(w, s) /\ registry' = registry
        /\ queue' = queue /\ pendings' = pendings /\ position' = position /\ log' = log
    <2>1. HasTask(w, s)'
      BY <1>2 DEF HasTask, Waiting, NoTask
    <2> QED BY <1>1, <1>2, <2>1 DEF HandOverStays, OtherStreamsStay, HasTask
  <1> HIDE DEF SaveSession, CommitOffset, AckReturns, Advance
  <1>4. StreamInv(w, s)'
    <2>1. StreamInv(w, s) /\ Streaming(w, s) /\ Taken(w, s)' = Taken(w, s)
          /\ position[w][s] # NoOffset
      BY <1>1, <1>3 DEF InductiveInv, StreamInv, Streaming, Taken
    <2>2. Busy(w, s)' => task'[w][s].offset = task[w][s].offset
      BY <1>2 DEF Busy, Waiting
    <2>3. task'[w][s].pc \in {"saving", "saved"} =>
              task[w][s].pc = "saving" /\ task'[w][s].offset = task[w][s].offset
      BY <1>2 DEF Waiting
    <2> QED BY <1>1, <1>3, <2>1, <2>2, <2>3 DEF StreamInv
  <1>5. HoldingsInv(w)'
    BY <1>1, <1>3 DEF HandOverStays, HoldingsInv, InductiveInv
  <1> QED BY <1>3, <1>4, <1>5, HandOverKeeps, OtherStreamsKeep DEF LocalInv

\* The session of the delivery in hand enters the registry of a shard that
\* still has its task, and only that delivery leaves _pendings.
LEMMA ActivateLocal ==
    ASSUME InductiveInv, ConstantsAssumption, TypeOK', NEW w \in Worker, NEW s \in Shard,
           Running(w), task[w][s].pc = "saved", Activate(w, s)
    PROVE  LocalInv(w)'
  <1> DEFINE o == task[w][s].offset
  <1> USE DEF Activate, Advance, ownerVars
  <1>1. Busy(w, s) /\ HasTask(w, s)
    BY DEF Busy, HasTask, NoTask
  <1>2. /\ task'[w][s] = [pc |-> "committing", offset |-> o]
        /\ pendings'[w][s] = pendings[w][s] \ {o}
        /\ \A x \in Shard \ {s} : task'[w][x] = task[w][x] /\ pendings'[w][x] = pendings[w][x]
        /\ registry'[w] = registry[w] \cup {EventAt(s, o)}
        /\ queue' = queue /\ position' = position /\ log' = log
    BY DEF InductiveInv, TypeOK
  <1>3. HandOverStays(w) /\ OtherStreamsStay(w, s)
    <2>1. HasTask(w, s)'
      BY <1>2 DEF HasTask, NoTask
    <2> QED BY <1>1, <1>2, <2>1 DEF HandOverStays, OtherStreamsStay, HasTask
  <1>4. StreamInv(w, s) /\ Streaming(w, s) /\ position[w][s] # NoOffset
        /\ Taken(w, s)' = Taken(w, s)
    BY <1>1, <1>2 DEF InductiveInv, StreamInv, Streaming, Taken
  <1>5. ShardOf[EventAt(s, o)] = s
    BY <1>1, <1>4, BusyOffset DEF InductiveInv, LogInv, EventAt
  <1> HIDE DEF Activate, Advance
  <1>6. StreamInv(w, s)'
    <2>1. o = Taken(w, s) /\ Taken(w, s) \in Nat
      BY <1>1, <1>4 DEF StreamInv
    <2>2. ASSUME NEW i \in 1..Len(queue[w][s])
          PROVE  queue[w][s][i] = Taken(w, s) + i /\ queue[w][s][i] \in pendings'[w][s]
      <3>1. queue[w][s][i] = Taken(w, s) + i /\ queue[w][s][i] \in pendings[w][s]
        BY <1>4 DEF StreamInv
      <3>2. queue[w][s][i] # o
        BY <2>1, <3>1
      <3> QED BY <1>2, <3>1, <3>2
    <2> QED BY <1>1, <1>2, <1>4, <2>1, <2>2 DEF StreamInv
  <1>7. HoldingsInv(w)'
    <2>1. HoldingsInv(w) /\ HandshakeInv(w)
      BY DEF InductiveInv
    <2>2. s \in assigned[w] /\ callback[w] # "joining"
          /\ (callback[w] = "revoking" => Released(s) \in completions[w])
      BY <1>1, <2>1 DEF HandshakeInv
    <2>3. ASSUME NEW e \in registry'[w]
          PROVE  /\ ShardOf[e] \in assigned'[w] /\ callback'[w] # "joining"
                 /\ callback'[w] = "revoking" => Released(ShardOf[e]) \in completions'[w]
      BY <1>2, <1>3, <1>5, <2>1, <2>2 DEF HoldingsInv, HandOverStays
    <2>4. \A x \in Shard : pendings'[w][x] # {} => pendings[w][x] # {}
      BY <1>2
    <2> QED BY <1>2, <1>3, <2>1, <2>3, <2>4 DEF HandOverStays, HoldingsInv
  <1> QED BY <1>3, <1>6, <1>7, HandOverKeeps, OtherStreamsKeep DEF LocalInv

-----------------------------------------------------------------------------
(* Every step keeps the inductive invariant.                               *)

\* A worker ends by an exception, stops, is killed, or starts.
LEMMA FailLocal ==
    ASSUME TypeOK, NEW w \in Worker, Fail(w)
    PROVE  LocalInv(w)'
  <1>1. status'[w] = "stopping" /\ ForgetMemory(w)
    BY DEF Fail, TypeOK
  <1> QED BY <1>1, ForgottenKeeps DEF Running

\* The start and the end of a process.
LEMMA LifeLocal ==
    ASSUME InductiveInv, TypeOK', NEW w \in Worker,
           WorkerFails(w) \/ Crash(w) \/ StopConsumer(w) \/ Start(w)
    PROVE  LocalInv(w)'
  <1>1. CASE WorkerFails(w)
    BY <1>1, FailLocal DEF WorkerFails, InductiveInv
  <1>2. CASE Crash(w)
    <2>1. status'[w] = "down" /\ callback'[w] = "none" /\ completions'[w] = {} /\ ForgetMemory(w)
      BY <1>2 DEF Crash, InductiveInv, TypeOK
    <2> QED BY <2>1, ForgottenKeeps DEF Running, InductiveInv
  <1>3. CASE StopConsumer(w)
    <2>1. /\ status[w] = "stopping" /\ status'[w] = "down"
          /\ callback'[w] = "none" /\ completions'[w] = {}
          /\ mailbox' = mailbox /\ runtime' = runtime /\ registry' = registry
          /\ task' = task /\ queue' = queue /\ pendings' = pendings
          /\ position' = position
      BY <1>3 DEF StopConsumer, InductiveInv, TypeOK, shardVars
    <2>2. /\ mailbox[w] = {} /\ runtime[w] = Idle /\ registry[w] = {}
          /\ \A s \in Shard : /\ task[w][s] = NoTask /\ queue[w][s] = <<>>
                              /\ pendings[w][s] = {} /\ position[w][s] = NoOffset
      BY <2>1 DEF InductiveInv, LifecycleInv, Running
    <2>3. LifecycleInv(w)' /\ ~Running(w)'
      BY <2>1, <2>2 DEF LifecycleInv, Running
    <2>4. \A s \in Shard : StreamInv(w, s)'
      BY <2>1, <2>2 DEF StreamInv, Streaming, Busy, NoTask
    <2> QED BY <2>3, <2>4 DEF LocalInv
  <1>4. CASE Start(w)
    <2>1. /\ status[w] = "down" /\ Running(w)' /\ callback'[w] = "joining"
          /\ mailbox' = mailbox /\ runtime' = runtime /\ registry' = registry
          /\ completions' = completions
          /\ task' = task /\ queue' = queue /\ pendings' = pendings
          /\ position' = position /\ status'[w] = "running"
      BY <1>4 DEF Start, InductiveInv, TypeOK, shardVars, Running
    <2>2. /\ mailbox[w] = {} /\ runtime[w] = Idle /\ registry[w] = {} /\ completions[w] = {}
          /\ \A s \in Shard : /\ task[w][s] = NoTask /\ queue[w][s] = <<>>
                              /\ pendings[w][s] = {} /\ position[w][s] = NoOffset
      BY <2>1 DEF InductiveInv, LifecycleInv, Running
    <2>3. LifecycleInv(w)'
      BY <2>1, <2>2 DEF LifecycleInv, Running
    <2>4. HandshakeInv(w)'
      BY <2>1, <2>2 DEF HandshakeInv, InHand, HasTask
    <2>5. HoldingsInv(w)'
      BY <2>1, <2>2 DEF HoldingsInv, Idle
    <2>6. \A s \in Shard : StreamInv(w, s)'
      BY <2>1, <2>2 DEF StreamInv, Streaming, Busy, NoTask
    <2> QED BY <2>3, <2>4, <2>5, <2>6 DEF LocalInv
  <1> QED BY <1>1, <1>2, <1>3, <1>4

\* What one worker does leaves the memory of the others.
LEMMA OthersUntouched ==
    ASSUME TypeOK, NEW w \in Worker, NEW v \in Worker, v # w,
           WorkerStep(w) \/ Start(w) \/ WorkerFails(w) \/ Crash(w)
    PROVE  Untouched(v)
  <1> USE DEF ownerVars, shardVars, Untouched, TypeOK
  <1>0. ASSUME Fail(w) PROVE Untouched(v)
    BY <1>0 DEF Fail, ForgetMemory
  <1>1. CASE Join(w) \/ StopConsumer(w) \/ Start(w)
    BY <1>1 DEF Join, StopConsumer, Start
  <1>2. CASE WorkerFails(w) \/ Crash(w)
    <2>1. CASE WorkerFails(w)
      BY <1>0, <2>1 DEF WorkerFails
    <2>2. CASE Crash(w)
      BY <2>2 DEF Crash, ForgetMemory
    <2> QED BY <1>2, <2>1, <2>2
  <1>3. CASE OnPartitionsRevoked(w) \/ OnPartitionsAssigned(w) \/ CallbackReturns(w)
    BY <1>3 DEF OnPartitionsRevoked, OnPartitionsAssigned, CallbackReturns, PublishChanges
  <1>4. CASE ReadSessions(w) \/ FinishAcquire(w) \/ FinishRelease(w)
    BY <1>4 DEF ReadSessions, FinishAcquire, FinishRelease, Complete
  <1>5. CASE \E s \in Shard : ShardStep(w, s)
    <2> PICK s \in Shard : ShardStep(w, s)
      BY <1>5
    <2>1. CASE BeginAcquire(w, s)
      <3>1. Fail(w) \/ TakeChange(w, Acquired(s), "restoring")
        BY <2>1 DEF BeginAcquire
      <3>2. ASSUME TakeChange(w, Acquired(s), "restoring") PROVE Untouched(v)
        BY <3>2 DEF TakeChange
      <3> QED BY <1>0, <3>1, <3>2
    <2>2. CASE BeginRelease(w, s)
      BY <2>2 DEF BeginRelease, TakeChange
    <2>3. CASE ActivateAndAck(w, s)
      <3>1. Fail(w) \/ Activate(w, s)
        BY <2>3 DEF ActivateAndAck
      <3>2. ASSUME Activate(w, s) PROVE Untouched(v)
        BY <3>2 DEF Activate, Advance
      <3> QED BY <1>0, <3>1, <3>2
    <2>4. CASE CommitRejected(w, s)
      BY <1>0, <2>4 DEF CommitRejected
    <2>5. CASE TaskStops(w, s) \/ ResetPosition(w, s) \/ Dispatch(w, s) \/ DispatcherDies(w, s)
      BY <2>5 DEF TaskStops, ResetPosition, Dispatch, DispatcherDies
    <2>6. CASE TakeDelivery(w, s) \/ SaveSession(w, s) \/ CommitOffset(w, s) \/ AckReturns(w, s)
      BY <2>6 DEF TakeDelivery, SaveSession, CommitOffset, AckReturns, Advance
    <2> QED BY <2>1, <2>2, <2>3, <2>4, <2>5, <2>6 DEF ShardStep
  <1> QED BY <1>1, <1>2, <1>3, <1>4, <1>5 DEF WorkerStep

\* A worker's own steps keep its part of the invariant.
LEMMA OwnStepLocal ==
    ASSUME InductiveInv, ConstantsAssumption, TypeOK', NEW w \in Worker,
           WorkerStep(w) \/ Start(w) \/ WorkerFails(w) \/ Crash(w)
    PROVE  LocalInv(w)'
  <1>0. TypeOK /\ LocalInv(w)
    BY DEF InductiveInv, LocalInv
  <1>1. CASE Join(w)
    <2>1. Untouched(w) /\ LogGrows
      BY <1>0, <1>1 DEF Join, Untouched, LogGrows, ownerVars, shardVars, TypeOK
    <2> QED BY <1>0, <2>1, UntouchedKeeps
  <1>2. CASE StopConsumer(w) \/ Start(w) \/ WorkerFails(w) \/ Crash(w)
    BY <1>2, LifeLocal
  <1>3. CASE OnPartitionsRevoked(w) \/ OnPartitionsAssigned(w) \/ CallbackReturns(w)
    BY <1>3, RevokedLocal, AssignedLocal, ReturnsLocal
  <1>4. CASE ReadSessions(w) \/ FinishAcquire(w) \/ FinishRelease(w)
    BY <1>4, ReadLocal, FinishAcquireLocal, FinishReleaseLocal
  <1>5. CASE \E s \in Shard : ShardStep(w, s)
    <2> PICK s \in Shard : ShardStep(w, s)
      BY <1>5
    <2>1. CASE BeginAcquire(w, s)
      <3>1. Running(w) /\ runtime[w] = Idle /\ Acquired(s) \in mailbox[w]
        BY <2>1 DEF BeginAcquire
      <3>2. Fail(w) \/ TakeChange(w, Acquired(s), "restoring")
        BY <2>1 DEF BeginAcquire
      <3> QED BY <1>0, <3>1, <3>2, FailLocal, TakeChangeLocal
    <2>2. CASE BeginRelease(w, s)
      <3>1. /\ Running(w) /\ runtime[w] = Idle /\ Released(s) \in mailbox[w]
            /\ TakeChange(w, Released(s), "releasing")
        BY <2>2 DEF BeginRelease
      <3> QED BY <3>1, TakeChangeLocal
    <2>3. CASE ActivateAndAck(w, s)
      <3>1. Running(w) /\ task[w][s].pc = "saved"
        BY <2>3 DEF ActivateAndAck
      <3>2. Fail(w) \/ Activate(w, s)
        BY <2>3 DEF ActivateAndAck
      <3> QED BY <1>0, <3>1, <3>2, FailLocal, ActivateLocal
    <2>4. CASE CommitRejected(w, s)
      BY <1>0, <2>4, FailLocal DEF CommitRejected
    <2>5. CASE TaskStops(w, s) \/ ResetPosition(w, s) \/ Dispatch(w, s)
      BY <2>5, TaskStopsLocal, ResetPositionLocal, DispatchLocal
    <2>6. CASE DispatcherDies(w, s)
      <3>1. Untouched(w) /\ LogGrows
        BY <1>0, <2>6 DEF DispatcherDies, Untouched, LogGrows, ownerVars, shardVars, TypeOK
      <3> QED BY <1>0, <3>1, UntouchedKeeps
    <2>7. CASE TakeDelivery(w, s)
      BY <2>7, TakeDeliveryLocal
    <2>8. CASE SaveSession(w, s) \/ CommitOffset(w, s) \/ AckReturns(w, s)
      BY <2>8, AdvanceLocal
    <2> QED BY <2>1, <2>2, <2>3, <2>4, <2>5, <2>6, <2>7, <2>8 DEF ShardStep
  <1> QED BY <1>1, <1>2, <1>3, <1>4, <1>5 DEF WorkerStep

\* A worker does not write the log, and moves a committed offset only to that
\* of the delivery it has in hand.
LEMMA WorkerLog ==
    ASSUME NEW w \in Worker, WorkerStep(w) \/ Start(w) \/ WorkerFails(w) \/ Crash(w)
    PROVE  /\ log' = log
           /\ \/ committed' = committed
              \/ \E s \in Shard : CommitOffset(w, s)
  <1> USE DEF ownerVars, shardVars
  <1>1. CASE Join(w) \/ StopConsumer(w) \/ Start(w)
    BY <1>1 DEF Join, StopConsumer, Start
  <1>2. CASE WorkerFails(w) \/ Crash(w)
    BY <1>2 DEF WorkerFails, Crash, Fail
  <1>3. CASE OnPartitionsRevoked(w) \/ OnPartitionsAssigned(w) \/ CallbackReturns(w)
    BY <1>3 DEF OnPartitionsRevoked, OnPartitionsAssigned, CallbackReturns
  <1>4. CASE ReadSessions(w) \/ FinishAcquire(w) \/ FinishRelease(w)
    BY <1>4 DEF ReadSessions, FinishAcquire, FinishRelease
  <1>5. CASE \E s \in Shard : ShardStep(w, s)
    <2> PICK s \in Shard : ShardStep(w, s)
      BY <1>5
    <2>1. CASE BeginAcquire(w, s)
      <3>1. Fail(w) \/ TakeChange(w, Acquired(s), "restoring")
        BY <2>1 DEF BeginAcquire
      <3> QED BY <3>1 DEF Fail, TakeChange
    <2>2. CASE BeginRelease(w, s)
      BY <2>2 DEF BeginRelease, TakeChange
    <2>3. CASE ActivateAndAck(w, s)
      <3>1. Fail(w) \/ Activate(w, s)
        BY <2>3 DEF ActivateAndAck
      <3> QED BY <3>1 DEF Fail, Activate
    <2>4. CASE CommitRejected(w, s)
      BY <2>4 DEF CommitRejected, Fail
    <2>5. CASE TaskStops(w, s) \/ ResetPosition(w, s) \/ Dispatch(w, s) \/ DispatcherDies(w, s)
      BY <2>5 DEF TaskStops, ResetPosition, Dispatch, DispatcherDies
    <2>6. CASE TakeDelivery(w, s) \/ SaveSession(w, s) \/ AckReturns(w, s)
      BY <2>6 DEF TakeDelivery, SaveSession, AckReturns
    <2>7. CASE CommitOffset(w, s)
      BY <2>7 DEF CommitOffset
    <2> QED BY <2>1, <2>2, <2>3, <2>4, <2>5, <2>6, <2>7 DEF ShardStep
  <1> QED BY <1>1, <1>2, <1>3, <1>4, <1>5 DEF WorkerStep

\* A commit stays inside the log.
LEMMA CommitInLog ==
    ASSUME InductiveInv, NEW w \in Worker, NEW s \in Shard, CommitOffset(w, s)
    PROVE  /\ log' = log
           /\ committed' = [committed EXCEPT ![s] = task[w][s].offset]
           /\ task[w][s].offset \in 1..Len(log[s])
  <1>1. Busy(w, s) /\ StreamInv(w, s) /\ TypeOK
    BY DEF CommitOffset, Busy, InductiveInv
  <1> QED BY <1>1, BusyOffset DEF CommitOffset

\* The initial state satisfies the inductive invariant.
LEMMA InitInductive ==
    ASSUME ConstantsAssumption, Init
    PROVE  InductiveInv
  <1> USE DEF Init
  <1>1. TypeOK
    <2>1. Idle \in [pc : RuntimePc, shard : Shard \cup {NoShard}, snapshot : SUBSET Event]
      BY DEF Idle, RuntimePc
    <2>2. NoTask \in [pc : TaskPc, offset : Nat]
      BY DEF NoTask, TaskPc
    <2>3. committed \in [Shard -> Nat \cup {NoOffset}]
      BY DEF ConstantsAssumption
    <2>4. /\ runtime \in [Worker -> [pc : RuntimePc, shard : Shard \cup {NoShard},
                                     snapshot : SUBSET Event]]
          /\ task \in [Worker -> [Shard -> [pc : TaskPc, offset : Nat]]]
      BY <2>1, <2>2
    <2>5. /\ log \in [Shard -> Seq(Event)]
          /\ queue \in [Worker -> [Shard -> Seq(Nat)]]
          /\ pendings \in [Worker -> [Shard -> SUBSET Nat]]
          /\ position \in [Worker -> [Shard -> Nat \cup {NoOffset}]]
      OBVIOUS
    <2> QED BY <2>3, <2>4, <2>5 DEF TypeOK
  <1>2. LogInv
    BY DEF LogInv, ConstantsAssumption, NoOffset
  <1>3. ASSUME NEW w \in Worker PROVE LifecycleInv(w) /\ ~Running(w)
    BY DEF LifecycleInv, Running
  <1>4. ASSUME NEW w \in Worker, NEW s \in Shard PROVE StreamInv(w, s)
    BY DEF StreamInv, Streaming, Busy, NoTask
  <1> QED BY <1>1, <1>2, <1>3, <1>4 DEF InductiveInv

\* What is published goes behind the end of its own shard's log.
LEMMA PublishAppends ==
    ASSUME ConstantsAssumption, TypeOK, LogInv, NEW e \in Event, Publish(e)
    PROVE  TypeOK' /\ LogInv' /\ LogGrows
  <1>1. /\ ShardOf[e] \in Shard
        /\ log \in [Shard -> Seq(Event)]
        /\ log' = [log EXCEPT ![ShardOf[e]] = Append(@, e)]
    BY DEF Publish, TypeOK, ConstantsAssumption
  <1>2. log' \in [Shard -> Seq(Event)]
    BY <1>1
  <1>3. TypeOK'
    BY <1>2 DEF Publish, TypeOK, groupVars, ownerVars, shardVars, faultVars
  <1>4. ASSUME NEW s \in Shard
        PROVE  /\ Len(log[s]) \in Nat /\ Len(log'[s]) \in Nat
               /\ Len(log[s]) <= Len(log'[s])
               /\ \A i \in 1..Len(log'[s]) : ShardOf[log'[s][i]] = s
    <2>1. CASE s # ShardOf[e]
      <3>1. log'[s] = log[s]
        BY <1>1, <2>1
      <3> QED BY <1>1, <3>1 DEF LogInv
    <2>2. CASE s = ShardOf[e]
      <3>1. log'[s] = Append(log[s], e) /\ log[s] \in Seq(Event)
        BY <1>1, <2>2
      <3>2. /\ Len(log[s]) \in Nat
            /\ Len(log'[s]) = Len(log[s]) + 1
            /\ log'[s][Len(log[s]) + 1] = e
            /\ \A i \in 1..Len(log[s]) : log'[s][i] = log[s][i]
        BY <3>1
      <3>3. ASSUME NEW i \in 1..Len(log'[s]) PROVE ShardOf[log'[s][i]] = s
        <4>1. i \in 1..Len(log[s]) \/ i = Len(log[s]) + 1
          BY <3>2
        <4> QED BY <2>2, <3>2, <4>1 DEF LogInv
      <3> QED BY <3>2, <3>3
    <2> QED BY <2>1, <2>2
  <1>5. ASSUME NEW s \in Shard PROVE committed'[s] <= Len(log'[s])
    <2>1. committed'[s] = committed[s] /\ committed[s] \in Nat \cup {NoOffset}
      BY DEF Publish, TypeOK
    <2>2. committed[s] <= Len(log[s])
      BY DEF LogInv
    <2> QED BY <1>4, <2>1, <2>2 DEF NoOffset
  <1> QED BY <1>3, <1>4, <1>5 DEF LogInv, LogGrows

\* Every step of the system keeps the inductive invariant.
LEMMA NextInductive ==
    ASSUME ConstantsAssumption, InductiveInv, [Next]_vars
    PROVE  InductiveInv'
  <1>0. TypeOK /\ LogInv /\ \A v \in Worker : LocalInv(v)
    BY DEF InductiveInv, LocalInv
  <1>1. ASSUME TypeOK', LogInv', \A v \in Worker : LocalInv(v)'
        PROVE  InductiveInv'
    BY <1>1 DEF InductiveInv, LocalInv
  <1>2. ASSUME TypeOK', LogGrows, LogInv', \A v \in Worker : Untouched(v)
        PROVE  InductiveInv'
    BY <1>0, <1>1, <1>2, UntouchedKeeps
  <1>3. ASSUME TypeOK', log' = log, committed' = committed,
               ownerVars' = ownerVars, shardVars' = shardVars, status' = status,
               runtime' = runtime, position' = position, registry' = registry
        PROVE  InductiveInv'
    <2>1. LogInv'
      BY <1>0, <1>3 DEF LogInv
    <2>2. LogGrows
      BY <1>0, <1>3 DEF LogGrows, TypeOK
    <2>3. \A v \in Worker : Untouched(v)
      BY <1>3 DEF Untouched, ownerVars, shardVars
    <2> QED BY <1>2, <1>3, <2>1, <2>2, <2>3
  <1>4. CASE UNCHANGED vars
    <2>1. TypeOK'
      BY <1>0, <1>4 DEF TypeOK, vars, groupVars, ownerVars, shardVars, faultVars
    <2> QED BY <1>3, <1>4, <2>1 DEF vars
  <1>5. CASE \E e \in Event : Publish(e)
    <2> PICK e \in Event : Publish(e)
      BY <1>5
    <2>1. TypeOK' /\ LogInv' /\ LogGrows
      BY <1>0, PublishAppends
    <2>2. \A v \in Worker : Untouched(v)
      BY DEF Publish, Untouched, ownerVars, shardVars
    <2> QED BY <1>2, <2>1, <2>2
  <1>6. CASE CoordinatorStep \/ \E w \in Worker : Evict(w)
    <2>1. TypeOK'
      BY <1>0, <1>6, CoordinatorTypes
    <2>2. /\ log' = log /\ committed' = committed /\ ownerVars' = ownerVars
          /\ shardVars' = shardVars /\ status' = status /\ runtime' = runtime
          /\ position' = position /\ registry' = registry
      BY <1>6 DEF CoordinatorStep, CompleteRebalance, DropMember, Evict
    <2> QED BY <1>3, <2>1, <2>2
  <1>7. CASE \E w \in Worker : WorkerStep(w) \/ Start(w) \/ WorkerFails(w) \/ Crash(w)
    <2> PICK w \in Worker : WorkerStep(w) \/ Start(w) \/ WorkerFails(w) \/ Crash(w)
      BY <1>7
    <2>1. TypeOK'
      <3>1. runtime[w] # Idle => runtime[w].shard \in Shard
        BY DEF InductiveInv, HandshakeInv, LifecycleInv
      <3>2. \A s \in Shard : StreamInv(w, s)
        BY DEF InductiveInv
      <3>3. CASE \E s \in Shard : ShardStep(w, s)
        BY <1>0, <3>2, <3>3, ShardStepTypes
      <3>4. CASE Join(w)
        BY <1>0, <3>4, CoordinatorTypes
      <3> QED BY <1>0, <3>1, <3>3, <3>4, WorkerTypes DEF WorkerStep
    <2>2. log' = log
      BY WorkerLog
    <2>3. LogInv'
      <3>1. CASE committed' = committed
        BY <1>0, <2>2, <3>1 DEF LogInv
      <3>2. CASE \E s \in Shard : CommitOffset(w, s)
        <4> PICK s \in Shard : CommitOffset(w, s)
          BY <3>2
        <4>1. \A x \in Shard : committed'[x] = IF x = s THEN task[w][s].offset ELSE committed[x]
          <5>1. committed' = [committed EXCEPT ![s] = task[w][s].offset]
            BY CommitInLog
          <5>2. committed \in [Shard -> Nat \cup {NoOffset}]
            BY <1>0 DEF TypeOK
          <5> QED BY ONLY <5>1, <5>2
        <4>2. task[w][s].offset <= Len(log[s])
          BY <1>0, CommitInLog DEF TypeOK
        <4> QED BY <1>0, <2>2, <4>1, <4>2 DEF LogInv
      <3> QED BY <3>1, <3>2, WorkerLog
    <2>4. LogGrows
      BY <1>0, <2>2 DEF LogGrows, TypeOK
    <2>5. ASSUME NEW v \in Worker PROVE LocalInv(v)'
      <3>1. CASE v = w
        BY <2>1, <3>1, OwnStepLocal
      <3>2. CASE v # w
        BY <1>0, <2>1, <2>4, <3>2, OthersUntouched, UntouchedKeeps
      <3> QED BY <3>1, <3>2
    <2> QED BY <1>1, <2>1, <2>3, <2>5
  <1> QED BY <1>4, <1>5, <1>6, <1>7 DEF Next, Environment

-----------------------------------------------------------------------------
(* What the inductive invariant says of every execution.                   *)

\* The inductive invariant holds in every reachable state, for any number of
\* workers, shards, events, crashes and evictions.
THEOREM Inductive == Spec => []InductiveInv
  <1>1. Init => InductiveInv
    BY ConstantsAssumption, InitInductive
  <1>2. InductiveInv /\ [Next]_vars => InductiveInv'
    BY ConstantsAssumption, NextInductive
  <1> QED BY <1>1, <1>2, PTL DEF Spec

\* The variables keep their types.
THEOREM TypeCorrect == Spec => []TypeOK
  <1>1. InductiveInv => TypeOK
    BY DEF InductiveInv
  <1> QED BY <1>1, Inductive, PTL

\* The hand-over of a shard: when the revoke callback has returned (the worker
\* joins the next generation), the old owner has no session, no task and no
\* delivery left.
THEOREM HandOver == Spec => []RevokeLeavesNothing
  <1>1. InductiveInv => RevokeLeavesNothing
    <2>1. SUFFICES ASSUME InductiveInv, NEW w \in Worker, callback[w] = "joining"
                   PROVE  /\ registry[w] = {}
                          /\ \A s \in Shard : /\ ~HasTask(w, s)
                                              /\ queue[w][s] = <<>>
                                              /\ pendings[w][s] = {}
      BY DEF RevokeLeavesNothing
    <2>2. CASE Running(w)
      BY <2>1, <2>2 DEF InductiveInv, HandshakeInv, HoldingsInv
    <2>3. CASE ~Running(w)
      BY <2>1, <2>3 DEF InductiveInv, LifecycleInv, HasTask
    <2> QED BY <2>2, <2>3
  <1> QED BY <1>1, Inductive, PTL

\* Callback and runtime never wait on each other: a change whose future the
\* callback awaits is in the mailbox, and the runtime will not refuse it, or
\* the runtime has it in hand.
THEOREM NoHandshakeDeadlock == Spec => []CallbackIsServed
  <1>1. InductiveInv => CallbackIsServed
    <2>1. SUFFICES ASSUME InductiveInv, NEW w \in Worker, Running(w),
                          NEW c \in completions[w]
                   PROVE  \/ c \in mailbox[w] /\ (c.kind = "acquired" => ~HasTask(w, c.shard))
                          \/ runtime[w].shard = c.shard /\ runtime[w] # Idle
      BY DEF CallbackIsServed
    <2>2. HandshakeInv(w) /\ c \in Change /\ assigned[w] \in SUBSET Shard
      BY <2>1 DEF InductiveInv, TypeOK
    <2>3. CASE c \in InHand(w)
      <3>1. runtime[w] # Idle
        BY <2>3 DEF InHand
      <3>2. c = Released(runtime[w].shard) \/ c = Acquired(runtime[w].shard)
        BY <2>3 DEF InHand
      <3> QED BY <3>1, <3>2 DEF Released, Acquired
    <2>4. CASE c \in mailbox[w]
      <3>1. SUFFICES ASSUME c.kind = "acquired" PROVE ~HasTask(w, c.shard)
        BY <2>4
      <3>2. callback[w] \in {"assigning", "revoking"}
        <4>1. callback[w] # "none"
          BY <2>1 DEF InductiveInv, LifecycleInv
        <4>2. callback[w] \notin {"joining", "stable"}
          BY <2>1, <2>2 DEF HandshakeInv
        <4> QED BY <2>1, <4>1, <4>2 DEF InductiveInv, TypeOK
      <3>3. callback[w] # "revoking"
        <4>1. \A s \in assigned[w] : Released(s).kind # "acquired"
          BY DEF Released
        <4> QED BY <2>1, <2>2, <3>1, <4>1 DEF HandshakeInv
      <3>4. PICK s \in assigned[w] : c = Acquired(s)
        BY <2>1, <2>2, <3>2, <3>3 DEF HandshakeInv
      <3>5. c.shard = s
        BY <3>4 DEF Acquired
      <3> QED BY <2>1, <2>2, <3>2, <3>3, <3>4, <3>5 DEF HandshakeInv
    <2> QED BY <2>1, <2>2, <2>3, <2>4 DEF HandshakeInv
  <1> QED BY <1>1, Inductive, PTL

\* ack never meets a delivery it does not know: what a task handles is still
\* among the pending deliveries of its shard.
THEOREM AckKnowsDelivery == Spec => []DeliveryIsPending
  <1>1. InductiveInv => DeliveryIsPending
    <2>1. SUFFICES ASSUME InductiveInv, NEW w \in Worker, NEW s \in Shard,
                          task[w][s].pc \in {"saving", "saved"}
                   PROVE  task[w][s].offset \in pendings[w][s]
      BY DEF DeliveryIsPending
    <2>2. StreamInv(w, s) /\ Busy(w, s) /\ HasTask(w, s)
      BY <2>1 DEF InductiveInv, Busy, HasTask, NoTask
    <2>3. Streaming(w, s)
      BY <2>2 DEF StreamInv, Streaming
    <2> QED BY <2>1, <2>2, <2>3 DEF StreamInv
  <1> QED BY <1>1, Inductive, PTL

-----------------------------------------------------------------------------
(* At-least-once processing, for a group whose offsets start at the        *)
(* beginning of the log: DurableInv is inductive relative to InductiveInv. *)

\* What worker w has passed of shard s is durable.
DurableAt(w, s) == Streaming(w, s) => SavedUpTo(s, Passed(w, s))

\* Records and sessions stay.
DataStays ==
    /\ saved \subseteq saved'
    /\ \A s \in Shard : \A i \in 1..Len(log[s]) :
           i \in 1..Len(log'[s]) /\ log'[s][i] = log[s][i]

\* A durable stretch of a log stays durable.
LEMMA SavedStays ==
    ASSUME TypeOK, TypeOK', DataStays, NEW s \in Shard, NEW n \in Int, SavedUpTo(s, n)
    PROVE  SavedUpTo(s, n)'
  <1>1. DOMAIN log[s] = 1..Len(log[s]) /\ DOMAIN log'[s] = 1..Len(log'[s])
    BY DEF TypeOK
  <1> QED BY <1>1 DEF SavedUpTo, DataStays

\* A stream that is followed as before, up to the same event, stays durable.
LEMMA DurableStays ==
    ASSUME TypeOK, TypeOK', DataStays, NEW w \in Worker, NEW s \in Shard, DurableAt(w, s),
           Streaming(w, s)' => Streaming(w, s) /\ Passed(w, s)' = Passed(w, s)
    PROVE  DurableAt(w, s)'
  <1>1. DOMAIN log[s] = 1..Len(log[s]) /\ DOMAIN log'[s] = 1..Len(log'[s])
    BY DEF TypeOK
  <1> QED BY <1>1 DEF DurableAt, SavedUpTo, DataStays

\* The position, the queue and the task of a shard and the callback of its
\* worker determine what the worker has passed.
LEMMA SameStream ==
    ASSUME NEW w \in Worker, NEW s \in Shard,
           status'[w] = status[w], callback'[w] = callback[w],
           task'[w][s] = task[w][s], queue'[w][s] = queue[w][s],
           position'[w][s] = position[w][s]
    PROVE  (Streaming(w, s)' <=> Streaming(w, s)) /\ Passed(w, s)' = Passed(w, s)
  BY DEF Streaming, Consuming, Running, HasTask, Passed, Busy

\* No step takes a record out of the log or a session out of the database.
LEMMA StepKeepsData ==
    ASSUME ConstantsAssumption, TypeOK, LogInv, [Next]_vars
    PROVE  DataStays
  <1>1. ASSUME log' = log, saved' = saved PROVE DataStays
    BY <1>1 DEF DataStays
  <1>2. CASE UNCHANGED vars
    BY <1>1, <1>2 DEF vars
  <1>3. CASE \E e \in Event : Publish(e)
    <2> PICK e \in Event : Publish(e)
      BY <1>3
    <2>1. saved' = saved /\ log' = [log EXCEPT ![ShardOf[e]] = Append(@, e)]
          /\ log \in [Shard -> Seq(Event)]
      BY DEF Publish, TypeOK
    <2>2. ASSUME NEW s \in Shard
          PROVE  \A i \in 1..Len(log[s]) : i \in 1..Len(log'[s]) /\ log'[s][i] = log[s][i]
      <3>1. log'[s] = log[s] \/ log'[s] = Append(log[s], e)
        BY <2>1
      <3>2. log[s] \in Seq(Event)
        BY <2>1
      <3> QED BY <3>1, <3>2
    <2> QED BY <2>1, <2>2 DEF DataStays
  <1>4. CASE CoordinatorStep \/ \E w \in Worker : Evict(w)
    <2>1. log' = log /\ saved' = saved
      BY <1>4 DEF CoordinatorStep, CompleteRebalance, DropMember, Evict
    <2> QED BY <1>1, <2>1
  <1>5. CASE \E w \in Worker : WorkerStep(w) \/ Start(w) \/ WorkerFails(w) \/ Crash(w)
    <2> PICK w \in Worker : WorkerStep(w) \/ Start(w) \/ WorkerFails(w) \/ Crash(w)
      BY <1>5
    <2>1. log' = log
      BY WorkerLog
    <2>2. saved \subseteq saved'
      <3>0. ASSUME Fail(w) PROVE saved' = saved
        BY <3>0 DEF Fail
      <3>1. CASE Join(w) \/ StopConsumer(w) \/ Start(w)
        BY <3>1 DEF Join, StopConsumer, Start
      <3>2. CASE WorkerFails(w) \/ Crash(w)
        BY <3>0, <3>2 DEF WorkerFails, Crash
      <3>3. CASE OnPartitionsRevoked(w) \/ OnPartitionsAssigned(w) \/ CallbackReturns(w)
        BY <3>3 DEF OnPartitionsRevoked, OnPartitionsAssigned, CallbackReturns
      <3>4. CASE ReadSessions(w) \/ FinishAcquire(w) \/ FinishRelease(w)
        BY <3>4 DEF ReadSessions, FinishAcquire, FinishRelease
      <3>5. CASE \E s \in Shard : ShardStep(w, s)
        <4> PICK s \in Shard : ShardStep(w, s)
          BY <3>5
        <4>1. CASE BeginAcquire(w, s)
          <5>1. Fail(w) \/ TakeChange(w, Acquired(s), "restoring")
            BY <4>1 DEF BeginAcquire
          <5> QED BY <3>0, <5>1 DEF TakeChange
        <4>2. CASE BeginRelease(w, s)
          BY <4>2 DEF BeginRelease, TakeChange
        <4>3. CASE ActivateAndAck(w, s)
          <5>1. Fail(w) \/ Activate(w, s)
            BY <4>3 DEF ActivateAndAck
          <5> QED BY <3>0, <5>1 DEF Activate
        <4>4. CASE CommitRejected(w, s)
          BY <3>0, <4>4 DEF CommitRejected
        <4>5. CASE TaskStops(w, s) \/ ResetPosition(w, s) \/ Dispatch(w, s) \/ DispatcherDies(w, s)
          BY <4>5 DEF TaskStops, ResetPosition, Dispatch, DispatcherDies
        <4>6. CASE TakeDelivery(w, s) \/ SaveSession(w, s) \/ CommitOffset(w, s) \/ AckReturns(w, s)
          BY <4>6 DEF TakeDelivery, SaveSession, CommitOffset, AckReturns
        <4> QED BY <4>1, <4>2, <4>3, <4>4, <4>5, <4>6 DEF ShardStep
      <3> QED BY <3>1, <3>2, <3>3, <3>4, <3>5 DEF WorkerStep
    <2> QED BY <2>1, <2>2 DEF DataStays
  <1> QED BY <1>2, <1>3, <1>4, <1>5 DEF Next, Environment

-----------------------------------------------------------------------------
(* The steps of a worker, stream by stream.                                *)

\* A process that does not run follows no stream.
LEMMA StoppedIsDurable ==
    ASSUME InductiveInv, NEW w \in Worker, NEW s \in Shard, ~Running(w)
    PROVE  DurableAt(w, s)
  BY DEF InductiveInv, LifecycleInv, DurableAt, Streaming

\* The rebalance callbacks: a new assignment starts without positions, and
\* the end of a callback starts no stream.
LEMMA CallbackDurable ==
    ASSUME InductiveInv, InductiveInv', DataStays, NEW w \in Worker, NEW s \in Shard,
           DurableAt(w, s),
           \/ OnPartitionsRevoked(w) \/ OnPartitionsAssigned(w) \/ CallbackReturns(w)
    PROVE  DurableAt(w, s)'
  <1> USE DEF shardVars
  <1>0. TypeOK /\ TypeOK'
    BY DEF InductiveInv
  <1>1. CASE OnPartitionsAssigned(w)
    <2>1. position'[w][s] = NoOffset
      BY <1>0, <1>1 DEF OnPartitionsAssigned, TypeOK
    <2> QED BY <2>1 DEF DurableAt, Streaming
  <1>2. CASE OnPartitionsRevoked(w) \/ CallbackReturns(w)
    <2>1. task' = task /\ queue' = queue /\ position' = position /\ status' = status
          /\ Running(w)
      BY <1>2 DEF OnPartitionsRevoked, CallbackReturns
    <2>2. callback'[w] \in {"assigning", "stable"} => callback[w] \in {"assigning", "stable"}
      BY <1>0, <1>2 DEF OnPartitionsRevoked, CallbackReturns, TypeOK
    <2>3. Streaming(w, s)' => Streaming(w, s)
      BY <2>1, <2>2 DEF Streaming, Consuming, Running, HasTask
    <2>4. Passed(w, s)' = Passed(w, s)
      BY <2>1 DEF Passed, Busy
    <2> QED BY <1>0, <2>3, <2>4, DurableStays
  <1> QED BY <1>1, <1>2

\* The runtime: a new task waits at the stream that is already followed, and
\* an ended one leaves a stream that is followed no more.
LEMMA RuntimeDurable ==
    ASSUME InductiveInv, InductiveInv', DataStays, NEW w \in Worker, NEW s \in Shard,
           DurableAt(w, s),
           \/ ReadSessions(w) \/ FinishAcquire(w) \/ FinishRelease(w)
           \/ \E x \in Shard : TaskStops(w, x)
    PROVE  DurableAt(w, s)'
  <1> USE DEF ownerVars, shardVars
  <1>0. TypeOK /\ TypeOK'
    BY DEF InductiveInv
  <1>1. CASE ReadSessions(w) \/ FinishRelease(w)
    <2>1. task' = task /\ queue' = queue /\ position' = position /\ status' = status
          /\ callback' = callback
      BY <1>1 DEF ReadSessions, FinishRelease
    <2> QED BY <1>0, <2>1, SameStream, DurableStays
  <1>2. CASE FinishAcquire(w)
    <2>1. /\ queue' = queue /\ position' = position /\ status' = status
          /\ callback' = callback /\ Running(w)
          /\ runtime[w].pc = "restored" /\ runtime[w] # Idle
      BY <1>2 DEF FinishAcquire, Idle
    <2>2. CASE s # runtime[w].shard
      <3>1. task'[w][s] = task[w][s]
        BY <1>0, <1>2, <2>2 DEF FinishAcquire, TypeOK
      <3> QED BY <1>0, <2>1, <3>1, SameStream, DurableStays
    <2>3. CASE s = runtime[w].shard
      <3>1. task'[w][s] = Waiting
        BY <1>0, <1>2, <2>3 DEF FinishAcquire, TypeOK
      <3>2. /\ HandshakeInv(w) /\ InHand(w) = {Acquired(s)} /\ callback[w] = "assigning"
            /\ s \in assigned[w]
        BY <2>1, <2>3, HandFacts
      <3>3. Consuming(w) /\ ~HasTask(w, s)
        <4>1. Acquired(s) \in completions[w]
          BY <3>2 DEF HandshakeInv
        <4> QED BY <2>1, <3>2, <4>1 DEF HandshakeInv, Consuming
      <3>4. Passed(w, s)' = Passed(w, s)
        BY <2>1, <3>1, <3>3 DEF Passed, Busy, Waiting, HasTask, NoTask
      <3>5. Streaming(w, s)' => Streaming(w, s)
        BY <2>1, <3>3 DEF Streaming
      <3> QED BY <1>0, <3>4, <3>5, DurableStays
    <2> QED BY <2>2, <2>3
  <1>3. CASE \E x \in Shard : TaskStops(w, x)
    <2> PICK x \in Shard : TaskStops(w, x)
      BY <1>3
    <2>1. position' = position /\ status' = status /\ callback' = callback /\ Running(w)
          /\ runtime[w].pc = "releasing" /\ runtime[w].shard = x /\ runtime[w] # Idle
      BY DEF TaskStops, Cancelling, Idle
    <2>2. CASE s # x
      <3>1. task'[w][s] = task[w][s] /\ queue'[w][s] = queue[w][s]
        BY <1>0, <2>2 DEF TaskStops, TypeOK
      <3> QED BY <1>0, <2>1, <3>1, SameStream, DurableStays
    <2>3. CASE s = x
      <3>1. task'[w][s] = NoTask
        BY <1>0, <2>3 DEF TaskStops, TypeOK
      <3>2. callback[w] = "revoking"
        BY <2>1, HandFacts
      <3> QED BY <2>1, <3>1, <3>2 DEF DurableAt, Streaming, Consuming, HasTask
    <2> QED BY <2>2, <2>3
  <1> QED BY <1>1, <1>2, <1>3

\* The dispatcher: a new position is the committed offset, and a record that
\* moves into the queue is not passed yet.
LEMMA DispatcherDurable ==
    ASSUME InductiveInv, DurableInv, InductiveInv', DataStays,
           NEW w \in Worker, NEW s \in Shard,
           ResetPosition(w, s) \/ Dispatch(w, s)
    PROVE  DurableAt(w, s)'
  <1> USE DEF ownerVars, shardVars
  <1>0. TypeOK /\ TypeOK' /\ DurableAt(w, s)
    BY DEF InductiveInv, DurableInv, DurableAt
  <1>1. CASE ResetPosition(w, s)
    <2>1. /\ committed[s] \in Nat /\ SavedUpTo(s, committed[s])
          /\ position'[w][s] = committed[s] /\ queue'[w][s] = queue[w][s]
          /\ task'[w][s] = task[w][s]
      BY <1>0, <1>1 DEF ResetPosition, TypeOK, DurableInv, CommittedIsSaved
    <2>2. queue[w][s] = <<>> /\ ~Busy(w, s)
      BY <1>1 DEF ResetPosition, InductiveInv, StreamInv
    <2>3. Passed(w, s)' = committed[s]
      BY <2>1, <2>2 DEF Passed, Busy
    <2>4. DOMAIN log[s] = 1..Len(log[s]) /\ DOMAIN log'[s] = 1..Len(log'[s])
      BY <1>0 DEF TypeOK
    <2> QED BY <2>1, <2>3, <2>4 DEF SavedUpTo, DurableAt, DataStays
  <1>2. CASE Dispatch(w, s)
    <2>1. /\ position[w][s] \in Nat /\ queue[w][s] \in Seq(Nat)
          /\ position'[w][s] = position[w][s] + 1
          /\ queue'[w][s] = Append(queue[w][s], position[w][s] + 1)
          /\ task' = task /\ Consuming(w)
      BY <1>0, <1>2 DEF Dispatch, HasNext, TypeOK, NoOffset
    <2>2. Len(queue'[w][s]) = Len(queue[w][s]) + 1 /\ Len(queue[w][s]) \in Nat
      BY <2>1
    <2>3. Passed(w, s)' = Passed(w, s)
      <3>1. position'[w][s] - Len(queue'[w][s]) = position[w][s] - Len(queue[w][s])
        <4>1. \A p, n \in Nat : (p + 1) - (n + 1) = p - n
          OBVIOUS
        <4> QED BY <2>1, <2>2, <4>1, Zenon
      <3>2. task'[w][s] = task[w][s]
        BY <2>1
      <3> QED BY <3>1, <3>2 DEF Passed, Busy
    <2>4. Streaming(w, s)
      BY <2>1 DEF Streaming, NoOffset
    <2> QED BY <1>0, <2>3, <2>4, DurableStays
  <1> QED BY <1>1, <1>2

\* A task with a delivery in hand follows its stream, and its delivery is the
\* last that left the queue.
LEMMA BusyStream ==
    ASSUME InductiveInv, NEW w \in Worker, NEW s \in Shard, Busy(w, s)
    PROVE  /\ Streaming(w, s) /\ position[w][s] # NoOffset
           /\ task[w][s].offset \in 1..Len(log[s])
           /\ task[w][s].offset = position[w][s] - Len(queue[w][s])
  <1>1. StreamInv(w, s) /\ TypeOK
    BY DEF InductiveInv
  <1>2. Streaming(w, s)
    BY <1>1 DEF StreamInv, Streaming, HasTask, Busy, NoTask
  <1>3. task[w][s].offset = Taken(w, s)
    BY <1>1, <1>2 DEF StreamInv
  <1> QED BY <1>1, <1>2, <1>3, BusyOffset DEF Taken, Streaming

\* The shard task: what it passes is the delivery whose session it has saved.
LEMMA TaskDurable ==
    ASSUME InductiveInv, DurableInv, InductiveInv', DataStays,
           NEW w \in Worker, NEW s \in Shard,
           \/ TakeDelivery(w, s) \/ SaveSession(w, s) \/ CommitOffset(w, s)
           \/ AckReturns(w, s)
           \/ Activate(w, s) /\ task[w][s].pc = "saved"
    PROVE  DurableAt(w, s)'
  <1> USE DEF ownerVars, shardVars
  <1> DEFINE o == task[w][s].offset
  <1>0. TypeOK /\ TypeOK' /\ DurableAt(w, s)
    BY DEF InductiveInv, DurableInv, DurableAt
  <1>1. CASE TakeDelivery(w, s)
    <2>1. /\ task[w][s] = Waiting
          /\ queue[w][s] \in Seq(Nat) /\ queue[w][s] # <<>>
          /\ queue'[w][s] = Tail(queue[w][s])
          /\ task'[w][s] = [pc |-> "saving", offset |-> Head(queue[w][s])]
          /\ position' = position
      BY <1>0, <1>1 DEF TakeDelivery, TypeOK
    <2>2. /\ Len(queue[w][s]) \in Nat \ {0} /\ Head(queue[w][s]) = queue[w][s][1]
          /\ position[w][s] \in Nat \cup {NoOffset}
      BY <1>0, <2>1 DEF TypeOK
    <2>3. StreamInv(w, s) /\ Streaming(w, s)
      BY <2>1 DEF InductiveInv, StreamInv, Streaming, HasTask, Waiting, NoTask
    <2>4. Head(queue[w][s]) = Taken(w, s) + 1 /\ Taken(w, s) \in Nat
      BY <2>2, <2>3 DEF StreamInv
    <2>5. Passed(w, s)' = Taken(w, s)
      BY <2>1, <2>4 DEF Passed
    <2>6. Passed(w, s) = Taken(w, s)
      BY <2>1 DEF Passed, Busy, Waiting, Taken
    <2> QED BY <1>0, <2>3, <2>5, <2>6, DurableStays
  <1>2. CASE SaveSession(w, s)
    <2>1. /\ task[w][s].pc = "saving" /\ Busy(w, s)
          /\ task'[w][s] = [pc |-> "saved", offset |-> o]
          /\ saved' = saved \cup {EventAt(s, o)} /\ log' = log
      BY <1>0, <1>2 DEF SaveSession, Advance, TypeOK, Busy
    <2>2. Streaming(w, s) /\ o \in 1..Len(log[s])
      BY <2>1, BusyStream
    <2>3. Passed(w, s) = o - 1 /\ Passed(w, s)' = o
      BY <2>1 DEF Passed, Busy
    <2>4. \A i \in 1..(o - 1) : i \in DOMAIN log[s] /\ log[s][i] \in saved
      BY <1>0, <2>2, <2>3 DEF DurableAt, SavedUpTo
    <2>5. ASSUME NEW i \in 1..o PROVE i \in DOMAIN log'[s] /\ log'[s][i] \in saved'
      <3>1. i \in 1..(o - 1) \/ i = o
        BY <2>2
      <3>2. o \in DOMAIN log[s] /\ log[s][o] \in saved'
        BY <1>0, <2>1, <2>2 DEF TypeOK, EventAt
      <3> QED BY <2>1, <2>4, <3>1, <3>2
    <2> QED BY <2>3, <2>5 DEF DurableAt, SavedUpTo
  <1>3. CASE CommitOffset(w, s) \/ (Activate(w, s) /\ task[w][s].pc = "saved")
    <2>1. /\ task[w][s].pc \in {"saved", "committing"} /\ Busy(w, s)
          /\ task'[w][s].pc \in {"committing", "committed"} /\ task'[w][s].offset = o
      BY <1>0, <1>3 DEF CommitOffset, Activate, Advance, TypeOK, Busy
    <2>2. Passed(w, s) = o /\ Passed(w, s)' = o
      BY <2>1 DEF Passed, Busy
    <2> QED BY <1>0, <2>1, <2>2, BusyStream, DurableStays
  <1>4. CASE AckReturns(w, s)
    <2>1. /\ task[w][s].pc = "committed" /\ Busy(w, s) /\ task'[w][s] = Waiting
          /\ queue' = queue /\ position' = position
      BY <1>0, <1>4 DEF AckReturns, TypeOK, Busy
    <2>2. Passed(w, s) = o /\ Passed(w, s)' = position[w][s] - Len(queue[w][s])
      BY <2>1 DEF Passed, Busy, Waiting
    <2>3. Streaming(w, s) /\ Passed(w, s)' = Passed(w, s)
      BY <2>1, <2>2, BusyStream
    <2>4. DurableAt(w, s) /\ TypeOK /\ TypeOK'
      BY <1>0
    <2> QED BY <2>3, <2>4, DurableStays
  <1> QED BY <1>1, <1>2, <1>3, <1>4

\* The steps of a shard leave what its worker has passed of other shards.
LEMMA OtherShardDurable ==
    ASSUME InductiveInv, DurableInv, InductiveInv', DataStays,
           NEW w \in Worker, NEW s \in Shard, NEW x \in Shard, x # s,
           \/ ResetPosition(w, s) \/ Dispatch(w, s) \/ DispatcherDies(w, s)
           \/ TakeDelivery(w, s) \/ SaveSession(w, s) \/ CommitOffset(w, s)
           \/ AckReturns(w, s) \/ Activate(w, s)
    PROVE  DurableAt(w, x)'
  <1>0. TypeOK /\ TypeOK' /\ DurableAt(w, x)
    BY DEF InductiveInv, DurableInv, DurableAt
  <1>1. /\ status'[w] = status[w] /\ callback'[w] = callback[w]
        /\ task'[w][x] = task[w][x] /\ queue'[w][x] = queue[w][x]
        /\ position'[w][x] = position[w][x]
    <2> USE DEF ownerVars, shardVars, TypeOK
    <2>1. CASE ResetPosition(w, s) \/ DispatcherDies(w, s)
      BY <1>0, <2>1 DEF ResetPosition, DispatcherDies
    <2>2. CASE Dispatch(w, s)
      <3>1. /\ status' = status /\ callback' = callback /\ task' = task
            /\ queue' = [queue EXCEPT ![w][s] = Append(@, position[w][s] + 1)]
            /\ position' = [position EXCEPT ![w][s] = position[w][s] + 1]
        BY <2>2 DEF Dispatch
      <3> QED BY <1>0, <3>1
    <2>3. CASE TakeDelivery(w, s)
      <3>1. /\ UNCHANGED <<status, callback, position>>
            /\ task' = [task EXCEPT ![w][s] =
                   [pc |-> "saving", offset |-> Head(queue[w][s])]]
            /\ queue' = [queue EXCEPT ![w][s] = Tail(@)]
        BY <2>3 DEF TakeDelivery
      <3> QED BY <1>0, <3>1
    <2>4. CASE AckReturns(w, s)
      BY <1>0, <2>4 DEF AckReturns
    <2>5. CASE SaveSession(w, s)
      BY <1>0, <2>5 DEF SaveSession, Advance
    <2>6. CASE CommitOffset(w, s)
      BY <1>0, <2>6 DEF CommitOffset, Advance
    <2>7. CASE Activate(w, s)
      BY <1>0, <2>7 DEF Activate, Advance
    <2> QED BY <2>1, <2>2, <2>3, <2>4, <2>5, <2>6, <2>7
  <1> QED BY <1>0, <1>1, SameStream, DurableStays

-----------------------------------------------------------------------------
(* Every step keeps what is durable.                                       *)

\* A worker's own steps.
LEMMA OwnStepDurable ==
    ASSUME InductiveInv, DurableInv, InductiveInv', DataStays,
           NEW w \in Worker, NEW x \in Shard,
           WorkerStep(w) \/ Start(w) \/ WorkerFails(w) \/ Crash(w)
    PROVE  DurableAt(w, x)'
  <1>0. TypeOK /\ TypeOK' /\ DurableAt(w, x)
    BY DEF InductiveInv, DurableInv, DurableAt
  <1>1. ASSUME ~Running(w)' PROVE DurableAt(w, x)'
    BY <1>1 DEF InductiveInv, LifecycleInv, DurableAt, Streaming
  <1>2. ASSUME Fail(w) PROVE DurableAt(w, x)'
    BY <1>0, <1>1, <1>2 DEF Fail, Running, TypeOK
  <1>3. CASE WorkerFails(w) \/ Crash(w) \/ StopConsumer(w)
    <2>1. ~Running(w)'
      BY <1>0, <1>3 DEF WorkerFails, Crash, StopConsumer, Fail, Running, TypeOK
    <2> QED BY <1>1, <2>1
  <1>4. CASE Start(w)
    <2>1. position'[w][x] = NoOffset
      BY <1>4 DEF Start, InductiveInv, LifecycleInv, Running
    <2> QED BY <2>1 DEF DurableAt, Streaming
  <1>5. ASSUME Untouched(w) PROVE DurableAt(w, x)'
    BY <1>0, <1>5, SameStream, DurableStays DEF Untouched
  <1>6. CASE Join(w)
    BY <1>5, <1>6 DEF Join, Untouched, ownerVars, shardVars
  <1>7. CASE OnPartitionsRevoked(w) \/ OnPartitionsAssigned(w) \/ CallbackReturns(w)
    BY <1>0, <1>7, CallbackDurable
  <1>8. CASE \/ ReadSessions(w) \/ FinishAcquire(w) \/ FinishRelease(w)
             \/ \E s \in Shard : TaskStops(w, s)
    BY <1>0, <1>8, RuntimeDurable
  <1>9. ASSUME NEW s \in Shard, NEW c \in Change, NEW pc, TakeChange(w, c, pc)
        PROVE  DurableAt(w, x)'
    <2>1. /\ status'[w] = status[w] /\ callback'[w] = callback[w]
          /\ task'[w][x] = task[w][x] /\ queue'[w][x] = queue[w][x]
          /\ position'[w][x] = position[w][x]
      BY <1>9 DEF TakeChange, shardVars
    <2> QED BY <1>0, <2>1, SameStream, DurableStays
  <1>10. CASE \E s \in Shard : ShardStep(w, s)
    <2> PICK s \in Shard : ShardStep(w, s)
      BY <1>10
    <2>1. CASE BeginAcquire(w, s)
      <3>1. Fail(w) \/ TakeChange(w, Acquired(s), "restoring")
        BY <2>1 DEF BeginAcquire
      <3>2. Acquired(s) \in Change
        BY DEF Acquired, Change
      <3> QED BY <1>2, <1>9, <3>1, <3>2
    <2>2. CASE BeginRelease(w, s)
      <3>1. TakeChange(w, Released(s), "releasing")
        BY <2>2 DEF BeginRelease
      <3>2. Released(s) \in Change
        BY DEF Released, Change
      <3> QED BY <1>9, <3>1, <3>2
    <2>3. CASE TaskStops(w, s)
      BY <1>8, <2>3
    <2>4. CASE CommitRejected(w, s)
      BY <1>2, <2>4 DEF CommitRejected
    <2>5. CASE DispatcherDies(w, s)
      <3>1. Untouched(w)
        BY <2>5 DEF DispatcherDies, Untouched, ownerVars, shardVars
      <3> QED BY <1>5, <3>1
    <2>6. CASE \/ ResetPosition(w, s) \/ Dispatch(w, s) \/ TakeDelivery(w, s)
               \/ SaveSession(w, s) \/ CommitOffset(w, s) \/ AckReturns(w, s)
      <3>1. CASE x = s
        BY <2>6, <3>1, DispatcherDurable, TaskDurable
      <3>2. CASE x # s
        BY <2>6, <3>2, OtherShardDurable
      <3> QED BY <3>1, <3>2
    <2>7. CASE ActivateAndAck(w, s)
      <3>1. task[w][s].pc = "saved" /\ (Fail(w) \/ Activate(w, s))
        BY <2>7 DEF ActivateAndAck
      <3>2. CASE Activate(w, s)
        BY <3>1, <3>2, TaskDurable, OtherShardDurable
      <3> QED BY <1>2, <3>1, <3>2
    <2> QED BY <2>1, <2>2, <2>3, <2>4, <2>5, <2>6, <2>7 DEF ShardStep
  <1> QED BY <1>3, <1>4, <1>6, <1>7, <1>8, <1>10 DEF WorkerStep

\* Every step of the system keeps DurableInv.
LEMMA NextDurable ==
    ASSUME ConstantsAssumption, InductiveInv, DurableInv, [Next]_vars
    PROVE  DurableInv'
  <1>1. InductiveInv' /\ TypeOK /\ TypeOK' /\ LogInv
    BY NextInductive DEF InductiveInv
  <1>2. DataStays
    BY <1>1, StepKeepsData
  <1>3. ASSUME NEW w \in Worker, NEW s \in Shard PROVE DurableAt(w, s)'
    <2>0. DurableAt(w, s)
      BY DEF DurableInv, DurableAt
    <2>1. ASSUME Untouched(w) PROVE DurableAt(w, s)'
      BY <1>1, <1>2, <2>0, <2>1, SameStream, DurableStays DEF Untouched
    <2>2. CASE UNCHANGED vars
      BY <2>1, <2>2 DEF Untouched, vars, ownerVars, shardVars
    <2>3. CASE \E e \in Event : Publish(e)
      BY <2>1, <2>3 DEF Untouched, Publish, ownerVars, shardVars
    <2>4. CASE CoordinatorStep \/ \E v \in Worker : Evict(v)
      BY <2>1, <2>4 DEF Untouched, CoordinatorStep, CompleteRebalance, DropMember, Evict,
                        ownerVars, shardVars
    <2>5. CASE \E v \in Worker : WorkerStep(v) \/ Start(v) \/ WorkerFails(v) \/ Crash(v)
      <3> PICK v \in Worker : WorkerStep(v) \/ Start(v) \/ WorkerFails(v) \/ Crash(v)
        BY <2>5
      <3>1. CASE v = w
        BY <1>1, <1>2, <3>1, OwnStepDurable
      <3>2. CASE v # w
        BY <1>1, <2>1, <3>2, OthersUntouched
      <3> QED BY <3>1, <3>2
    <2> QED BY <2>2, <2>3, <2>4, <2>5 DEF Next, Environment
  <1>4. ASSUME NEW s \in Shard PROVE committed'[s] # NoOffset /\ SavedUpTo(s, committed[s])'
    <2>1. committed[s] \in Nat /\ SavedUpTo(s, committed[s])
      BY <1>1 DEF DurableInv, CommittedIsSaved, TypeOK
    <2>2. ASSUME NEW n \in Nat, SavedUpTo(s, n), committed'[s] = n
          PROVE  committed'[s] # NoOffset /\ SavedUpTo(s, committed[s])'
      <3>1. SavedUpTo(s, n)'
        BY <1>1, <1>2, <2>2, SavedStays
      <3> QED BY <2>2, <3>1 DEF SavedUpTo, NoOffset
    <2>3. CASE committed'[s] = committed[s]
      BY <2>1, <2>2, <2>3
    <2>4. ASSUME NEW w \in Worker, CommitOffset(w, s) 
          PROVE  \E n \in Nat : SavedUpTo(s, n) /\ committed'[s] = n
      <3>1. Busy(w, s) /\ task[w][s].pc = "committing"
        BY <2>4 DEF CommitOffset, Busy
      <3>2. Streaming(w, s) /\ task[w][s].offset \in 1..Len(log[s])
        BY <3>1, BusyStream
      <3>3. Passed(w, s) = task[w][s].offset
        BY <3>1 DEF Passed
      <3>4. SavedUpTo(s, task[w][s].offset)
        BY <3>2, <3>3 DEF DurableInv
      <3>5. committed'[s] = task[w][s].offset
        BY <1>1, <2>4 DEF CommitOffset, TypeOK
      <3> QED BY <3>2, <3>4, <3>5
    <2>5. committed'[s] = committed[s] \/ \E w \in Worker : CommitOffset(w, s)
      <3>1. CASE UNCHANGED vars
        BY <3>1 DEF vars
      <3>2. CASE \E e \in Event : Publish(e)
        BY <3>2 DEF Publish
      <3>3. CASE CoordinatorStep \/ \E w \in Worker : Evict(w)
        BY <3>3 DEF CoordinatorStep, CompleteRebalance, DropMember, Evict
      <3>4. CASE \E w \in Worker : WorkerStep(w) \/ Start(w) \/ WorkerFails(w) \/ Crash(w)
        <4> PICK w \in Worker : WorkerStep(w) \/ Start(w) \/ WorkerFails(w) \/ Crash(w)
          BY <3>4
        <4>1. CASE committed' = committed
          BY <4>1
        <4>2. CASE \E x \in Shard : CommitOffset(w, x)
          <5> PICK x \in Shard : CommitOffset(w, x)
            BY <4>2
          <5>1. committed' = [committed EXCEPT ![x] = task[w][x].offset]
            BY DEF CommitOffset
          <5>2. CASE x = s
            BY <5>2
          <5>3. CASE x # s
            BY <1>1, <5>1, <5>3 DEF TypeOK
          <5> QED BY <5>2, <5>3
        <4> QED BY <4>1, <4>2, WorkerLog
      <3> QED BY <3>1, <3>2, <3>3, <3>4 DEF Next, Environment
    <2> QED BY <2>2, <2>3, <2>4, <2>5
  <1> QED BY <1>3, <1>4 DEF DurableInv, DurableAt, CommittedIsSaved

\* In a group whose offsets start at the beginning of the log, DurableInv is
\* an invariant on top of InductiveInv.
THEOREM DurabilityHolds == InitialCommit = 0 /\ Spec => []DurableInv
  <1>1. InitialCommit = 0 /\ Init => DurableInv
    BY DEF Init, DurableInv, CommittedIsSaved, SavedUpTo, Streaming, NoOffset
  <1>2. InductiveInv /\ DurableInv /\ [Next]_vars => DurableInv'
    BY ConstantsAssumption, NextDurable
  <1> QED BY <1>1, <1>2, Inductive, PTL DEF Spec

\* Nothing is lost, whatever crashes, is evicted or rebalances: in such a
\* group an offset is committed only when every event before it has its
\* session in the database.
THEOREM AtLeastOnce == InitialCommit = 0 /\ Spec => []CommittedIsSaved
  <1>1. DurableInv => CommittedIsSaved
    BY DEF DurableInv
  <1> QED BY <1>1, DurabilityHolds, PTL

\* In such a group no worker jumps over an event: what it has passed is
\* durable, whoever saved it.
THEOREM NoEventSkipped == InitialCommit = 0 /\ Spec => []NothingSkipped
  <1>1. DurableInv => NothingSkipped
    BY DEF DurableInv, NothingSkipped, Streaming
  <1> QED BY <1>1, DurabilityHolds, PTL

-----------------------------------------------------------------------------
(* The group: OwnershipInv is inductive relative to InductiveInv.          *)

\* A step of a worker that the coordinator does not see.
Unseen == UNCHANGED <<groupVars, evictions>>

\* Only the join and the end of a consumer are seen by the coordinator.
LEMMA WorkerUnseen ==
    ASSUME NEW w \in Worker, WorkerStep(w) \/ Start(w) \/ WorkerFails(w) \/ Crash(w)
    PROVE  Unseen \/ Join(w) \/ StopConsumer(w)
  <1> USE DEF Unseen, groupVars, faultVars
  <1>1. CASE WorkerFails(w) \/ Crash(w) \/ Start(w)
    BY <1>1 DEF WorkerFails, Crash, Fail, Start
  <1>2. CASE OnPartitionsRevoked(w) \/ OnPartitionsAssigned(w) \/ CallbackReturns(w)
    BY <1>2 DEF OnPartitionsRevoked, OnPartitionsAssigned, CallbackReturns
  <1>3. CASE ReadSessions(w) \/ FinishAcquire(w) \/ FinishRelease(w)
    BY <1>3 DEF ReadSessions, FinishAcquire, FinishRelease
  <1>4. CASE \E s \in Shard : ShardStep(w, s)
    <2> PICK s \in Shard : ShardStep(w, s)
      BY <1>4
    <2>1. CASE BeginAcquire(w, s)
      <3>1. (Fail(w) \/ TakeChange(w, Acquired(s), "restoring")) /\ UNCHANGED faultVars
        BY <2>1 DEF BeginAcquire
      <3> QED BY <3>1 DEF Fail, TakeChange
    <2>2. CASE BeginRelease(w, s)
      BY <2>2 DEF BeginRelease, TakeChange
    <2>3. CASE ActivateAndAck(w, s)
      <3>1. (Fail(w) \/ Activate(w, s)) /\ UNCHANGED faultVars
        BY <2>3 DEF ActivateAndAck
      <3> QED BY <3>1 DEF Fail, Activate
    <2>4. CASE CommitRejected(w, s)
      BY <2>4 DEF CommitRejected, Fail
    <2>5. CASE TaskStops(w, s) \/ ResetPosition(w, s) \/ Dispatch(w, s) \/ DispatcherDies(w, s)
      BY <2>5 DEF TaskStops, ResetPosition, Dispatch, DispatcherDies
    <2>6. CASE TakeDelivery(w, s) \/ SaveSession(w, s) \/ AckReturns(w, s) \/ CommitOffset(w, s)
      BY <2>6 DEF TakeDelivery, SaveSession, AckReturns, CommitOffset
    <2> QED BY <2>1, <2>2, <2>3, <2>4, <2>5, <2>6 DEF ShardStep
  <1> QED BY <1>1, <1>2, <1>3, <1>4 DEF WorkerStep

\* How a step of a worker moves its place in the rebalance: it stops, it has a
\* new assignment, it joins anew, or it goes on with the assignment it had.
LEMMA OwnPlace ==
    ASSUME InductiveInv, TypeOK', NEW w \in Worker,
           WorkerStep(w) \/ Start(w) \/ WorkerFails(w) \/ Crash(w)
    PROVE  \/ ~Owning(w)'
           \/ OnPartitionsAssigned(w) /\ assigned'[w] = assignment[w]
           \/ Unseen /\ Owning(w) /\ assigned'[w] = assigned[w]
  <1> USE DEF Owning, Running
  <1>0. TypeOK
    BY DEF InductiveInv
  <1>1. CASE WorkerFails(w) \/ Crash(w) \/ StopConsumer(w) \/ Start(w)
    BY <1>0, <1>1 DEF WorkerFails, Crash, StopConsumer, Fail, Start, TypeOK
  <1>2. ASSUME Fail(w) PROVE ~Owning(w)'
    BY <1>0, <1>2 DEF Fail, TypeOK
  <1>3. CASE Join(w)
    BY <1>3 DEF Join, ownerVars
  <1>4. CASE OnPartitionsAssigned(w)
    BY <1>0, <1>4 DEF OnPartitionsAssigned, TypeOK
  <1>5. CASE OnPartitionsRevoked(w)
    BY <1>0, <1>5 DEF OnPartitionsRevoked, TypeOK, Unseen, faultVars
  <1>6. CASE CallbackReturns(w)
    BY <1>0, <1>6 DEF CallbackReturns, TypeOK, Unseen, faultVars
  <1>7. ASSUME status' = status, callback' = callback, assigned' = assigned,
               Unseen, WorkerStep(w)
        PROVE  ~Owning(w)' \/ (Unseen /\ Owning(w) /\ assigned'[w] = assigned[w])
    BY <1>7
  <1>8. CASE ReadSessions(w) \/ FinishAcquire(w) \/ FinishRelease(w)
    BY <1>7, <1>8 DEF ReadSessions, FinishAcquire, FinishRelease, ownerVars,
                      Unseen, groupVars, faultVars, WorkerStep
  <1>9. CASE \E s \in Shard : ShardStep(w, s)
    <2> PICK s \in Shard : ShardStep(w, s)
      BY <1>9
    <2>0. WorkerStep(w)
      BY DEF WorkerStep
    <2>1. Unseen \/ Join(w) \/ StopConsumer(w)
      BY WorkerUnseen
    <2>2. ASSUME status' = status, callback' = callback, assigned' = assigned
          PROVE  ~Owning(w)' \/ (Unseen /\ Owning(w) /\ assigned'[w] = assigned[w])
      <3>1. CASE Unseen
        BY <1>7, <2>0, <2>2, <3>1
      <3>2. CASE Join(w)
        BY <2>2, <3>2 DEF Join
      <3>3. CASE StopConsumer(w)
        BY <2>2, <3>3 DEF StopConsumer
      <3> QED BY <2>1, <3>1, <3>2, <3>3
    <2>3. Fail(w) \/ UNCHANGED <<status, callback, assigned>>
      <3> USE DEF ownerVars
      <3>1. CASE BeginAcquire(w, s) \/ BeginRelease(w, s)
        <4>1. Fail(w) \/ TakeChange(w, Acquired(s), "restoring")
                      \/ TakeChange(w, Released(s), "releasing")
          BY <3>1 DEF BeginAcquire, BeginRelease
        <4> QED BY <4>1 DEF TakeChange
      <3>2. CASE ActivateAndAck(w, s) \/ CommitRejected(w, s)
        <4>1. Fail(w) \/ Activate(w, s)
          BY <3>2 DEF ActivateAndAck, CommitRejected
        <4> QED BY <4>1 DEF Activate
      <3>3. CASE TaskStops(w, s) \/ ResetPosition(w, s) \/ Dispatch(w, s) \/ DispatcherDies(w, s)
        BY <3>3 DEF TaskStops, ResetPosition, Dispatch, DispatcherDies
      <3>4. CASE TakeDelivery(w, s) \/ SaveSession(w, s) \/ AckReturns(w, s) \/ CommitOffset(w, s)
        BY <3>4 DEF TakeDelivery, SaveSession, AckReturns, CommitOffset
      <3> QED BY <3>1, <3>2, <3>3, <3>4 DEF ShardStep
    <2> QED BY <1>2, <2>2, <2>3
  <1> QED BY <1>1, <1>3, <1>4, <1>5, <1>6, <1>8, <1>9 DEF WorkerStep

\* The steps of the coordinator, of w's membership and of the topic leave the
\* place of every worker.
LEMMA PlacesStay ==
    ASSUME \/ \E e \in Event : Publish(e)
           \/ CoordinatorStep \/ \E w \in Worker : Evict(w) \/ Join(w)
    PROVE  /\ UNCHANGED <<status, callback, assigned, saved, committed, runtime>>
           /\ UNCHANGED <<task, queue, position, registry>>
  BY DEF Publish, CoordinatorStep, CompleteRebalance, DropMember, Evict, Join,
         ownerVars, shardVars

\* The coordinator hands out every shard once.
LEMMA DisjointShares ==
    ASSUME CompleteRebalance, NEW v \in Worker, NEW w \in Worker, v # w
    PROVE  assignment'[v] \cap assignment'[w] = {}
  <1>1. PICK f \in [Shard -> members] :
            assignment' = [x \in Worker |-> {s \in Shard : f[s] = x}]
    BY DEF CompleteRebalance
  <1> QED BY <1>1

\* Every step of the system keeps the generation.
LEMMA NextGeneration ==
    ASSUME InductiveInv, GroupInv, [Next]_vars, TypeOK'
    PROVE  /\ ~rebalancing' => joined' = {}
           /\ \A v, w \in Worker : v # w => assignment'[v] \cap assignment'[w] = {}
           /\ \A w \in Worker : GenerationInv(w)'
  <1>0. TypeOK /\ joined \subseteq members
    BY DEF InductiveInv, TypeOK
  <1>a. ASSUME NEW w \in Worker, Unseen, Owning(w)' => Owning(w) /\ assigned'[w] = assigned[w]
        PROVE  GenerationInv(w)'
    BY <1>a DEF GroupInv, GenerationInv, Unseen, groupVars
  <1>b. ASSUME Unseen
        PROVE  /\ ~rebalancing' => joined' = {}
               /\ \A v, w \in Worker : v # w => assignment'[v] \cap assignment'[w] = {}
    BY <1>b DEF GroupInv, Unseen, groupVars
  <1>c. ASSUME NEW w \in Worker, RemoveMember(w)
        PROVE  /\ ~rebalancing' => joined' = {}
               /\ \A v, u \in Worker : v # u => assignment'[v] \cap assignment'[u] = {}
    <2>1. ~rebalancing' => ~rebalancing
      BY <1>c DEF RemoveMember
    <2>2. joined' \subseteq joined /\ assignment' = assignment
      BY <1>c DEF RemoveMember
    <2> QED BY <2>1, <2>2 DEF GroupInv
  <1>1. CASE UNCHANGED vars
    BY <1>1, <1>a, <1>b DEF vars, Unseen, faultVars, ownerVars, Owning, Running
  <1>2. CASE \E e \in Event : Publish(e)
    <2>1. Unseen
      BY <1>2 DEF Publish, Unseen, faultVars
    <2> QED BY <1>2, <1>a, <1>b, <2>1, PlacesStay DEF Owning, Running
  <1>3. CASE CompleteRebalance
    <2>1. rebalancing' = FALSE /\ joined' = {} /\ members' = members /\ members \subseteq joined
          /\ evictions' = evictions
      BY <1>3 DEF CompleteRebalance, faultVars
    <2>2. ASSUME NEW w \in Worker PROVE GenerationInv(w)'
      <3>1. Owning(w)' <=> Owning(w)
        BY <1>3, PlacesStay DEF CoordinatorStep, Owning, Running
      <3>2. Owning(w) => w \notin members
        BY <2>1 DEF GroupInv, GenerationInv
      <3> QED BY <2>1, <3>1, <3>2 DEF GroupInv, GenerationInv
    <2> QED BY <1>3, <2>1, <2>2, DisjointShares
  <1>4. CASE \E v \in Worker : DropMember(v) \/ Evict(v)
    <2> PICK v \in Worker : DropMember(v) \/ Evict(v)
      BY <1>4
    <2>1. RemoveMember(v)
      BY DEF DropMember, Evict
    <2>2. ASSUME NEW w \in Worker PROVE GenerationInv(w)'
      <3>1. (Owning(w)' <=> Owning(w)) /\ assigned' = assigned
        BY PlacesStay DEF CoordinatorStep, Owning, Running
      <3>2. members' = members \ {v} /\ joined' = joined \ {v} /\ assignment' = assignment
        BY <2>1 DEF RemoveMember
      <3>3. evictions' = 0 => evictions = 0 /\ ~Running(v)
        BY <1>0 DEF DropMember, Evict, faultVars, TypeOK
      <3> QED BY <3>1, <3>2, <3>3 DEF GroupInv, GenerationInv, Owning
    <2> QED BY <1>c, <2>1, <2>2
  <1>5. CASE \E v \in Worker : Join(v)
    <2> PICK v \in Worker : Join(v)
      BY <1>5
    <2>1. /\ members' = members \cup {v} /\ joined' = joined \cup {v} /\ rebalancing'
          /\ assignment' = assignment /\ evictions' = evictions /\ ~Owning(v)
      BY DEF Join, faultVars, Owning
    <2>2. ASSUME NEW w \in Worker PROVE GenerationInv(w)'
      <3>1. (Owning(w)' <=> Owning(w)) /\ assigned' = assigned
        BY PlacesStay DEF Owning, Running
      <3> QED BY <2>1, <3>1 DEF GroupInv, GenerationInv
    <2> QED BY <2>1, <2>2 DEF GroupInv
  <1>6. CASE \E v \in Worker :
                 /\ WorkerStep(v) \/ Start(v) \/ WorkerFails(v) \/ Crash(v)
                 /\ ~Join(v)
    <2> PICK v \in Worker : /\ WorkerStep(v) \/ Start(v) \/ WorkerFails(v) \/ Crash(v)
                            /\ ~Join(v)
      BY <1>6
    <2>1. Unseen \/ StopConsumer(v)
      BY WorkerUnseen
    <2>2. /\ ~rebalancing' => joined' = {}
          /\ \A u, w \in Worker : u # w => assignment'[u] \cap assignment'[w] = {}
      <3>1. CASE Unseen
        BY <1>b, <3>1
      <3>2. CASE StopConsumer(v)
        BY <1>c, <3>2 DEF StopConsumer
      <3> QED BY <2>1, <3>1, <3>2
    <2>3. ASSUME NEW w \in Worker, w # v PROVE GenerationInv(w)'
      <3>1. (Owning(w)' <=> Owning(w)) /\ assigned'[w] = assigned[w]
        BY <1>0, <2>3, OthersUntouched DEF Untouched, Owning, Running
      <3>2. CASE Unseen
        BY <1>a, <3>1, <3>2
      <3>3. CASE StopConsumer(v)
        <4>1. /\ members' = members \ {v} /\ joined' = joined \ {v}
              /\ assignment' = assignment /\ evictions' = evictions
          BY <3>3 DEF StopConsumer, RemoveMember, faultVars
        <4> QED BY <2>3, <3>1, <4>1 DEF GroupInv, GenerationInv
      <3> QED BY <2>1, <3>2, <3>3
    <2>4. GenerationInv(v)'
      <3>1. CASE ~Owning(v)'
        BY <3>1 DEF GenerationInv
      <3>2. CASE OnPartitionsAssigned(v) /\ assigned'[v] = assignment[v]
        BY <3>2 DEF OnPartitionsAssigned, GroupInv, GenerationInv, groupVars
      <3>3. CASE Unseen /\ Owning(v) /\ assigned'[v] = assigned[v]
        BY <1>a, <3>3
      <3> QED BY <3>1, <3>2, <3>3, OwnPlace
    <2> QED BY <2>2, <2>3, <2>4
  <1> QED BY <1>1, <1>2, <1>3, <1>4, <1>5, <1>6 DEF Next, Environment, CoordinatorStep

\* Who follows a stream works with an assignment.
LEMMA StreamingOwns ==
    ASSUME InductiveInv, NEW w \in Worker, NEW s \in Shard, Streaming(w, s)
    PROVE  Owning(w)
  <1>1. Running(w)
    BY DEF InductiveInv, LifecycleInv, Streaming
  <1> QED BY <1>1 DEF InductiveInv, HandshakeInv, Streaming, Consuming, Owning

\* A shard has one owner among the members.
LEMMA SoleOwner ==
    ASSUME GroupInv, NEW v \in Worker, NEW w \in Worker, NEW s \in Shard,
           v \in members, w \in members, Owning(v), Owning(w),
           s \in assigned[v], s \in assigned[w]
    PROVE  v = w
  BY DEF GroupInv, GenerationInv

\* A position minus the length of a queue is a number.
LEMMA TakenNumber ==
    ASSUME NEW p \in Nat \cup {NoOffset}, NEW q \in Seq(Nat)
    PROVE  p \in Int /\ p - Len(q) \in Int
  BY DEF NoOffset

\* The committed offset of a shard moves in one way.
LEMMA CommitSteps ==
    ASSUME TypeOK, [Next]_vars, NEW s \in Shard
    PROVE  committed'[s] = committed[s] \/ \E w \in Worker : CommitOffset(w, s)
  <1>1. CASE UNCHANGED vars
    BY <1>1 DEF vars
  <1>2. CASE \E e \in Event : Publish(e)
    BY <1>2 DEF Publish
  <1>3. CASE CoordinatorStep \/ \E w \in Worker : Evict(w)
    BY <1>3 DEF CoordinatorStep, CompleteRebalance, DropMember, Evict
  <1>4. CASE \E w \in Worker : WorkerStep(w) \/ Start(w) \/ WorkerFails(w) \/ Crash(w)
    <2> PICK w \in Worker : WorkerStep(w) \/ Start(w) \/ WorkerFails(w) \/ Crash(w)
      BY <1>4
    <2>1. CASE committed' = committed
      BY <2>1
    <2>2. CASE \E x \in Shard : CommitOffset(w, x)
      <3> PICK x \in Shard : CommitOffset(w, x)
        BY <2>2
      <3>1. committed' = [committed EXCEPT ![x] = task[w][x].offset]
        BY DEF CommitOffset
      <3>2. CASE x = s
        BY <3>2
      <3>3. CASE x # s
        BY <3>1, <3>3 DEF TypeOK
      <3> QED BY <3>2, <3>3
    <2> QED BY <2>1, <2>2, WorkerLog
  <1> QED BY <1>1, <1>2, <1>3, <1>4 DEF Next, Environment

\* What a worker commits is what it has taken last from a shard it owns.
LEMMA CommitIsTaken ==
    ASSUME InductiveInv, NEW w \in Worker, NEW s \in Shard, CommitOffset(w, s)
    PROVE  /\ committed'[s] = Taken(w, s)
           /\ w \in members /\ s \in assigned[w] /\ Streaming(w, s) /\ Owning(w)
  <1>1. Busy(w, s) /\ w \in members /\ Running(w) /\ HasTask(w, s)
    BY DEF CommitOffset, Busy, HasTask, NoTask
  <1>2. Streaming(w, s) /\ task[w][s].offset = Taken(w, s)
    BY <1>1, BusyStream DEF Taken
  <1>3. s \in assigned[w]
    BY <1>1 DEF InductiveInv, HandshakeInv
  <1>4. committed'[s] = task[w][s].offset
    BY DEF CommitOffset, InductiveInv, TypeOK
  <1> QED BY <1>1, <1>2, <1>3, <1>4, StreamingOwns

\* Off the assigned callback and a new position, a stream that is followed has
\* been followed before, and has not gone back.
LEMMA StreamGoesOn ==
    ASSUME InductiveInv, InductiveInv', NEW w \in Worker, NEW s \in Shard,
           WorkerStep(w) \/ Start(w) \/ WorkerFails(w) \/ Crash(w),
           ~OnPartitionsAssigned(w), ~ResetPosition(w, s), Streaming(w, s)'
    PROVE  Streaming(w, s) /\ Taken(w, s) <= Taken(w, s)'
  <1> USE DEF ownerVars, shardVars
  <1>0. /\ TypeOK /\ TypeOK' /\ Running(w)' /\ Owning(w)' /\ position'[w][s] # NoOffset
        /\ Taken(w, s) \in Int
    <2>1. TypeOK /\ TypeOK' /\ position'[w][s] # NoOffset
      BY DEF InductiveInv, Streaming
    <2>2. Running(w)'
      BY <2>1 DEF InductiveInv, LifecycleInv
    <2>3. Owning(w)'
      BY <2>2 DEF InductiveInv, HandshakeInv, Streaming, Consuming, Owning
    <2>4. position[w][s] \in Nat \cup {NoOffset} /\ queue[w][s] \in Seq(Nat)
      BY <2>1 DEF TypeOK
    <2>5. Taken(w, s) \in Int
      BY <2>4, TakenNumber DEF Taken
    <2> QED BY <2>1, <2>2, <2>3, <2>5
  <1>1. ASSUME status'[w] = status[w], callback'[w] = callback[w],
               HasTask(w, s)' => HasTask(w, s),
               queue'[w][s] = queue[w][s], position'[w][s] = position[w][s]
        PROVE  Streaming(w, s) /\ Taken(w, s) <= Taken(w, s)'
    <2>1. Taken(w, s)' = Taken(w, s)
      BY <1>1 DEF Taken
    <2> QED BY <1>0, <1>1, <2>1 DEF Streaming, Consuming, Running
  <1>2. ~Fail(w)
    BY <1>0 DEF Fail, Running, TypeOK
  <1>3. ~(WorkerFails(w) \/ Crash(w) \/ StopConsumer(w) \/ Start(w))
    BY <1>0, <1>2 DEF WorkerFails, Crash, StopConsumer, Start, Running, Owning, TypeOK
  <1>4. CASE Join(w)
    BY <1>1, <1>4 DEF Join, HasTask
  <1>5. CASE OnPartitionsRevoked(w) \/ CallbackReturns(w)
    <2>1. task' = task /\ queue' = queue /\ position' = position /\ status' = status
          /\ Running(w)
      BY <1>5 DEF OnPartitionsRevoked, CallbackReturns
    <2>2. callback'[w] \in {"assigning", "stable"} => callback[w] \in {"assigning", "stable"}
      BY <1>0, <1>5 DEF OnPartitionsRevoked, CallbackReturns, TypeOK
    <2>3. Streaming(w, s)
      BY <2>1, <2>2 DEF Streaming, Consuming, Running, HasTask
    <2>4. Taken(w, s)' = Taken(w, s)
      BY <2>1 DEF Taken
    <2> QED BY <1>0, <2>3, <2>4
  <1>6. CASE ReadSessions(w) \/ FinishRelease(w)
    BY <1>1, <1>6 DEF ReadSessions, FinishRelease, HasTask
  <1>7. CASE FinishAcquire(w)
    <2>1. /\ queue' = queue /\ position' = position /\ status' = status
          /\ callback' = callback /\ Running(w)
          /\ runtime[w].pc = "restored" /\ runtime[w] # Idle
      BY <1>7 DEF FinishAcquire, Idle
    <2>2. callback[w] = "assigning"
      BY <2>1, HandFacts
    <2>3. Taken(w, s)' = Taken(w, s)
      BY <2>1 DEF Taken
    <2> QED BY <1>0, <2>1, <2>2, <2>3 DEF Streaming, Consuming
  <1>8. CASE \E x \in Shard : ShardStep(w, x)
    <2> PICK x \in Shard : ShardStep(w, x)
      BY <1>8
    <2>1. CASE BeginAcquire(w, x) \/ BeginRelease(w, x)
      <3>1. TakeChange(w, Acquired(x), "restoring") \/ TakeChange(w, Released(x), "releasing")
        BY <1>2, <2>1 DEF BeginAcquire, BeginRelease
      <3> QED BY <1>1, <3>1 DEF TakeChange, HasTask
    <2>2. CASE TaskStops(w, x)
      <3>1. position' = position /\ status' = status /\ callback' = callback /\ Running(w)
            /\ runtime[w].pc = "releasing" /\ runtime[w].shard = x /\ runtime[w] # Idle
        BY <2>2 DEF TaskStops, Cancelling, Idle
      <3>2. CASE x # s
        BY <1>0, <1>1, <2>2, <3>1, <3>2 DEF TaskStops, TypeOK, HasTask
      <3>3. CASE x = s
        <4>1. callback[w] = "revoking"
          BY <3>1, HandFacts
        <4>2. ~HasTask(w, s)'
          BY <1>0, <2>2, <3>3 DEF TaskStops, TypeOK, HasTask
        <4> QED BY <3>1, <4>1, <4>2 DEF Streaming, Consuming
      <3> QED BY <3>2, <3>3
    <2>3. CASE ResetPosition(w, x)
      <3>1. x # s
        BY <2>3
      <3> QED BY <1>0, <1>1, <2>3, <3>1 DEF ResetPosition, TypeOK, HasTask
    <2>4. CASE Dispatch(w, x)
      <3>1. /\ status' = status /\ callback' = callback /\ task' = task
            /\ queue' = [queue EXCEPT ![w][x] = Append(@, position[w][x] + 1)]
            /\ position' = [position EXCEPT ![w][x] = position[w][x] + 1]
            /\ position[w][x] # NoOffset /\ Consuming(w)
        BY <2>4 DEF Dispatch, HasNext
      <3>2. CASE x # s
        BY <1>0, <1>1, <3>1, <3>2 DEF TypeOK, HasTask
      <3>3. CASE x = s
        <4>1. /\ queue'[w][s] = Append(queue[w][s], position[w][s] + 1)
              /\ position'[w][s] = position[w][s] + 1
              /\ position[w][s] \in Nat /\ queue[w][s] \in Seq(Nat)
          BY <1>0, <3>1, <3>3 DEF TypeOK, NoOffset
        <4>2. Len(queue'[w][s]) = Len(queue[w][s]) + 1 /\ Len(queue[w][s]) \in Nat
          BY <4>1
        <4>3. \A p, n \in Nat : (p + 1) - (n + 1) = p - n
          OBVIOUS
        <4>4. position'[w][s] - Len(queue'[w][s]) = position[w][s] - Len(queue[w][s])
          BY <4>1, <4>2, <4>3, Zenon
        <4>5. Taken(w, s)' = Taken(w, s)
          BY <4>4 DEF Taken
        <4> QED BY <1>0, <3>1, <3>3, <4>5 DEF Streaming
      <3> QED BY <3>2, <3>3
    <2>5. CASE TakeDelivery(w, x)
      <3>1. /\ UNCHANGED <<status, callback, position>>
            /\ task' = [task EXCEPT ![w][x] =
                   [pc |-> "saving", offset |-> Head(queue[w][x])]]
            /\ queue' = [queue EXCEPT ![w][x] = Tail(@)]
            /\ task[w][x] = Waiting /\ queue[w][x] # <<>>
        BY <2>5 DEF TakeDelivery
      <3>2. CASE x # s
        BY <1>0, <1>1, <3>1, <3>2 DEF TypeOK, HasTask
      <3>3. CASE x = s
        <4>1. /\ queue'[w][s] = Tail(queue[w][s]) /\ queue[w][s] \in Seq(Nat)
              /\ queue[w][s] # <<>> /\ position'[w][s] = position[w][s]
              /\ position[w][s] \in Int
          BY <1>0, <3>1, <3>3 DEF TypeOK, NoOffset
        <4>2. Len(queue'[w][s]) <= Len(queue[w][s])
              /\ Len(queue[w][s]) \in Nat /\ Len(queue'[w][s]) \in Nat
          BY <4>1
        <4>3. Taken(w, s) <= Taken(w, s)'
          BY <4>1, <4>2 DEF Taken
        <4>4. Streaming(w, s)
          BY <1>0, <3>1, <3>3, <4>1 DEF Streaming, HasTask, Waiting, NoTask
        <4> QED BY <4>3, <4>4
      <3> QED BY <3>2, <3>3
    <2>6. CASE DispatcherDies(w, x)
      BY <1>1, <2>6 DEF DispatcherDies, HasTask
    <2>7. CASE ActivateAndAck(w, x)
      <3>1. Activate(w, x) /\ task[w][x].pc = "saved"
        BY <1>2, <2>7 DEF ActivateAndAck
      <3>2. HasTask(w, s)' => HasTask(w, s)
        BY <1>0, <3>1 DEF Activate, Advance, HasTask, NoTask, TypeOK
      <3> QED BY <1>1, <3>1, <3>2 DEF Activate
    <2>8. CASE CommitRejected(w, x)
      BY <1>2, <2>8 DEF CommitRejected
    <2>9. CASE SaveSession(w, x)
      <3>1. HasTask(w, s)' => HasTask(w, s)
        BY <1>0, <2>9 DEF SaveSession, Advance, HasTask, NoTask, TypeOK
      <3> QED BY <1>1, <2>9, <3>1 DEF SaveSession
    <2>10. CASE CommitOffset(w, x)
      <3>1. HasTask(w, s)' => HasTask(w, s)
        BY <1>0, <2>10 DEF CommitOffset, Advance, HasTask, NoTask, TypeOK
      <3> QED BY <1>1, <2>10, <3>1 DEF CommitOffset
    <2>11. CASE AckReturns(w, x)
      <3>1. HasTask(w, s)' => HasTask(w, s)
        BY <1>0, <2>11 DEF AckReturns, HasTask, NoTask, TypeOK
      <3> QED BY <1>1, <2>11, <3>1 DEF AckReturns
    <2> QED BY <2>1, <2>2, <2>3, <2>4, <2>5, <2>6, <2>7, <2>8, <2>9, <2>10, <2>11
            DEF ShardStep
  <1> QED BY <1>3, <1>4, <1>5, <1>6, <1>7, <1>8 DEF WorkerStep

\* Every step of the system keeps FollowInv.
LEMMA NextFollow ==
    ASSUME InductiveInv, GroupInv, [Next]_vars, InductiveInv',
           NEW w \in Worker, NEW s \in Shard
    PROVE  FollowInv(w, s)'
  <1> SUFFICES ASSUME w \in members', s \in assigned'[w], Streaming(w, s)'
               PROVE  committed'[s] <= Taken(w, s)'
    BY DEF FollowInv
  <1>0. TypeOK /\ TypeOK' /\ FollowInv(w, s)
    BY DEF InductiveInv, GroupInv
  <1>n. /\ committed[s] \in Int /\ committed'[s] \in Int
        /\ Taken(w, s) \in Int /\ Taken(w, s)' \in Int
    <2>1. /\ committed[s] \in Nat \cup {NoOffset} /\ committed'[s] \in Nat \cup {NoOffset}
          /\ position[w][s] \in Nat \cup {NoOffset} /\ queue[w][s] \in Seq(Nat)
          /\ position'[w][s] \in Nat \cup {NoOffset} /\ queue'[w][s] \in Seq(Nat)
      BY <1>0 DEF TypeOK
    <2> QED BY <2>1, TakenNumber DEF Taken
  <1>1. ASSUME w \in members, s \in assigned[w], Streaming(w, s), Taken(w, s) <= Taken(w, s)'
        PROVE  committed'[s] <= Taken(w, s)'
    <2>1. CASE committed'[s] = committed[s]
      BY <1>0, <1>n, <1>1, <2>1 DEF FollowInv
    <2>2. CASE \E v \in Worker : CommitOffset(v, s)
      <3> PICK v \in Worker : CommitOffset(v, s)
        BY <2>2
      <3>1. /\ committed'[s] = Taken(v, s)
            /\ v \in members /\ s \in assigned[v] /\ Owning(v)
        BY CommitIsTaken
      <3>2. v = w
        BY <1>1, <3>1, StreamingOwns, SoleOwner
      <3> QED BY <1>1, <3>1, <3>2
    <2> QED BY <1>0, <2>1, <2>2, CommitSteps
  <1>2. ASSUME w \in members, status'[w] = status[w], callback'[w] = callback[w],
               task'[w] = task[w], queue'[w] = queue[w], position'[w] = position[w],
               assigned'[w] = assigned[w]
        PROVE  committed'[s] <= Taken(w, s)'
    <2>1. Taken(w, s)' = Taken(w, s)
      BY <1>2 DEF Taken
    <2>2. Streaming(w, s)
      BY <1>2 DEF Streaming, Consuming, Running, HasTask
    <2> QED BY <1>n, <1>1, <1>2, <2>1, <2>2
  <1>3. CASE UNCHANGED vars
    BY <1>2, <1>3 DEF vars, groupVars, ownerVars, shardVars
  <1>4. CASE (\E e \in Event : Publish(e)) \/ CoordinatorStep \/ \E v \in Worker : Evict(v)
    <2>1. members' \subseteq members
      BY <1>4 DEF Publish, CoordinatorStep, CompleteRebalance, DropMember, Evict,
                  RemoveMember, groupVars
    <2> QED BY <1>2, <1>4, <2>1, PlacesStay
  <1>5. CASE \E v \in Worker : WorkerStep(v) \/ Start(v) \/ WorkerFails(v) \/ Crash(v)
    <2> PICK v \in Worker : WorkerStep(v) \/ Start(v) \/ WorkerFails(v) \/ Crash(v)
      BY <1>5
    <2>1. CASE v # w
      <3>1. w \in members
        BY <2>1, WorkerUnseen DEF Unseen, groupVars, Join, StopConsumer, RemoveMember
      <3>2. Untouched(w)
        BY <1>0, <2>1, OthersUntouched
      <3> QED BY <1>2, <3>1, <3>2 DEF Untouched
    <2>2. CASE v = w
      <3>1. Owning(w)'
        <4>1. Running(w)'
          BY DEF InductiveInv, LifecycleInv, Streaming
        <4> QED BY <4>1 DEF InductiveInv, HandshakeInv, Streaming, Consuming, Owning
      <3>2. CASE OnPartitionsAssigned(w)
        BY <1>0, <3>2 DEF OnPartitionsAssigned, TypeOK, Streaming
      <3>3. CASE ResetPosition(w, s)
        <4>1. queue' = queue /\ queue[w][s] = <<>> /\ committed' = committed
          BY <3>3 DEF ResetPosition, shardVars, InductiveInv, StreamInv
        <4>2. position'[w][s] = IF committed[s] = NoOffset THEN Len(log[s]) ELSE committed[s]
          BY <1>0, <3>3 DEF ResetPosition, TypeOK
        <4>3. Taken(w, s)' = position'[w][s] - 0
          BY <4>1 DEF Taken
        <4>4. /\ committed[s] \in Nat \cup {NoOffset} /\ Len(log[s]) \in Nat
          BY <1>0 DEF TypeOK
        <4> QED BY <4>1, <4>2, <4>3, <4>4 DEF NoOffset
      <3>4. CASE ~OnPartitionsAssigned(w) /\ ~ResetPosition(w, s)
        <4>1. Streaming(w, s) /\ Taken(w, s) <= Taken(w, s)'
          BY <2>2, <3>4, StreamGoesOn
        <4>2. Unseen /\ assigned'[w] = assigned[w]
          BY <1>0, <2>2, <3>1, <3>4, OwnPlace
        <4> QED BY <1>1, <4>1, <4>2 DEF Unseen, groupVars
      <3> QED BY <3>2, <3>3, <3>4
    <2> QED BY <2>1, <2>2
  <1> QED BY <1>3, <1>4, <1>5 DEF Next, Environment

-----------------------------------------------------------------------------
(* The owner and the sessions: PreparedInv.                                *)

\* The sessions restore has read are all that are durable.
RestoreReady(w) ==
    runtime[w].pc = "restored" =>
        saved \cap SessionsOf(runtime[w].shard) \subseteq runtime[w].snapshot

\* A shard task has every durable session, or has just saved it.
HoldsAll(w, s) ==
    HasTask(w, s) /\ ~Cancelling(w, s) =>
        \A e \in saved \cap SessionsOf(s) :
            \/ e \in registry[w]
            \/ task[w][s].pc = "saved" /\ EventAt(s, task[w][s].offset) = e

\* PreparedInv by its parts.
LEMMA PreparedParts ==
    ASSUME NEW w \in Worker
    PROVE  PreparedInv(w) <=>
               (evictions = 0 => RestoreReady(w) /\ \A s \in Shard : HoldsAll(w, s))
  BY DEF PreparedInv, RestoreReady, HoldsAll

\* A task that runs belongs to an owner.
LEMMA TaskOwns ==
    ASSUME InductiveInv, NEW w \in Worker, NEW s \in Shard, HasTask(w, s)
    PROVE  Owning(w) /\ s \in assigned[w]
  <1>1. Running(w)
    BY DEF InductiveInv, LifecycleInv, HasTask
  <1> QED BY <1>1 DEF InductiveInv, HandshakeInv, Owning

\* Sessions are saved in one way: by the task of their shard.
LEMMA SavedSteps ==
    ASSUME InductiveInv, [Next]_vars
    PROVE  \/ saved' = saved
           \/ \E v \in Worker, x \in Shard :
                  /\ SaveSession(v, x) /\ HasTask(v, x)
                  /\ saved' = saved \cup {EventAt(x, task[v][x].offset)}
                  /\ EventAt(x, task[v][x].offset) \in SessionsOf(x)
  <1>1. CASE UNCHANGED vars
    BY <1>1 DEF vars
  <1>2. CASE \/ \E e \in Event : Publish(e)
             \/ CoordinatorStep \/ \E w \in Worker : Evict(w) \/ Join(w)
    BY <1>2, PlacesStay
  <1>3. ASSUME NEW w \in Worker, Fail(w) PROVE saved' = saved
    BY <1>3 DEF Fail
  <1>4. CASE \E w \in Worker : WorkerFails(w) \/ Crash(w) \/ StopConsumer(w) \/ Start(w)
    BY <1>3, <1>4 DEF WorkerFails, Crash, StopConsumer, Start
  <1>5. CASE \E w \in Worker : \/ OnPartitionsRevoked(w) \/ OnPartitionsAssigned(w)
                               \/ CallbackReturns(w) \/ ReadSessions(w)
                               \/ FinishAcquire(w) \/ FinishRelease(w)
    BY <1>5 DEF OnPartitionsRevoked, OnPartitionsAssigned, CallbackReturns,
                ReadSessions, FinishAcquire, FinishRelease
  <1>6. CASE \E w \in Worker, s \in Shard : ShardStep(w, s)
    <2> PICK w \in Worker, s \in Shard : ShardStep(w, s)
      BY <1>6
    <2>1. CASE BeginAcquire(w, s) \/ BeginRelease(w, s)
      <3>1. \/ Fail(w) \/ TakeChange(w, Acquired(s), "restoring")
            \/ TakeChange(w, Released(s), "releasing")
        BY <2>1 DEF BeginAcquire, BeginRelease
      <3> QED BY <1>3, <3>1 DEF TakeChange
    <2>2. CASE ActivateAndAck(w, s) \/ CommitRejected(w, s)
      <3>1. Fail(w) \/ Activate(w, s)
        BY <2>2 DEF ActivateAndAck, CommitRejected
      <3> QED BY <1>3, <3>1 DEF Activate
    <2>3. CASE TaskStops(w, s) \/ ResetPosition(w, s) \/ Dispatch(w, s) \/ DispatcherDies(w, s)
      BY <2>3 DEF TaskStops, ResetPosition, Dispatch, DispatcherDies
    <2>4. CASE TakeDelivery(w, s) \/ AckReturns(w, s) \/ CommitOffset(w, s)
      BY <2>4 DEF TakeDelivery, AckReturns, CommitOffset
    <2>5. CASE SaveSession(w, s)
      <3>1. Busy(w, s) /\ HasTask(w, s)
        BY <2>5 DEF SaveSession, Busy, HasTask, NoTask
      <3>2. task[w][s].offset \in 1..Len(log[s]) /\ EventAt(s, task[w][s].offset) \in Event
        BY <3>1, BusyOffset DEF InductiveInv
      <3>3. EventAt(s, task[w][s].offset) \in SessionsOf(s)
        BY <3>2 DEF InductiveInv, LogInv, EventAt, SessionsOf
      <3> QED BY <2>5, <3>1, <3>3 DEF SaveSession
    <2> QED BY <2>1, <2>2, <2>3, <2>4, <2>5 DEF ShardStep
  <1> QED BY <1>1, <1>2, <1>4, <1>5, <1>6 DEF Next, Environment, WorkerStep

\* As long as nobody is evicted, only the owner saves sessions of its shard.
LEMMA OnlyOwnerSaves ==
    ASSUME InductiveInv, GroupInv, [Next]_vars, evictions = 0,
           NEW w \in Worker, NEW s \in Shard, Owning(w), s \in assigned[w]
    PROVE  saved' \cap SessionsOf(s) \subseteq saved \/ SaveSession(w, s)
  <1>1. CASE saved' = saved
    BY <1>1
  <1>2. ASSUME NEW v \in Worker, NEW x \in Shard, SaveSession(v, x), HasTask(v, x),
               saved' = saved \cup {EventAt(x, task[v][x].offset)},
               EventAt(x, task[v][x].offset) \in SessionsOf(x)
        PROVE  saved' \cap SessionsOf(s) \subseteq saved \/ SaveSession(w, s)
    <2>1. CASE x # s
      BY <1>2, <2>1 DEF SessionsOf
    <2>2. CASE x = s
      <3>1. Owning(v) /\ s \in assigned[v]
        BY <1>2, <2>2, TaskOwns
      <3>2. v \in members /\ w \in members
        BY <3>1 DEF GroupInv, GenerationInv
      <3>3. v = w
        BY <3>1, <3>2, SoleOwner
      <3> QED BY <1>2, <2>2, <3>3
    <2> QED BY <2>1, <2>2
  <1> QED BY <1>1, <1>2, SavedSteps

\* Evictions are only counted up.
LEMMA EvictionsCount ==
    ASSUME TypeOK, [Next]_vars, evictions' = 0
    PROVE  evictions = 0
  <1>1. evictions' = evictions \/ evictions' = evictions + 1
    <2>1. CASE UNCHANGED vars
      BY <2>1 DEF vars, faultVars
    <2>2. CASE (\E e \in Event : Publish(e)) \/ CoordinatorStep \/ \E w \in Worker : Evict(w)
      BY <2>2 DEF Publish, CoordinatorStep, CompleteRebalance, DropMember, Evict, faultVars
    <2>3. CASE \E w \in Worker : WorkerStep(w) \/ Start(w) \/ WorkerFails(w) \/ Crash(w)
      BY <2>3, WorkerUnseen DEF Unseen, Join, StopConsumer, faultVars
    <2> QED BY <2>1, <2>2, <2>3 DEF Next, Environment
  <1> QED BY <1>1 DEF TypeOK

\* The runtime of w comes to "restored" in one way.
LEMMA RuntimeSteps ==
    ASSUME TypeOK, NEW w \in Worker,
           WorkerStep(w) \/ Start(w) \/ WorkerFails(w) \/ Crash(w)
    PROVE  \/ runtime'[w] = runtime[w] \/ runtime'[w].pc # "restored"
           \/ ReadSessions(w)
  <1> USE DEF ownerVars, Idle, TypeOK
  <1>1. ASSUME Fail(w) PROVE runtime'[w].pc # "restored"
    BY <1>1 DEF Fail, ForgetMemory
  <1>2. CASE WorkerFails(w) \/ Crash(w) \/ StopConsumer(w) \/ Start(w)
    BY <1>1, <1>2 DEF WorkerFails, Crash, StopConsumer, Start, ForgetMemory
  <1>3. CASE \/ Join(w) \/ OnPartitionsRevoked(w) \/ OnPartitionsAssigned(w)
             \/ CallbackReturns(w)
    BY <1>3 DEF Join, OnPartitionsRevoked, OnPartitionsAssigned, CallbackReturns
  <1>4. CASE FinishAcquire(w) \/ FinishRelease(w)
    BY <1>4 DEF FinishAcquire, FinishRelease
  <1>5. CASE \E s \in Shard : ShardStep(w, s)
    <2> PICK s \in Shard : ShardStep(w, s)
      BY <1>5
    <2>1. CASE BeginAcquire(w, s) \/ BeginRelease(w, s)
      <3>1. \/ Fail(w) \/ TakeChange(w, Acquired(s), "restoring")
            \/ TakeChange(w, Released(s), "releasing")
        BY <2>1 DEF BeginAcquire, BeginRelease
      <3> QED BY <1>1, <3>1 DEF TakeChange
    <2>2. CASE ActivateAndAck(w, s) \/ CommitRejected(w, s)
      <3>1. Fail(w) \/ Activate(w, s)
        BY <2>2 DEF ActivateAndAck, CommitRejected
      <3> QED BY <1>1, <3>1 DEF Activate
    <2>3. CASE TaskStops(w, s) \/ ResetPosition(w, s) \/ Dispatch(w, s) \/ DispatcherDies(w, s)
      BY <2>3 DEF TaskStops, ResetPosition, Dispatch, DispatcherDies
    <2>4. CASE \/ TakeDelivery(w, s) \/ SaveSession(w, s) \/ AckReturns(w, s)
               \/ CommitOffset(w, s)
      BY <2>4 DEF TakeDelivery, SaveSession, AckReturns, CommitOffset
    <2> QED BY <2>1, <2>2, <2>3, <2>4 DEF ShardStep
  <1> QED BY <1>2, <1>3, <1>4, <1>5 DEF WorkerStep

\* Between the read of the sessions and the shard task nothing is saved that
\* the runtime does not have.
LEMMA NextRestoreReady ==
    ASSUME InductiveInv, GroupInv, [Next]_vars, evictions = 0,
           NEW w \in Worker, RestoreReady(w)
    PROVE  RestoreReady(w)'
  <1>0. TypeOK
    BY DEF InductiveInv
  <1>1. ASSUME runtime'[w] = runtime[w] PROVE RestoreReady(w)'
    <2> SUFFICES ASSUME runtime[w].pc = "restored"
                 PROVE  saved' \cap SessionsOf(runtime[w].shard) \subseteq runtime[w].snapshot
      BY <1>1 DEF RestoreReady, SessionsOf
    <2>1. Running(w) /\ runtime[w] # Idle
      BY DEF InductiveInv, LifecycleInv, Idle
    <2>2. /\ runtime[w].shard \in Shard /\ runtime[w].shard \in assigned[w]
          /\ callback[w] = "assigning" /\ ~HasTask(w, runtime[w].shard)
      BY <2>1, HandFacts
    <2>3. Owning(w) /\ ~SaveSession(w, runtime[w].shard)
      BY <2>1, <2>2 DEF Owning, SaveSession, HasTask, NoTask
    <2>4. saved' \cap SessionsOf(runtime[w].shard) \subseteq saved
      BY <2>2, <2>3, OnlyOwnerSaves
    <2> QED BY <2>4 DEF RestoreReady
  <1>2. ASSUME ReadSessions(w) PROVE RestoreReady(w)'
    BY <1>0, <1>2 DEF ReadSessions, RestoreReady, SessionsOf, TypeOK
  <1>3. CASE UNCHANGED vars
    BY <1>1, <1>3 DEF vars
  <1>4. CASE (\E e \in Event : Publish(e)) \/ CoordinatorStep \/ \E v \in Worker : Evict(v)
    BY <1>1, <1>4, PlacesStay
  <1>5. CASE \E v \in Worker : WorkerStep(v) \/ Start(v) \/ WorkerFails(v) \/ Crash(v)
    <2> PICK v \in Worker : WorkerStep(v) \/ Start(v) \/ WorkerFails(v) \/ Crash(v)
      BY <1>5
    <2>1. CASE v # w
      BY <1>0, <1>1, <2>1, OthersUntouched DEF Untouched
    <2>2. CASE v = w
      <3>1. CASE runtime'[w].pc # "restored"
        BY <3>1 DEF RestoreReady
      <3> QED BY <1>0, <1>1, <1>2, <2>2, <3>1, RuntimeSteps
    <2> QED BY <2>1, <2>2
  <1> QED BY <1>3, <1>4, <1>5 DEF Next, Environment

\* A task that neither takes nor saves a session keeps what it has, whoever
\* takes the step.
LEMMA HoldsStays ==
    ASSUME InductiveInv, GroupInv, [Next]_vars, DataStays, evictions = 0,
           NEW w \in Worker, NEW s \in Shard, HoldsAll(w, s),
           task'[w][s] = task[w][s], Cancelling(w, s) => Cancelling(w, s)',
           registry[w] \cap SessionsOf(s) \subseteq registry'[w]
    PROVE  HoldsAll(w, s)'
  <1>0. TypeOK
    BY DEF InductiveInv
  <1> SUFFICES ASSUME HasTask(w, s), ~Cancelling(w, s), NEW e \in saved', e \in SessionsOf(s)
               PROVE  \/ e \in registry'[w]
                      \/ task[w][s].pc = "saved" /\ log'[s][task[w][s].offset] = e
    BY DEF HoldsAll, HasTask, EventAt, SessionsOf
  <1>1. ~SaveSession(w, s)
    BY <1>0 DEF SaveSession, Advance, TypeOK
  <1>2. e \in saved
    BY <1>1, TaskOwns, OnlyOwnerSaves
  <1>3. CASE e \in registry[w]
    BY <1>3
  <1>4. CASE task[w][s].pc = "saved" /\ EventAt(s, task[w][s].offset) = e
    <2>1. task[w][s].offset \in 1..Len(log[s])
      BY <1>4, BusyStream DEF Busy
    <2> QED BY <1>4, <2>1 DEF DataStays, EventAt
  <1> QED BY <1>2, <1>3, <1>4 DEF HoldsAll

\* The steps of a shard's task: the session that is saved is in the task's hand
\* until the registry has it.
LEMMA TaskHolds ==
    ASSUME InductiveInv, NEW w \in Worker, NEW s \in Shard, HoldsAll(w, s),
           \/ TakeDelivery(w, s) \/ SaveSession(w, s) \/ CommitOffset(w, s)
           \/ AckReturns(w, s)
           \/ Activate(w, s) /\ task[w][s].pc = "saved"
    PROVE  HoldsAll(w, s)'
  <1> USE DEF ownerVars, shardVars
  <1> DEFINE o == task[w][s].offset
  <1>0. TypeOK
    BY DEF InductiveInv
  <1>1. /\ runtime' = runtime /\ log' = log /\ HasTask(w, s)
        /\ (Cancelling(w, s)' <=> Cancelling(w, s))
    BY DEF TakeDelivery, SaveSession, CommitOffset, AckReturns, Activate, HasTask,
           Waiting, NoTask, Cancelling
  <1>2. CASE SaveSession(w, s)
    <2>1. /\ task[w][s].pc = "saving" /\ task'[w][s] = [pc |-> "saved", offset |-> o]
          /\ saved' = saved \cup {log[s][o]} /\ registry' = registry
      BY <1>0, <1>2 DEF SaveSession, Advance, TypeOK, EventAt
    <2>2. ~Cancelling(w, s) => \A e \in saved \cap SessionsOf(s) : e \in registry[w]
      BY <1>1, <2>1 DEF HoldsAll
    <2>3. task'[w][s].pc = "saved" /\ task'[w][s].offset = o
      BY <2>1
    <2> HIDE DEF o
    <2> QED BY <1>1, <2>1, <2>2, <2>3 DEF HoldsAll, EventAt, SessionsOf
  <1>3. CASE Activate(w, s) /\ task[w][s].pc = "saved"
    <2>1. registry'[w] = registry[w] \cup {EventAt(s, o)} /\ saved' = saved
      BY <1>0, <1>3 DEF Activate, TypeOK
    <2> QED BY <1>1, <2>1 DEF HoldsAll, SessionsOf
  <1>4. CASE TakeDelivery(w, s) \/ CommitOffset(w, s) \/ AckReturns(w, s)
    <2>1. task[w][s].pc # "saved" /\ registry' = registry /\ saved' = saved
      BY <1>4 DEF TakeDelivery, CommitOffset, AckReturns, Waiting
    <2> QED BY <1>1, <2>1 DEF HoldsAll, SessionsOf
  <1> QED BY <1>2, <1>3, <1>4

\* The steps of a shard's task leave those of the worker's other shards.
LEMMA OtherTasksStay ==
    ASSUME TypeOK, NEW w \in Worker, NEW s \in Shard, NEW x \in Shard, x # s,
           \/ TakeDelivery(w, x) \/ SaveSession(w, x) \/ CommitOffset(w, x)
           \/ AckReturns(w, x) \/ Activate(w, x)
    PROVE  /\ task'[w][s] = task[w][s] /\ runtime' = runtime
           /\ registry[w] \subseteq registry'[w]
  <1> USE DEF ownerVars, shardVars, TypeOK
  <1>1. CASE TakeDelivery(w, x)
    <2>1. /\ UNCHANGED <<runtime, registry>>
          /\ task' = [task EXCEPT ![w][x] = [pc |-> "saving", offset |-> Head(queue[w][x])]]
      BY <1>1 DEF TakeDelivery
    <2> QED BY <2>1
  <1>2. CASE SaveSession(w, x)
    BY <1>2 DEF SaveSession, Advance
  <1>3. CASE CommitOffset(w, x)
    BY <1>3 DEF CommitOffset, Advance
  <1>4. CASE AckReturns(w, x)
    BY <1>4 DEF AckReturns
  <1>5. CASE Activate(w, x)
    BY <1>5 DEF Activate, Advance
  <1> QED BY <1>1, <1>2, <1>3, <1>4, <1>5

\* The end of an acquire or of a release, shard by shard.
LEMMA RuntimeHolds ==
    ASSUME InductiveInv, GroupInv, [Next]_vars, DataStays, evictions = 0,
           NEW w \in Worker, NEW s \in Shard, RestoreReady(w), HoldsAll(w, s),
           FinishAcquire(w) \/ FinishRelease(w)
    PROVE  HoldsAll(w, s)'
  <1> DEFINE sh == runtime[w].shard
  <1>0. /\ TypeOK /\ Running(w) /\ runtime[w] # Idle /\ sh \in Shard
        /\ saved' = saved /\ log' = log
    <2>1. TypeOK /\ Running(w) /\ runtime[w] # Idle
      BY DEF InductiveInv, FinishAcquire, FinishRelease, Idle
    <2> QED BY <2>1, HandFacts DEF FinishAcquire, FinishRelease
  <1>1. CASE FinishAcquire(w)
    <2>1. /\ registry'[w] = registry[w] \cup runtime[w].snapshot
          /\ task'[w][sh] = Waiting /\ (s # sh => task'[w][s] = task[w][s])
          /\ runtime[w].pc = "restored"
      BY <1>0, <1>1 DEF FinishAcquire, TypeOK
    <2>2. CASE s # sh
      BY <1>0, <2>1, <2>2, HoldsStays DEF Cancelling
    <2>3. CASE s = sh
      <3>1. saved \cap SessionsOf(s) \subseteq registry'[w]
        BY <2>1, <2>3 DEF RestoreReady
      <3> QED BY <1>0, <3>1 DEF HoldsAll, SessionsOf
    <2> QED BY <2>2, <2>3
  <1>2. CASE FinishRelease(w)
    <2>1. /\ registry'[w] = registry[w] \ SessionsOf(sh) /\ task' = task
          /\ task[w][sh] = NoTask /\ runtime[w].pc = "releasing"
      BY <1>0, <1>2 DEF FinishRelease, TypeOK, shardVars
    <2>2. CASE s # sh
      <3>1. registry[w] \cap SessionsOf(s) \subseteq registry'[w]
        BY <2>1, <2>2 DEF SessionsOf
      <3>2. ~Cancelling(w, s)
        BY <2>2 DEF Cancelling
      <3> QED BY <2>1, <3>1, <3>2, HoldsStays
    <2>3. CASE s = sh
      BY <2>1, <2>3 DEF HoldsAll, HasTask
    <2> QED BY <2>2, <2>3
  <1> QED BY <1>1, <1>2

\* A worker's own steps.
LEMMA OwnStepHolds ==
    ASSUME InductiveInv, GroupInv, [Next]_vars, DataStays, evictions = 0,
           NEW w \in Worker, NEW s \in Shard, RestoreReady(w), HoldsAll(w, s),
           WorkerStep(w) \/ Start(w) \/ WorkerFails(w) \/ Crash(w)
    PROVE  HoldsAll(w, s)'
  <1> USE DEF ownerVars, shardVars
  <1>0. TypeOK
    BY DEF InductiveInv
  <1>1. ASSUME ForgetMemory(w) PROVE HoldsAll(w, s)'
    BY <1>0, <1>1 DEF ForgetMemory, HoldsAll, HasTask, TypeOK
  <1>2. ASSUME Fail(w) PROVE HoldsAll(w, s)'
    BY <1>1, <1>2 DEF Fail
  <1>3. CASE WorkerFails(w) \/ Crash(w)
    BY <1>1, <1>2, <1>3 DEF WorkerFails, Crash
  <1>4. ASSUME UNCHANGED <<task, runtime, registry>> PROVE HoldsAll(w, s)'
    BY <1>4, HoldsStays DEF Cancelling
  <1>5. CASE StopConsumer(w) \/ Start(w) \/ Join(w)
    BY <1>4, <1>5 DEF StopConsumer, Start, Join
  <1>6. CASE OnPartitionsRevoked(w) \/ OnPartitionsAssigned(w) \/ CallbackReturns(w)
    BY <1>4, <1>6 DEF OnPartitionsRevoked, OnPartitionsAssigned, CallbackReturns
  <1>7. ASSUME task' = task, registry' = registry, runtime[w].pc # "releasing"
        PROVE  HoldsAll(w, s)'
    BY <1>7, HoldsStays DEF Cancelling
  <1>8. CASE ReadSessions(w)
    BY <1>7, <1>8 DEF ReadSessions
  <1>9. CASE FinishAcquire(w) \/ FinishRelease(w)
    BY <1>9, RuntimeHolds
  <1>10. CASE \E x \in Shard : ShardStep(w, x)
    <2> PICK x \in Shard : ShardStep(w, x)
      BY <1>10
    <2>1. CASE BeginAcquire(w, x) \/ BeginRelease(w, x)
      <3>1. \/ Fail(w) \/ TakeChange(w, Acquired(x), "restoring")
            \/ TakeChange(w, Released(x), "releasing")
        BY <2>1 DEF BeginAcquire, BeginRelease
      <3>2. runtime[w].pc # "releasing"
        BY <2>1 DEF BeginAcquire, BeginRelease, Idle
      <3> QED BY <1>2, <1>7, <3>1, <3>2 DEF TakeChange
    <2>2. CASE TaskStops(w, x)
      <3>1. CASE x = s
        BY <1>0, <2>2, <3>1 DEF TaskStops, HoldsAll, HasTask, TypeOK
      <3>2. CASE x # s
        <4>1. task'[w][s] = task[w][s] /\ UNCHANGED <<runtime, registry>>
          BY <1>0, <2>2, <3>2 DEF TaskStops, TypeOK
        <4> QED BY <4>1, HoldsStays DEF Cancelling
      <3> QED BY <3>1, <3>2
    <2>3. CASE ResetPosition(w, x) \/ Dispatch(w, x) \/ DispatcherDies(w, x)
      BY <1>4, <2>3 DEF ResetPosition, Dispatch, DispatcherDies
    <2>4. CASE CommitRejected(w, x)
      BY <1>2, <2>4 DEF CommitRejected
    <2>5. ASSUME \/ TakeDelivery(w, x) \/ SaveSession(w, x) \/ CommitOffset(w, x)
                 \/ AckReturns(w, x)
                 \/ Activate(w, x) /\ task[w][x].pc = "saved"
          PROVE  HoldsAll(w, s)'
      <3>1. CASE x = s
        BY <2>5, <3>1, TaskHolds
      <3>2. CASE x # s
        <4>1. /\ task'[w][s] = task[w][s] /\ runtime' = runtime
              /\ registry[w] \subseteq registry'[w]
          BY <1>0, <2>5, <3>2, OtherTasksStay
        <4> QED BY <4>1, HoldsStays DEF Cancelling
      <3> QED BY <3>1, <3>2
    <2>6. CASE ActivateAndAck(w, x)
      <3>1. task[w][x].pc = "saved" /\ (Fail(w) \/ Activate(w, x))
        BY <2>6 DEF ActivateAndAck
      <3> QED BY <1>2, <2>5, <3>1
    <2> QED BY <2>1, <2>2, <2>3, <2>4, <2>5, <2>6 DEF ShardStep
  <1> QED BY <1>3, <1>5, <1>6, <1>8, <1>9, <1>10 DEF WorkerStep

\* Every step of the system keeps PreparedInv.
LEMMA NextPrepared ==
    ASSUME ConstantsAssumption, InductiveInv, OwnershipInv, [Next]_vars, NEW w \in Worker
    PROVE  PreparedInv(w)'
  <1>0. TypeOK /\ GroupInv /\ DataStays
    BY StepKeepsData DEF InductiveInv, OwnershipInv
  <1> SUFFICES ASSUME evictions' = 0
               PROVE  RestoreReady(w)' /\ \A s \in Shard : HoldsAll(w, s)'
    BY DEF PreparedInv, RestoreReady, HoldsAll
  <1>1. evictions = 0 /\ RestoreReady(w) /\ \A s \in Shard : HoldsAll(w, s)
    BY <1>0, EvictionsCount, PreparedParts DEF OwnershipInv
  <1>2. RestoreReady(w)'
    BY <1>0, <1>1, NextRestoreReady
  <1>3. ASSUME NEW s \in Shard PROVE HoldsAll(w, s)'
    <2>0. ASSUME task'[w] = task[w], runtime'[w] = runtime[w], registry'[w] = registry[w]
          PROVE  HoldsAll(w, s)'
      BY <1>0, <1>1, <2>0, HoldsStays DEF Cancelling
    <2>1. CASE UNCHANGED vars
      BY <2>0, <2>1 DEF vars, shardVars
    <2>2. CASE (\E e \in Event : Publish(e)) \/ CoordinatorStep \/ \E v \in Worker : Evict(v)
      BY <2>0, <2>2, PlacesStay
    <2>3. CASE \E v \in Worker : WorkerStep(v) \/ Start(v) \/ WorkerFails(v) \/ Crash(v)
      <3> PICK v \in Worker : WorkerStep(v) \/ Start(v) \/ WorkerFails(v) \/ Crash(v)
        BY <2>3
      <3>1. CASE v # w
        BY <1>0, <2>0, <3>1, OthersUntouched DEF Untouched
      <3>2. CASE v = w
        BY <1>0, <1>1, <3>2, OwnStepHolds
      <3> QED BY <3>1, <3>2
    <2> QED BY <2>1, <2>2, <2>3 DEF Next, Environment
  <1> QED BY <1>2, <1>3

-----------------------------------------------------------------------------
(* What the group promises in every execution.                             *)

\* The generations, the commits and the sessions of the owners are as
\* OwnershipInv says, for any number of workers, shards, crashes and evictions.
THEOREM OwnershipHolds == Spec => []OwnershipInv
  <1>1. Init => OwnershipInv
    <2> SUFFICES ASSUME Init PROVE OwnershipInv
      OBVIOUS
    <2>1. \A w \in Worker : /\ ~Running(w) /\ runtime[w] = Idle /\ assigned[w] = {}
                            /\ assignment[w] = {}
                            /\ \A s \in Shard : task[w][s] = NoTask
      BY DEF Init, Running
    <2>2. joined = {} /\ members = {}
      BY DEF Init
    <2>3. GroupInv
      BY <2>1, <2>2 DEF GroupInv, GenerationInv, FollowInv, Owning
    <2>4. \A w \in Worker : PreparedInv(w)
      BY <2>1 DEF PreparedInv, HasTask, Idle
    <2> QED BY <2>3, <2>4 DEF OwnershipInv
  <1>2. InductiveInv /\ OwnershipInv /\ [Next]_vars => OwnershipInv'
    <2> SUFFICES ASSUME InductiveInv, OwnershipInv, [Next]_vars PROVE OwnershipInv'
      OBVIOUS
    <2>0. ConstantsAssumption /\ GroupInv
      BY ConstantsAssumption DEF OwnershipInv
    <2>1. InductiveInv' /\ TypeOK'
      BY <2>0, NextInductive DEF InductiveInv
    <2>2. GroupInv'
      BY <2>0, <2>1, NextGeneration, NextFollow DEF GroupInv
    <2>3. \A w \in Worker : PreparedInv(w)'
      BY <2>0, NextPrepared
    <2> QED BY <2>2, <2>3 DEF OwnershipInv
  <1> QED BY <1>1, <1>2, Inductive, PTL DEF Spec

\* As long as the coordinator evicts nobody who still works, no session is
\* held, and no shard consumed, by two workers at once, through every
\* rebalance, crash and restart.
THEOREM OneOwnerOfAShard == Spec => []OneOwner
  <1>1. InductiveInv /\ OwnershipInv => OneOwner
    <2> SUFFICES ASSUME InductiveInv, OwnershipInv, evictions = 0,
                        NEW v \in Worker, NEW w \in Worker, v # w
                 PROVE  /\ registry[v] \cap registry[w] = {}
                        /\ \A s \in Shard : ~(HasTask(v, s) /\ HasTask(w, s))
      BY DEF OneOwner
    <2>1. GroupInv /\ TypeOK
      BY DEF OwnershipInv, InductiveInv
    <2>2. ASSUME NEW x \in Worker, Owning(x) PROVE x \in members
      BY <2>1, <2>2 DEF GroupInv, GenerationInv
    <2>3. ASSUME NEW s \in Shard, HasTask(v, s), HasTask(w, s) PROVE FALSE
      BY <2>1, <2>2, <2>3, TaskOwns, SoleOwner
    <2>4. ASSUME NEW x \in Worker, NEW e \in registry[x]
          PROVE  Owning(x) /\ ShardOf[e] \in assigned[x]
      <3>1. Running(x)
        BY <2>4 DEF InductiveInv, LifecycleInv
      <3> QED BY <2>4, <3>1 DEF InductiveInv, HoldingsInv, Owning
    <2>5. ASSUME NEW e \in registry[v], e \in registry[w] PROVE FALSE
      <3>1. ShardOf[e] \in Shard
        BY <2>1, <2>4 DEF TypeOK
      <3> QED BY <2>1, <2>2, <2>4, <2>5, <3>1, SoleOwner
    <2> QED BY <2>3, <2>5
  <1> QED BY <1>1, Inductive, OwnershipHolds, PTL

\* A worker that consumes a shard holds every durable session of the shard:
\* the acquire restores them before the task starts, and meanwhile nobody else
\* saves one.
THEOREM OwnersHoldSessions == Spec => []OwnerHasAllSessions
  <1>1. OwnershipInv => OwnerHasAllSessions
    BY DEF OwnershipInv, PreparedInv, OwnerHasAllSessions
  <1> QED BY <1>1, OwnershipHolds, PTL

\* The committed offset of a shard never goes back, evictions included: a
\* commit comes from a member, and a member of the current generation goes on
\* from what is committed.
THEOREM CommitsAdvance == Spec => CommitNeverRegresses
  <1>1. InductiveInv /\ OwnershipInv /\ [Next]_vars =>
            [\A s \in Shard : committed'[s] >= committed[s]]_vars
    <2> SUFFICES ASSUME InductiveInv, OwnershipInv, [Next]_vars, NEW s \in Shard
                 PROVE  committed'[s] >= committed[s]
      OBVIOUS
    <2>1. TypeOK /\ committed[s] \in Nat \cup {NoOffset}
      BY DEF InductiveInv, TypeOK
    <2>2. CASE committed'[s] = committed[s]
      BY <2>1, <2>2 DEF NoOffset
    <2>3. CASE \E w \in Worker : CommitOffset(w, s)
      <3> PICK w \in Worker : CommitOffset(w, s)
        BY <2>3
      <3>1. /\ committed'[s] = Taken(w, s)
            /\ w \in members /\ s \in assigned[w] /\ Streaming(w, s)
        BY CommitIsTaken
      <3>2. position[w][s] \in Nat \cup {NoOffset} /\ queue[w][s] \in Seq(Nat)
        BY <2>1 DEF TypeOK
      <3>3. Taken(w, s) \in Int /\ committed[s] \in Int
        BY <2>1, <3>2, TakenNumber DEF Taken, NoOffset
      <3>4. committed[s] <= Taken(w, s)
        BY <3>1 DEF OwnershipInv, GroupInv, FollowInv
      <3> QED BY <3>1, <3>3, <3>4
    <2> QED BY <2>1, <2>2, <2>3, CommitSteps
  <1> QED BY <1>1, Inductive, OwnershipHolds, PTL DEF Spec, CommitNeverRegresses
=============================================================================

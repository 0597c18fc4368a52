------------------------- MODULE KafkaPricingWorker -------------------------
(***************************************************************************)
(* The pricing workers of one Kafka consumer group: the rebalance listener *)
(* (KafkaPricingShardOwnership), the shard runtime                         *)
(* (run_owned_pricing_shards), the dispatcher and the per-shard queues     *)
(* (KafkaRfqDomainEventsSubscriber), the use cases that register, restore  *)
(* and release pricing sessions, and the Kafka broker they talk to.        *)
(*                                                                         *)
(* A worker is one asyncio process.  Code between two awaits is one        *)
(* action; every await at which another task, the broker or the database   *)
(* can get ahead separates two actions.                                    *)
(*                                                                         *)
(* Offsets count from 1: entry i of log[s] is the record at Kafka offset   *)
(* i - 1, so committing i is what the code calls commit(offset + 1), and a *)
(* position p means that the next record to be fetched is entry p + 1.     *)
(***************************************************************************)
EXTENDS Integers, Sequences, FiniteSets

CONSTANTS
    Worker,         \* pricing worker processes
    Shard,          \* partitions of the topic, one PricingShardId each
    NoShard,        \* the runtime works on no shard
    Event,          \* RFQ registrations; one pricing session per event
    ShardOf,        \* resolver and partitioner: the shard of each event
    Unreadable,     \* the events _deserialize rejects
    InitialCommit,  \* committed offset of a shard before the first commit
    MaxLog,         \* bound: records per shard
    MaxCopies,      \* bound: copies of one event (the outbox may republish)
    MaxFailures,    \* bound: crashes, errors and shutdowns of workers
    MaxEvictions    \* bound: live members the coordinator times out

NoOffset == -1

ASSUME ConstantsAssumption ==
    /\ ShardOf \in [Event -> Shard]
    /\ NoShard \notin Shard
    /\ Unreadable \subseteq Event
    /\ InitialCommit \in {0, NoOffset}
    /\ MaxLog \in Nat /\ MaxCopies \in Nat
    /\ MaxFailures \in Nat /\ MaxEvictions \in Nat

VARIABLES
    log,            \* Kafka: the records of each shard
    committed,      \* Kafka: committed offset of the group, or NoOffset
    rebalancing,    \* coordinator: it waits for the members to join
    members,        \* coordinator: the members it knows
    joined,         \* coordinator: members that joined the next generation
    assignment,     \* coordinator: the assignment it last handed out
    saved,          \* PostgreSQL: events whose session row is committed
    status,         \* per worker: "down", "running" or "stopping"
    callback,       \* per worker: where the coordination routine is
    assigned,       \* per worker: the consumer's assignment
    mailbox,        \* per worker: KafkaPricingShardOwnership._changes
    completions,    \* per worker: the futures of _completions not yet done
    runtime,        \* per worker: run_owned_pricing_shards
    task,           \* per worker and shard: shard_tasks
    queue,          \* per worker and shard: _queues, as offsets
    pendings,       \* per worker and shard: _pendings, as offsets
    position,       \* per worker and shard: next fetch, or NoOffset
    dispatching,    \* per worker: the dispatcher task is alive
    registry,       \* per worker: InMemoryPricingSessionStore
    failures,       \* counted against MaxFailures
    evictions       \* counted against MaxEvictions

groupVars == <<rebalancing, members, joined, assignment>>
ownerVars == <<callback, assigned, mailbox, completions>>
shardVars == <<task, queue, pendings>>
faultVars == <<failures, evictions>>
vars == <<log, committed, groupVars, saved, status, ownerVars, runtime,
          shardVars, position, dispatching, registry, faultVars>>

-----------------------------------------------------------------------------
Acquired(s) == [kind |-> "acquired", shard |-> s]
Released(s) == [kind |-> "released", shard |-> s]
Change == [kind : {"acquired", "released"}, shard : Shard]

Idle == [pc |-> "idle", shard |-> NoShard, snapshot |-> {}]
NoTask == [pc |-> "none", offset |-> 0]
Waiting == [pc |-> "waiting", offset |-> 0]

SessionsOf(s) == {e \in Event : ShardOf[e] = s}
Copies(e) == Cardinality({i \in DOMAIN log[ShardOf[e]] : log[ShardOf[e]][i] = e})

Running(w) == status[w] = "running"

\* Between task.cancel() and the end of the task: no code of the task runs,
\* but what it has asked of the database or of the broker may still happen.
Cancelling(w, s) == runtime[w].pc = "releasing" /\ runtime[w].shard = s

\* From the revoke callback to the next assignment getone() returns nothing.
Consuming(w) == Running(w) /\ callback[w] \in {"assigning", "stable"}

Init ==
    /\ log = [s \in Shard |-> <<>>]
    /\ committed = [s \in Shard |-> InitialCommit]
    /\ rebalancing = FALSE /\ members = {} /\ joined = {}
    /\ assignment = [w \in Worker |-> {}]
    /\ saved = {}
    /\ status = [w \in Worker |-> "down"]
    /\ callback = [w \in Worker |-> "none"]
    /\ assigned = [w \in Worker |-> {}]
    /\ mailbox = [w \in Worker |-> {}]
    /\ completions = [w \in Worker |-> {}]
    /\ runtime = [w \in Worker |-> Idle]
    /\ task = [w \in Worker |-> [s \in Shard |-> NoTask]]
    /\ queue = [w \in Worker |-> [s \in Shard |-> <<>>]]
    /\ pendings = [w \in Worker |-> [s \in Shard |-> {}]]
    /\ position = [w \in Worker |-> [s \in Shard |-> NoOffset]]
    /\ dispatching = [w \in Worker |-> FALSE]
    /\ registry = [w \in Worker |-> {}]
    /\ failures = 0 /\ evictions = 0

-----------------------------------------------------------------------------
(* The topic and the consumer group, as the workers see them.              *)

\* The outbox publisher appends a record, perhaps one it has sent before.
Publish(e) ==
    /\ Len(log[ShardOf[e]]) < MaxLog
    /\ Copies(e) < MaxCopies
    /\ log' = [log EXCEPT ![ShardOf[e]] = Append(@, e)]
    /\ UNCHANGED <<committed, groupVars, saved, status, ownerVars, runtime,
                   shardVars, position, dispatching, registry, faultVars>>

\* The coordinator no longer counts w: every other member has to rejoin.
RemoveMember(w) ==
    /\ members' = members \ {w}
    /\ joined' = joined \ {w}
    /\ rebalancing' = (rebalancing \/ w \in members)
    /\ UNCHANGED assignment

\* JoinGroup: at the start, after the revoke callback, and again when the
\* coordinator starts over before w has received its assignment.
Join(w) ==
    /\ Running(w) /\ callback[w] = "joining"
    /\ w \notin members \/ (rebalancing /\ w \notin joined)
    /\ members' = members \cup {w}
    /\ joined' = joined \cup {w}
    /\ rebalancing' = TRUE
    /\ UNCHANGED <<log, committed, assignment, saved, status, ownerVars, runtime,
                   shardVars, position, dispatching, registry, faultVars>>

\* Every member the coordinator knows has joined: it assigns the shards.
CompleteRebalance ==
    /\ rebalancing
    /\ members # {} /\ members \subseteq joined
    /\ \E f \in [Shard -> members] :
           assignment' = [w \in Worker |-> {s \in Shard : f[s] = w}]
    /\ rebalancing' = FALSE
    /\ joined' = {}
    /\ UNCHANGED <<log, committed, members, saved, status, ownerVars, runtime,
                   shardVars, position, dispatching, registry, faultVars>>

\* Session or rebalance timeout of a live member; it has not noticed yet.
Evict(w) ==
    /\ Running(w) /\ w \in members
    /\ evictions < MaxEvictions
    /\ evictions' = evictions + 1
    /\ RemoveMember(w)
    /\ UNCHANGED <<log, committed, saved, status, ownerVars, runtime,
                   shardVars, position, dispatching, registry, failures>>

\* Timeout of a member whose process is gone or no longer polls.
DropMember(w) ==
    /\ ~Running(w) /\ w \in members
    /\ RemoveMember(w)
    /\ UNCHANGED <<log, committed, saved, status, ownerVars, runtime,
                   shardVars, position, dispatching, registry, faultVars>>

-----------------------------------------------------------------------------
(* Rebalance listener: the callbacks wait for the runtime.                 *)

\* _publish_and_wait: one future and one mailbox entry per change.
PublishChanges(w, changes) ==
    /\ mailbox' = [mailbox EXCEPT ![w] = changes]
    /\ completions' = [completions EXCEPT ![w] = changes]

\* on_partitions_revoked, when a heartbeat says that the group rebalances or
\* that it no longer knows this member.
OnPartitionsRevoked(w) ==
    /\ Running(w) /\ callback[w] = "stable"
    /\ rebalancing \/ w \notin members
    /\ callback' = [callback EXCEPT ![w] = "revoking"]
    /\ PublishChanges(w, {Released(s) : s \in assigned[w]})
    /\ UNCHANGED <<log, committed, groupVars, saved, status, assigned, runtime,
                   shardVars, position, dispatching, registry, faultVars>>

\* Mutant: the positions of an earlier assignment are used on.
OnPartitionsAssignedKeepsPositions(w) ==
    /\ Running(w) /\ callback[w] = "joining"
    /\ w \in members /\ ~rebalancing
    /\ callback' = [callback EXCEPT ![w] = "assigning"]
    /\ assigned' = [assigned EXCEPT ![w] = assignment[w]]
    /\ PublishChanges(w, {Acquired(s) : s \in assignment[w]})
    /\ UNCHANGED <<log, committed, groupVars, saved, status, runtime,
                   shardVars, position, dispatching, registry, faultVars>>

\* on_partitions_assigned: the fetch positions start from the broker again.
OnPartitionsAssigned(w) ==
    /\ Running(w) /\ callback[w] = "joining"
    /\ w \in members /\ ~rebalancing
    /\ callback' = [callback EXCEPT ![w] = "assigning"]
    /\ assigned' = [assigned EXCEPT ![w] = assignment[w]]
    /\ position' = [position EXCEPT ![w] = [s \in Shard |-> NoOffset]]
    /\ PublishChanges(w, {Acquired(s) : s \in assignment[w]})
    /\ UNCHANGED <<log, committed, groupVars, saved, status, runtime,
                   shardVars, dispatching, registry, faultVars>>

\* gather(*futures) returns, and with it the callback.
CallbackReturns(w) ==
    /\ Running(w) /\ callback[w] \in {"revoking", "assigning"}
    /\ completions[w] = {}
    /\ callback' = [callback EXCEPT ![w] =
                        IF @ = "revoking" THEN "joining" ELSE "stable"]
    /\ assigned' = [assigned EXCEPT ![w] =
                        IF callback[w] = "revoking" THEN {} ELSE @]
    /\ UNCHANGED <<log, committed, groupVars, saved, status, mailbox,
                   completions, runtime, shardVars, position, dispatching,
                   registry, faultVars>>

\* complete(change): the runtime has done its part.
Complete(w, change) ==
    completions' = [completions EXCEPT ![w] = @ \ {change}]

-----------------------------------------------------------------------------
(* The end of a process.                                                   *)

\* What was in the memory of w and nobody reads any more.
ForgetMemory(w) ==
    /\ mailbox' = [mailbox EXCEPT ![w] = {}]
    /\ runtime' = [runtime EXCEPT ![w] = Idle]
    /\ task' = [task EXCEPT ![w] = [s \in Shard |-> NoTask]]
    /\ queue' = [queue EXCEPT ![w] = [s \in Shard |-> <<>>]]
    /\ pendings' = [pendings EXCEPT ![w] = [s \in Shard |-> {}]]
    /\ position' = [position EXCEPT ![w] = [s \in Shard |-> NoOffset]]
    /\ dispatching' = [dispatching EXCEPT ![w] = FALSE]
    /\ registry' = [registry EXCEPT ![w] = {}]

\* An exception leaves a task: the TaskGroups cancel the others, main ends
\* and consumer.stop() begins; a callback that waits keeps waiting.
Fail(w) ==
    /\ status' = [status EXCEPT ![w] = "stopping"]
    /\ ForgetMemory(w)
    /\ UNCHANGED <<log, committed, groupVars, saved, callback, assigned,
                   completions>>

\* A database or broker error out of restore, save or commit, or a signal.
WorkerFails(w) ==
    /\ Running(w)
    /\ failures < MaxFailures
    /\ failures' = failures + 1
    /\ Fail(w)
    /\ UNCHANGED evictions

\* consumer.stop(): it waits for the coordination routine, then leaves.
StopConsumer(w) ==
    /\ status[w] = "stopping"
    /\ completions[w] = {}
    /\ status' = [status EXCEPT ![w] = "down"]
    /\ callback' = [callback EXCEPT ![w] = "none"]
    /\ assigned' = [assigned EXCEPT ![w] = {}]
    /\ RemoveMember(w)
    /\ UNCHANGED <<log, committed, saved, mailbox, completions, runtime,
                   shardVars, position, dispatching, registry, faultVars>>

\* The process is killed; the coordinator will find out by timeout.
Crash(w) ==
    /\ status[w] # "down"
    /\ failures < MaxFailures
    /\ failures' = failures + 1
    /\ status' = [status EXCEPT ![w] = "down"]
    /\ callback' = [callback EXCEPT ![w] = "none"]
    /\ assigned' = [assigned EXCEPT ![w] = {}]
    /\ completions' = [completions EXCEPT ![w] = {}]
    /\ ForgetMemory(w)
    /\ UNCHANGED <<log, committed, groupVars, saved, evictions>>

\* A new process; its predecessor's membership has timed out.
Start(w) ==
    /\ status[w] = "down" /\ w \notin members
    /\ status' = [status EXCEPT ![w] = "running"]
    /\ callback' = [callback EXCEPT ![w] = "joining"]
    /\ dispatching' = [dispatching EXCEPT ![w] = TRUE]
    /\ UNCHANGED <<log, committed, groupVars, saved, assigned, mailbox,
                   completions, runtime, shardVars, position, registry, faultVars>>

-----------------------------------------------------------------------------
(* Shard runtime: one ownership change at a time.                          *)

\* The runtime takes a change out of the mailbox and starts to work on it.
TakeChange(w, change, pc) ==
    /\ mailbox' = [mailbox EXCEPT ![w] = @ \ {change}]
    /\ runtime' = [runtime EXCEPT ![w] =
           [pc |-> pc, shard |-> change.shard, snapshot |-> {}]]
    /\ UNCHANGED <<log, committed, groupVars, saved, status, callback, assigned,
                   completions, shardVars, position, dispatching, registry>>

\* case PricingShardAcquired, up to the read of the sessions.
BeginAcquire(w, s) ==
    /\ Running(w) /\ runtime[w] = Idle
    /\ Acquired(s) \in mailbox[w]
    /\ IF task[w][s] # NoTask
       THEN Fail(w)                              \* "Shard already acquired"
       ELSE TakeChange(w, Acquired(s), "restoring")
    /\ UNCHANGED faultVars

\* Mutant: every active session is restored, whatever its shard.
ReadSessionsUnfiltered(w) ==
    /\ Running(w) /\ runtime[w].pc = "restoring"
    /\ runtime' = [runtime EXCEPT ![w] =
           [pc |-> "restored", shard |-> runtime[w].shard, snapshot |-> saved]]
    /\ UNCHANGED <<log, committed, groupVars, saved, status, ownerVars,
                   shardVars, position, dispatching, registry, faultVars>>

\* RestorePricingShardUseCase: list_active, and the filter by shard.
ReadSessions(w) ==
    /\ Running(w) /\ runtime[w].pc = "restoring"
    /\ runtime' = [runtime EXCEPT ![w] =
           [pc |-> "restored", shard |-> runtime[w].shard,
            snapshot |-> saved \cap SessionsOf(runtime[w].shard)]]
    /\ UNCHANGED <<log, committed, groupVars, saved, status, ownerVars,
                   shardVars, position, dispatching, registry, faultVars>>

\* Mutant: the shard task starts without the sessions that were restored.
FinishAcquireUnrestored(w) ==
    /\ Running(w) /\ runtime[w].pc = "restored"
    /\ task' = [task EXCEPT ![w][runtime[w].shard] = Waiting]
    /\ Complete(w, Acquired(runtime[w].shard))
    /\ runtime' = [runtime EXCEPT ![w] = Idle]
    /\ UNCHANGED <<log, committed, groupVars, saved, status, callback, assigned,
                   mailbox, queue, pendings, position, dispatching, registry,
                   faultVars>>

\* The sessions go into the registry, the shard task starts, complete().
FinishAcquire(w) ==
    /\ Running(w) /\ runtime[w].pc = "restored"
    /\ registry' = [registry EXCEPT ![w] = @ \cup runtime[w].snapshot]
    /\ task' = [task EXCEPT ![w][runtime[w].shard] = Waiting]
    /\ Complete(w, Acquired(runtime[w].shard))
    /\ runtime' = [runtime EXCEPT ![w] = Idle]
    /\ UNCHANGED <<log, committed, groupVars, saved, status, callback, assigned,
                   mailbox, queue, pendings, position, dispatching, faultVars>>

\* case PricingShardReleased, up to task.cancel().
BeginRelease(w, s) ==
    /\ Running(w) /\ runtime[w] = Idle
    /\ Released(s) \in mailbox[w]
    /\ TakeChange(w, Released(s), "releasing")
    /\ UNCHANGED faultVars

\* Mutant: subscribe has no finally.
TaskStopsUncleaned(w, s) ==
    /\ Running(w) /\ Cancelling(w, s)
    /\ task[w][s] # NoTask
    /\ task' = [task EXCEPT ![w][s] = NoTask]
    /\ UNCHANGED <<log, committed, groupVars, saved, status, ownerVars, runtime,
                   queue, pendings, position, dispatching, registry, faultVars>>

\* CancelledError ends the task; the finally of subscribe drops the queue and
\* the deliveries that were not acknowledged.
TaskStops(w, s) ==
    /\ Running(w) /\ Cancelling(w, s)
    /\ task[w][s] # NoTask
    /\ task' = [task EXCEPT ![w][s] = NoTask]
    /\ queue' = [queue EXCEPT ![w][s] = <<>>]
    /\ pendings' = [pendings EXCEPT ![w][s] = {}]
    /\ UNCHANGED <<log, committed, groupVars, saved, status, ownerVars, runtime,
                   position, dispatching, registry, faultVars>>

\* Mutant: a release that ends without complete().
FinishReleaseIncomplete(w) ==
    /\ Running(w) /\ runtime[w].pc = "releasing"
    /\ task[w][runtime[w].shard] = NoTask
    /\ registry' = [registry EXCEPT ![w] = @ \ SessionsOf(runtime[w].shard)]
    /\ runtime' = [runtime EXCEPT ![w] = Idle]
    /\ UNCHANGED <<log, committed, groupVars, saved, status, ownerVars,
                   shardVars, position, dispatching, faultVars>>

\* await task has returned: ReleasePricingShardUseCase, complete().
FinishRelease(w) ==
    /\ Running(w) /\ runtime[w].pc = "releasing"
    /\ task[w][runtime[w].shard] = NoTask
    /\ registry' = [registry EXCEPT ![w] = @ \ SessionsOf(runtime[w].shard)]
    /\ Complete(w, Released(runtime[w].shard))
    /\ runtime' = [runtime EXCEPT ![w] = Idle]
    /\ UNCHANGED <<log, committed, groupVars, saved, status, callback, assigned,
                   mailbox, shardVars, position, dispatching, faultVars>>

-----------------------------------------------------------------------------
(* Dispatcher.                                                             *)

\* A new assignment is fetched from the committed offset; without one, from
\* the end of the log (auto_offset_reset is left at its default, "latest").
ResetPosition(w, s) ==
    /\ Consuming(w) /\ w \in members
    /\ s \in assigned[w] /\ position[w][s] = NoOffset
    /\ position' = [position EXCEPT ![w][s] =
           IF committed[s] = NoOffset THEN Len(log[s]) ELSE committed[s]]
    /\ UNCHANGED <<log, committed, groupVars, saved, status, ownerVars, runtime,
                   shardVars, dispatching, registry, faultVars>>

HasNext(w, s) ==
    /\ Consuming(w) /\ dispatching[w]
    /\ s \in assigned[w]
    /\ position[w][s] # NoOffset /\ position[w][s] < Len(log[s])

\* One turn of run(): record the delivery, put it into the shard's queue.
Dispatch(w, s) ==
    LET o == position[w][s] + 1 IN
    /\ HasNext(w, s)
    /\ log[s][o] \notin Unreadable
    /\ pendings' = [pendings EXCEPT ![w][s] = @ \cup {o}]
    /\ queue' = [queue EXCEPT ![w][s] = Append(@, o)]
    /\ position' = [position EXCEPT ![w][s] = o]
    /\ UNCHANGED <<log, committed, groupVars, saved, status, ownerVars, runtime,
                   task, dispatching, registry, faultVars>>

\* _deserialize raises: the dispatcher task ends and nobody awaits it.
DispatcherDies(w, s) ==
    /\ HasNext(w, s)
    /\ log[s][position[w][s] + 1] \in Unreadable
    /\ dispatching' = [dispatching EXCEPT ![w] = FALSE]
    /\ UNCHANGED <<log, committed, groupVars, saved, status, ownerVars, runtime,
                   shardVars, position, registry, faultVars>>

-----------------------------------------------------------------------------
(* Shard task: handle, then acknowledge, one delivery at a time.           *)

EventAt(s, o) == log[s][o]

\* The task goes on with its delivery.
Advance(w, s, pc) ==
    task' = [task EXCEPT ![w][s] = [pc |-> pc, offset |-> task[w][s].offset]]

\* Mutant: the delivery is acknowledged before its session is saved.
TakeDeliveryAckFirst(w, s) ==
    /\ Running(w) /\ ~Cancelling(w, s)
    /\ task[w][s] = Waiting /\ queue[w][s] # <<>>
    /\ task' = [task EXCEPT ![w][s] =
           [pc |-> "committing", offset |-> Head(queue[w][s])]]
    /\ queue' = [queue EXCEPT ![w][s] = Tail(@)]
    /\ UNCHANGED <<log, committed, groupVars, saved, status, ownerVars, runtime,
                   pendings, position, dispatching, registry, faultVars>>

\* queue.get() returns, the handler starts to save the session.
TakeDelivery(w, s) ==
    /\ Running(w) /\ ~Cancelling(w, s)
    /\ task[w][s] = Waiting /\ queue[w][s] # <<>>
    /\ task' = [task EXCEPT ![w][s] =
           [pc |-> "saving", offset |-> Head(queue[w][s])]]
    /\ queue' = [queue EXCEPT ![w][s] = Tail(@)]
    /\ UNCHANGED <<log, committed, groupVars, saved, status, ownerVars, runtime,
                   pendings, position, dispatching, registry, faultVars>>

\* The database commits the session.
SaveSession(w, s) ==
    /\ Running(w) /\ task[w][s].pc = "saving"
    /\ saved' = saved \cup {EventAt(s, task[w][s].offset)}
    /\ Advance(w, s, "saved")
    /\ UNCHANGED <<log, committed, groupVars, status, ownerVars, runtime, queue,
                   pendings, position, dispatching, registry, faultVars>>

\* Mutant: ack clears all of _pendings.
ActivateClearsPendings(w, s) ==
    /\ registry' = [registry EXCEPT ![w] = @ \cup {EventAt(s, task[w][s].offset)}]
    /\ pendings' = [pendings EXCEPT ![w][s] = {}]
    /\ Advance(w, s, "committing")
    /\ UNCHANGED <<log, committed, groupVars, saved, status, ownerVars, runtime,
                   queue, position, dispatching>>

\* The registry gets the session; the market is never complete, so the
\* handler returns, and ack takes the delivery out of _pendings.
Activate(w, s) ==
    LET o == task[w][s].offset IN
    /\ registry' = [registry EXCEPT ![w] = @ \cup {EventAt(s, o)}]
    /\ pendings' = [pendings EXCEPT ![w][s] = @ \ {o}]
    /\ Advance(w, s, "committing")
    /\ UNCHANGED <<log, committed, groupVars, saved, status, ownerVars, runtime,
                   queue, position, dispatching>>

ActivateAndAck(w, s) ==
    /\ Running(w) /\ ~Cancelling(w, s)
    /\ task[w][s].pc = "saved"
    /\ IF task[w][s].offset \notin pendings[w][s]
       THEN Fail(w)                      \* "Unknown RFQ domain event delivery"
       ELSE Activate(w, s)
    /\ UNCHANGED faultVars

\* Mutant: a commit is taken from anybody.
CommitOffsetUnfenced(w, s) ==
    /\ Running(w) /\ task[w][s].pc = "committing"
    /\ committed' = [committed EXCEPT ![s] = task[w][s].offset]
    /\ Advance(w, s, "committed")
    /\ UNCHANGED <<log, groupVars, saved, status, ownerVars, runtime, queue,
                   pendings, position, dispatching, registry, faultVars>>

\* The coordinator stores the offset of a member it knows.
CommitOffset(w, s) ==
    /\ Running(w) /\ task[w][s].pc = "committing"
    /\ w \in members
    /\ committed' = [committed EXCEPT ![s] = task[w][s].offset]
    /\ Advance(w, s, "committed")
    /\ UNCHANGED <<log, groupVars, saved, status, ownerVars, runtime, queue,
                   pendings, position, dispatching, registry, faultVars>>

\* It rejects the commit of an evicted one, and commit() raises.
CommitRejected(w, s) ==
    /\ Running(w) /\ ~Cancelling(w, s)
    /\ task[w][s].pc = "committing"
    /\ w \notin members
    /\ Fail(w)
    /\ UNCHANGED faultVars

\* commit() returns and the task waits for the next delivery.
AckReturns(w, s) ==
    /\ Running(w) /\ ~Cancelling(w, s)
    /\ task[w][s].pc = "committed"
    /\ task' = [task EXCEPT ![w][s] = Waiting]
    /\ UNCHANGED <<log, committed, groupVars, saved, status, ownerVars, runtime,
                   queue, pendings, position, dispatching, registry, faultVars>>

-----------------------------------------------------------------------------
ShardStep(w, s) ==
    \/ BeginAcquire(w, s) \/ BeginRelease(w, s) \/ TaskStops(w, s)
    \/ ResetPosition(w, s) \/ Dispatch(w, s) \/ DispatcherDies(w, s)
    \/ TakeDelivery(w, s) \/ SaveSession(w, s) \/ ActivateAndAck(w, s)
    \/ CommitOffset(w, s) \/ CommitRejected(w, s) \/ AckReturns(w, s)

WorkerStep(w) ==
    \/ Join(w) \/ OnPartitionsRevoked(w) \/ OnPartitionsAssigned(w)
    \/ CallbackReturns(w) \/ ReadSessions(w) \/ FinishAcquire(w)
    \/ FinishRelease(w) \/ StopConsumer(w)
    \/ \E s \in Shard : ShardStep(w, s)

CoordinatorStep == CompleteRebalance \/ \E w \in Worker : DropMember(w)

Environment ==
    \/ \E e \in Event : Publish(e)
    \/ \E w \in Worker : Start(w) \/ WorkerFails(w) \/ Crash(w) \/ Evict(w)

Next == CoordinatorStep \/ Environment \/ \E w \in Worker : WorkerStep(w)

Spec == Init /\ [][Next]_vars

\* The event loop runs every ready task and callback again and again, the
\* database and the broker answer, the coordinator enforces its timeouts.
\* Nothing makes a stopped worker start again, and no failure has to happen.
Fairness ==
    /\ WF_vars(CoordinatorStep)
    /\ \A w \in Worker : WF_vars(WorkerStep(w))

FairSpec == Spec /\ Fairness

-----------------------------------------------------------------------------
(* Properties.                                                             *)

TaskPc == {"none", "waiting", "saving", "saved", "committing", "committed"}
RuntimePc == {"idle", "restoring", "restored", "releasing"}

\* The variables have the types of the objects they stand for.
TypeOK ==
    /\ log \in [Shard -> Seq(Event)]
    /\ committed \in [Shard -> Nat \cup {NoOffset}]
    /\ rebalancing \in BOOLEAN
    /\ members \in SUBSET Worker /\ joined \in SUBSET members
    /\ assignment \in [Worker -> SUBSET Shard]
    /\ saved \in SUBSET Event
    /\ status \in [Worker -> {"down", "running", "stopping"}]
    /\ callback \in [Worker ->
           {"none", "joining", "assigning", "stable", "revoking"}]
    /\ assigned \in [Worker -> SUBSET Shard]
    /\ mailbox \in [Worker -> SUBSET Change]
    /\ completions \in [Worker -> SUBSET Change]
    /\ runtime \in [Worker -> [pc : RuntimePc, shard : Shard \cup {NoShard},
                               snapshot : SUBSET Event]]
    /\ task \in [Worker -> [Shard -> [pc : TaskPc, offset : Nat]]]
    /\ queue \in [Worker -> [Shard -> Seq(Nat)]]
    /\ pendings \in [Worker -> [Shard -> SUBSET Nat]]
    /\ position \in [Worker -> [Shard -> Nat \cup {NoOffset}]]
    /\ dispatching \in [Worker -> BOOLEAN]
    /\ registry \in [Worker -> SUBSET Event]
    /\ failures \in Nat /\ evictions \in Nat

\* The first n events of a shard have a committed session.
SavedUpTo(s, n) == \A i \in 1..n : i \in DOMAIN log[s] /\ log[s][i] \in saved

\* At-least-once processing: an offset is committed only when the session of
\* every event before it is durable (subscriber.ack comes after the handler,
\* and a queue that is dropped is fetched again from the committed offset).
CommittedIsSaved == \A s \in Shard : SavedUpTo(s, committed[s])

HasTask(w, s) == task[w][s] # NoTask
Busy(w, s) == task[w][s].pc \in {"saving", "saved", "committing", "committed"}

\* The last event of shard s that worker w has passed: everything after it is
\* in hand, in the queue, or will be fetched.
Passed(w, s) ==
    IF task[w][s].pc = "saving" THEN task[w][s].offset - 1
    ELSE IF Busy(w, s) THEN task[w][s].offset
    ELSE position[w][s] - Len(queue[w][s])

\* No event is jumped over: what a worker has passed is durable, whoever
\* saved it (rebalances, evictions and crashes included).
NothingSkipped ==
    \A w \in Worker, s \in Shard :
        HasTask(w, s) /\ position[w][s] # NoOffset => SavedUpTo(s, Passed(w, s))

\* The revoke callback returns only when the old owner holds nothing of its
\* shards any more: no session, no task, no delivery.
RevokeLeavesNothing ==
    \A w \in Worker :
        callback[w] = "joining" =>
            /\ registry[w] = {}
            /\ \A s \in Shard : /\ ~HasTask(w, s)
                                /\ queue[w][s] = <<>> /\ pendings[w][s] = {}

\* A waiting callback always has its change in the mailbox or in the hands of
\* a runtime that works on it: callback and runtime never wait on each other.
CallbackIsServed ==
    \A w \in Worker : Running(w) =>
        \A c \in completions[w] :
            \/ c \in mailbox[w] /\ (c.kind = "acquired" => ~HasTask(w, c.shard))
            \/ runtime[w].shard = c.shard /\ runtime[w] # Idle

\* A delivery that a task handles is known to ack.
DeliveryIsPending ==
    \A w \in Worker, s \in Shard :
        task[w][s].pc \in {"saving", "saved"} =>
            task[w][s].offset \in pendings[w][s]

\* No session is held, and no shard consumed, by two workers at once, as long
\* as the coordinator has evicted nobody who still works.
OneOwner ==
    evictions = 0 =>
        \A v, w \in Worker : v # w =>
            /\ registry[v] \cap registry[w] = {}
            /\ \A s \in Shard : ~(HasTask(v, s) /\ HasTask(w, s))

\* A worker that consumes a shard holds every durable session of the shard,
\* but for the one it is just saving.
OwnerHasAllSessions ==
    evictions = 0 =>
        \A w \in Worker, s \in Shard : HasTask(w, s) /\ ~Cancelling(w, s) =>
            \A e \in saved \cap SessionsOf(s) :
                \/ e \in registry[w]
                \/ task[w][s].pc = "saved" /\ EventAt(s, task[w][s].offset) = e

\* The committed offset of the group never goes back, not even when an old
\* owner is late.
CommitNeverRegresses ==
    [][\A s \in Shard : committed'[s] >= committed[s]]_vars

\* While some worker keeps running, every event that reaches the log is
\* handled and committed, and some worker holds its session.
EventuallyHandled ==
    (\E w \in Worker : <>[]Running(w)) =>
        \A s \in Shard, n \in 1..MaxLog :
            n <= Len(log[s]) ~>
                /\ committed[s] >= n
                /\ \E w \in Worker : HasTask(w, s) /\ log[s][n] \in registry[w]

\* cancel_pending: "for process shutdown; releases a callback that waits for
\* its future", so that a worker that stops comes to its end.
ShutdownReleasesCallback ==
    \A w \in Worker : status[w] = "stopping" ~> status[w] # "stopping"

\* subscribe: "a message without ack is not committed, so the new owner gets
\* it from Kafka again": while some worker keeps running, a delivery that a
\* worker took from Kafka is acknowledged in the end, by whoever owns it then.
UnackedIsRedelivered ==
    (\E w \in Worker : <>[]Running(w)) =>
        \A s \in Shard, n \in 1..MaxLog :
            (\E w \in Worker : n \in pendings[w][s]) ~> committed[s] >= n

-----------------------------------------------------------------------------
(* The inductive invariants.  InductiveInv carries TypeOK,                 *)
(* RevokeLeavesNothing, CallbackIsServed and DeliveryIsPending; DurableInv *)
(* carries CommittedIsSaved and NothingSkipped; OwnershipInv carries       *)
(* OneOwner, OwnerHasAllSessions and CommitNeverRegresses.                 *)

\* The change the runtime is working on.
InHand(w) ==
    IF runtime[w] = Idle THEN {}
    ELSE IF runtime[w].pc = "releasing" THEN {Released(runtime[w].shard)}
    ELSE {Acquired(runtime[w].shard)}

\* A process that does not run remembers nothing.
LifecycleInv(w) ==
    /\ Running(w) => callback[w] # "none"
    /\ status[w] = "down" => callback[w] = "none" /\ completions[w] = {}
    /\ ~Running(w) =>
        /\ mailbox[w] = {} /\ runtime[w] = Idle /\ registry[w] = {}
        /\ \A s \in Shard : /\ task[w][s] = NoTask /\ queue[w][s] = <<>>
                            /\ pendings[w][s] = {} /\ position[w][s] = NoOffset

\* While the callback waits, the changes it waits for are in the mailbox or
\* in hand; what is done with them is what the tasks show.
HandshakeInv(w) ==
    /\ completions[w] = mailbox[w] \cup InHand(w)
    /\ mailbox[w] \cap InHand(w) = {}
    /\ runtime[w] # Idle => runtime[w].shard \in Shard
    /\ callback[w] \in {"joining", "stable"} => completions[w] = {}
    /\ callback[w] = "joining" => \A s \in Shard : ~HasTask(w, s)
    /\ callback[w] = "stable" => \A s \in assigned[w] : HasTask(w, s)
    /\ callback[w] = "assigning" =>
        /\ completions[w] \subseteq {Acquired(s) : s \in assigned[w]}
        /\ \A s \in assigned[w] : HasTask(w, s) <=> Acquired(s) \notin completions[w]
    /\ callback[w] = "revoking" =>
        /\ completions[w] \subseteq {Released(s) : s \in assigned[w]}
        /\ \A s \in assigned[w] : HasTask(w, s) => Released(s) \in completions[w]
    /\ \A s \in Shard : HasTask(w, s) => s \in assigned[w]

\* What the process holds belongs to a shard it owns, and while the shards are
\* revoked to one whose release is not complete.
HoldingsInv(w) ==
    /\ runtime[w].snapshot \subseteq SessionsOf(runtime[w].shard)
    /\ \A e \in registry[w] :
        /\ ShardOf[e] \in assigned[w]
        /\ callback[w] # "joining"
        /\ callback[w] = "revoking" => Released(ShardOf[e]) \in completions[w]
    /\ \A s \in Shard : queue[w][s] # <<>> \/ pendings[w][s] # {} =>
        /\ s \in assigned[w]
        /\ callback[w] # "joining"
        /\ callback[w] = "revoking" => HasTask(w, s)

\* The position follows what the worker has: off the revoke callback, or as
\* long as the shard's task lives.
Streaming(w, s) ==
    position[w][s] # NoOffset /\ (Consuming(w) \/ HasTask(w, s))

\* The last delivery that left the queue.
Taken(w, s) == position[w][s] - Len(queue[w][s])

\* The queue of a shard is the stretch of the log before the fetch position,
\* and the delivery in hand is the one before the queue.
StreamInv(w, s) ==
    /\ position[w][s] = NoOffset => queue[w][s] = <<>> /\ ~Busy(w, s)
    /\ Streaming(w, s) =>
        /\ Taken(w, s) \in Nat /\ position[w][s] <= Len(log[s])
        /\ \A i \in 1..Len(queue[w][s]) :
               queue[w][s][i] = Taken(w, s) + i /\ queue[w][s][i] \in pendings[w][s]
        /\ Busy(w, s) => task[w][s].offset = Taken(w, s) /\ Taken(w, s) # 0
        /\ task[w][s].pc \in {"saving", "saved"} =>
               task[w][s].offset \in pendings[w][s]

\* Every record is in the log of its own shard, every commit inside the log.
LogInv ==
    \A s \in Shard : /\ \A i \in 1..Len(log[s]) : ShardOf[log[s][i]] = s
                     /\ committed[s] <= Len(log[s])

InductiveInv ==
    /\ TypeOK /\ LogInv
    /\ \A w \in Worker : LifecycleInv(w)
    /\ \A w \in Worker : Running(w) => HandshakeInv(w) /\ HoldingsInv(w)
    /\ \A w \in Worker, s \in Shard : StreamInv(w, s)

\* For a group whose offsets start at the beginning of the log: what is
\* committed, and what a worker has passed, is durable.
DurableInv ==
    /\ CommittedIsSaved
    /\ \A s \in Shard : committed[s] # NoOffset
    /\ \A w \in Worker, s \in Shard : Streaming(w, s) => SavedUpTo(s, Passed(w, s))

\* Worker w works with what it was assigned.
Owning(w) == Running(w) /\ callback[w] # "joining"

\* A member works with what the current generation gives it, and nobody else
\* has a share in that.  A worker that nobody evicts stays a member.
GenerationInv(w) ==
    /\ Owning(w) => w \notin joined
    /\ Owning(w) /\ w \in members => assigned[w] = assignment[w]
    /\ Owning(w) /\ evictions = 0 => w \in members

\* What a member goes on from is not behind what is committed: nobody but the
\* member commits the shard, and it has started from the committed offset.
FollowInv(w, s) ==
    w \in members /\ s \in assigned[w] /\ Streaming(w, s) =>
        committed[s] <= Taken(w, s)

\* The group: one generation of disjoint assignments at a time.
GroupInv ==
    /\ ~rebalancing => joined = {}
    /\ \A v, w \in Worker : v # w => assignment[v] \cap assignment[w] = {}
    /\ \A w \in Worker : GenerationInv(w)
    /\ \A w \in Worker, s \in Shard : FollowInv(w, s)

\* Between its read and its task an acquire misses no session, because nobody
\* else saves sessions of the shard; nor does the owner afterwards.
PreparedInv(w) ==
    evictions = 0 =>
        /\ runtime[w].pc = "restored" =>
               saved \cap SessionsOf(runtime[w].shard) \subseteq runtime[w].snapshot
        /\ \A s \in Shard : HasTask(w, s) /\ ~Cancelling(w, s) =>
               \A e \in saved \cap SessionsOf(s) :
                   \/ e \in registry[w]
                   \/ task[w][s].pc = "saved" /\ EventAt(s, task[w][s].offset) = e

\* What the group promises: it carries OneOwner, CommitNeverRegresses and,
\* with PreparedInv, OwnerHasAllSessions.
OwnershipInv == GroupInv /\ \A w \in Worker : PreparedInv(w)
=============================================================================

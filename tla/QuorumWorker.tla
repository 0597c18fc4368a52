---------------------------- MODULE QuorumWorker ----------------------------
(***************************************************************************)
(* The pricing workers on RabbitMQ quorum queues: the lease loop of        *)
(* ShardLease says which shards a worker has, the runtime                  *)
(* (run_owned_pricing_shards) restores and releases them, and a task per   *)
(* shard consumes the shard's queue through the iterator of                *)
(* RabbitMqQuorumRfqDomainEventsSubscriber, one channel per process.       *)
(*                                                                         *)
(* A message is the event it carries.  The order within a queue is left    *)
(* out: nothing that is checked depends on it.                             *)
(***************************************************************************)
EXTENDS ShardLease, Sequences

CONSTANTS
    Event,          \* RFQ registrations, one session each
    NoEvent,
    ShardOf,        \* StablePricingShardResolver, on both sides
    Unreadable,     \* the events _deserialize rejects
    MaxCopies       \* bound: how often one event is published

ASSUME QuorumAssumption ==
    /\ ShardOf \in [Event -> Shard]
    /\ NoEvent \notin Event
    /\ Unreadable \subseteq Event
    /\ MaxCopies \in Nat

VARIABLES
    published,      \* per event: messages the exchange routed and confirmed
    ready,          \* per shard: messages of the queue ready for delivery
    consumers,      \* per shard: registered consumers, the active one first
    unreturned,     \* per worker: unacknowledged messages without a consumer
    buffer,         \* per worker and shard: delivered to the open iterator
    task,           \* per worker and shard: shard_tasks
    phase,          \* per worker: how far the runtime is with its change
    snapshot,       \* per worker: what restore has read
    registry,       \* per worker: InMemoryPricingSessionRegistry
    saved           \* PostgreSQL: events whose session row is committed

brokerVars == <<published, ready, consumers, unreturned, buffer>>
runtimeVars == <<phase, snapshot>>
quorumVars == <<brokerVars, task, runtimeVars, registry, saved>>
vars == <<leaseVars, quorumVars>>

-----------------------------------------------------------------------------
NoTask == [pc |-> "none", event |-> NoEvent]

SessionsOf(s) == {e \in Event : ShardOf[e] = s}

\* A task that runs; "closing" is the iterator of one that has ended.
HasTask(w, s) == task[w][s].pc \notin {"none", "closing"}
Handling(w, s) == task[w][s].pc \in {"saving", "saved", "acking"}

\* The messages the broker has delivered to w and got no answer for.
Unacked(w) ==
    ({task[w][s].event : s \in Shard} \cup {buffer[w][s] : s \in Shard}
        \cup unreturned[w]) \ {NoEvent}

\* task.cancel() has been called: no code of the task runs any more.
Cancelled(w, s) == phase[w] = "cancelling" /\ change[w] = Released(s)

\* Mutant: every consumer of the queue gets deliveries.
ActiveAnyone(w, s) == \E i \in DOMAIN consumers[s] : consumers[s][i] = w

\* x-single-active-consumer: the consumer that registered first.
Active(w, s) == consumers[s] # <<>> /\ Head(consumers[s]) = w

Registered(w, s) == \E i \in DOMAIN consumers[s] : consumers[s][i] = w

\* A queue's consumers when w, which registers once at most, is gone.
Without(seq, w) ==
    IF \A i \in DOMAIN seq : seq[i] # w THEN seq
    ELSE LET p == CHOOSE i \in DOMAIN seq : seq[i] = w IN
         [i \in 1 .. Len(seq) - 1 |-> IF i < p THEN seq[i] ELSE seq[i + 1]]

Init ==
    /\ LeaseInit
    /\ published = [e \in Event |-> 0]
    /\ ready = [s \in Shard |-> {}]
    /\ consumers = [s \in Shard |-> <<>>]
    /\ unreturned = [w \in Worker |-> {}]
    /\ buffer = [w \in Worker |-> [s \in Shard |-> NoEvent]]
    /\ task = [w \in Worker |-> [s \in Shard |-> NoTask]]
    /\ phase = [w \in Worker |-> "idle"]
    /\ snapshot = [w \in Worker |-> {}]
    /\ registry = [w \in Worker |-> {}]
    /\ saved = {}

-----------------------------------------------------------------------------
(* Queues and connections, as the workers see them.                        *)

\* The outbox publisher sends an event, perhaps one that was handled before.
Publish(e) ==
    /\ published[e] < MaxCopies
    /\ e \notin ready[ShardOf[e]] /\ \A w \in Worker : e \notin Unacked(w)
    /\ published' = [published EXCEPT ![e] = @ + 1]
    /\ ready' = [ready EXCEPT ![ShardOf[e]] = @ \cup {e}]
    /\ UNCHANGED <<leaseVars, consumers, unreturned, buffer, task, runtimeVars,
                   registry, saved>>

\* The single active consumer gets the next message when it has none that is
\* unacknowledged (prefetch_count=1).
Deliver(w, s) ==
    /\ Up(w) /\ Active(w, s)
    /\ buffer[w][s] = NoEvent /\ task[w][s].event = NoEvent
    /\ \E e \in ready[s] :
        /\ ready' = [ready EXCEPT ![s] = @ \ {e}]
        /\ buffer' = [buffer EXCEPT ![w][s] = e]
    /\ UNCHANGED <<leaseVars, published, consumers, unreturned, task,
                   runtimeVars, registry, saved>>

\* The broker notices that the connection of an ended process is closed.
ConnectionCloses(w) ==
    /\ ~Up(w)
    /\ unreturned[w] # {} \/ \E s \in Shard : Registered(w, s)
    /\ consumers' = [s \in Shard |-> Without(consumers[s], w)]
    /\ ready' = [s \in Shard |-> ready[s] \cup (unreturned[w] \cap SessionsOf(s))]
    /\ unreturned' = [unreturned EXCEPT ![w] = {}]
    /\ UNCHANGED <<leaseVars, published, buffer, task, runtimeVars, registry, saved>>

-----------------------------------------------------------------------------
(* Processes and leases.                                                   *)

\* The memory of a process is gone; what it was sent stays unacknowledged.
ForgetMemory(w) ==
    /\ unreturned' = [unreturned EXCEPT ![w] = Unacked(w)]
    /\ buffer' = [buffer EXCEPT ![w] = [s \in Shard |-> NoEvent]]
    /\ task' = [task EXCEPT ![w] = [s \in Shard |-> NoTask]]
    /\ phase' = [phase EXCEPT ![w] = "idle"]
    /\ snapshot' = [snapshot EXCEPT ![w] = {}]
    /\ registry' = [registry EXCEPT ![w] = {}]
    /\ UNCHANGED <<published, ready, consumers, saved>>

\* A new process under the same worker_id, with a connection of its own.
Start(w) ==
    /\ StartLoop(w)
    /\ unreturned[w] = {} /\ \A s \in Shard : ~Registered(w, s)
    /\ UNCHANGED quorumVars

\* The process is killed, or an exception from the database, the broker or a
\* task ends its TaskGroups.
ProcessEnds(w) == EndLoop(w) /\ ForgetMemory(w)

\* A step of changes(), which may end in "Shard already acquired".
Lease(w) ==
    /\ LoopStep(w)
    /\ IF loop'[w] = "off" THEN ForgetMemory(w) ELSE UNCHANGED quorumVars

Lapse(s) ==
    /\ LapseUnheld(s) \/ LapseHeld(s)
    /\ UNCHANGED quorumVars

-----------------------------------------------------------------------------
(* Shard runtime.                                                          *)

\* RestorePricingShardUseCase reads the active sessions of the shard.  The
\* iterator of an earlier task is closed by then: its basic.cancel went out on
\* the same channel before the claim that brought the shard back.
ReadSessions(w, s) ==
    /\ change[w] = Acquired(s) /\ phase[w] = "idle"
    /\ task[w][s] = NoTask
    /\ phase' = [phase EXCEPT ![w] = "restored"]
    /\ snapshot' = [snapshot EXCEPT ![w] = saved \cap SessionsOf(s)]
    /\ UNCHANGED <<leaseVars, brokerVars, task, registry, saved>>

\* Mutant: the sessions that were read are not put into the registry.
FinishAcquireUnrestored(w, s) ==
    /\ change[w] = Acquired(s) /\ phase[w] = "restored"
    /\ task' = [task EXCEPT ![w][s] = [pc |-> "starting", event |-> NoEvent]]
    /\ phase' = [phase EXCEPT ![w] = "idle"]
    /\ snapshot' = [snapshot EXCEPT ![w] = {}]
    /\ ChangeDone(w)
    /\ UNCHANGED <<brokerVars, registry, saved>>

\* It registers them, the shard task starts, and complete() does nothing.
FinishAcquire(w, s) ==
    /\ change[w] = Acquired(s) /\ phase[w] = "restored"
    /\ registry' = [registry EXCEPT ![w] = @ \cup snapshot[w]]
    /\ task' = [task EXCEPT ![w][s] = [pc |-> "starting", event |-> NoEvent]]
    /\ phase' = [phase EXCEPT ![w] = "idle"]
    /\ snapshot' = [snapshot EXCEPT ![w] = {}]
    /\ ChangeDone(w)
    /\ UNCHANGED <<brokerVars, saved>>

\* case PricingShardReleased, up to task.cancel().
CancelTask(w, s) ==
    /\ change[w] = Released(s) /\ phase[w] = "idle"
    /\ phase' = [phase EXCEPT ![w] = "cancelling"]
    /\ UNCHANGED <<leaseVars, brokerVars, task, snapshot, registry, saved>>

\* Closing the iterator cancels its consumer and returns what it has buffered.
CloseConsumer(w, s) ==
    /\ consumers' = [consumers EXCEPT ![s] = Without(@, w)]
    /\ ready' = [ready EXCEPT ![s] = @ \cup ({buffer[w][s]} \ {NoEvent})]
    /\ buffer' = [buffer EXCEPT ![w][s] = NoEvent]
    /\ UNCHANGED published

\* CancelledError while the task waits for a message: it passes through the
\* iterator's async with, which closes it before the task ends.
TaskStopsInIterator(w, s) ==
    /\ Cancelled(w, s)
    /\ task[w][s].pc \in {"starting", "waiting"}
    /\ task' = [task EXCEPT ![w][s] = NoTask]
    /\ CloseConsumer(w, s)
    /\ UNCHANGED <<leaseVars, unreturned, runtimeVars, registry, saved>>

\* CancelledError in the body of the loop: the task ends at once, and asyncio
\* closes the generator in a task of its own.
TaskStopsInBody(w, s) ==
    /\ Cancelled(w, s)
    /\ task[w][s].pc \in {"saving", "saved", "acking", "acked"}
    /\ task' = [task EXCEPT ![w][s].pc = "closing"]
    /\ UNCHANGED <<leaseVars, brokerVars, runtimeVars, registry, saved>>

\* aclose(): the finally of subscribe sends no answer for the message in work,
\* which stays unacknowledged on the channel that the process goes on using.
GeneratorCloses(w, s) ==
    /\ task[w][s].pc = "closing"
    /\ unreturned' = [unreturned EXCEPT ![w] = @ \cup ({task[w][s].event} \ {NoEvent})]
    /\ task' = [task EXCEPT ![w][s] = NoTask]
    /\ CloseConsumer(w, s)
    /\ UNCHANGED <<leaseVars, runtimeVars, registry, saved>>

\* Mutant: the release keeps the sessions of the shard.
FinishReleaseKeeping(w, s) ==
    /\ Cancelled(w, s) /\ ~HasTask(w, s)
    /\ phase' = [phase EXCEPT ![w] = "idle"]
    /\ ChangeDone(w)
    /\ UNCHANGED <<brokerVars, task, snapshot, registry, saved>>

\* await task has returned: ReleasePricingShardUseCase, complete().
FinishRelease(w, s) ==
    /\ Cancelled(w, s) /\ ~HasTask(w, s)
    /\ registry' = [registry EXCEPT ![w] = @ \ SessionsOf(s)]
    /\ phase' = [phase EXCEPT ![w] = "idle"]
    /\ ChangeDone(w)
    /\ UNCHANGED <<brokerVars, task, snapshot, saved>>

-----------------------------------------------------------------------------
(* Shard task: subscribe, handle, acknowledge.                             *)

\* The task goes on with its message.
Advance(w, s, pc) == task' = [task EXCEPT ![w][s].pc = pc]

\* queue.iterator(no_ack=False): the consumer is registered, behind others.
Consume(w, s) ==
    /\ task[w][s].pc = "starting" /\ ~Cancelled(w, s)
    /\ Advance(w, s, "waiting")
    /\ consumers' = [consumers EXCEPT ![s] = Append(@, w)]
    /\ UNCHANGED <<leaseVars, published, ready, unreturned, buffer, runtimeVars,
                   registry, saved>>

\* Mutant: the message is acknowledged before its session is saved.
TakeMessageAckFirst(w, s) ==
    /\ task[w][s].pc = "waiting" /\ ~Cancelled(w, s)
    /\ buffer[w][s] # NoEvent
    /\ task' = [task EXCEPT ![w][s] = [pc |-> "acking", event |-> buffer[w][s]]]
    /\ buffer' = [buffer EXCEPT ![w][s] = NoEvent]
    /\ UNCHANGED <<leaseVars, published, ready, consumers, unreturned,
                   runtimeVars, registry, saved>>

\* The iterator yields a message; the handler starts to save the session.
TakeMessage(w, s) ==
    /\ task[w][s].pc = "waiting" /\ ~Cancelled(w, s)
    /\ buffer[w][s] \notin Unreadable \cup {NoEvent}
    /\ task' = [task EXCEPT ![w][s] = [pc |-> "saving", event |-> buffer[w][s]]]
    /\ buffer' = [buffer EXCEPT ![w][s] = NoEvent]
    /\ UNCHANGED <<leaseVars, published, ready, consumers, unreturned,
                   runtimeVars, registry, saved>>

\* _deserialize raises inside the task: the TaskGroup ends the process.
DeserializeFails(w, s) ==
    /\ task[w][s].pc = "waiting" /\ ~Cancelled(w, s)
    /\ buffer[w][s] \in Unreadable
    /\ ProcessEnds(w)

\* The database commits the session, perhaps just after task.cancel().
SaveSession(w, s) ==
    /\ task[w][s].pc = "saving"
    /\ saved' = saved \cup {task[w][s].event}
    /\ Advance(w, s, "saved")
    /\ UNCHANGED <<leaseVars, brokerVars, runtimeVars, registry>>

\* The registry gets the session, and message.ack() is called.
Activate(w, s) ==
    /\ task[w][s].pc = "saved" /\ ~Cancelled(w, s)
    /\ registry' = [registry EXCEPT ![w] = @ \cup {task[w][s].event}]
    /\ Advance(w, s, "acking")
    /\ UNCHANGED <<leaseVars, brokerVars, runtimeVars, saved>>

\* The broker gets the acknowledgement; it asks nobody about the lease.
AckArrives(w, s) ==
    /\ task[w][s].pc = "acking"
    /\ task' = [task EXCEPT ![w][s] = [pc |-> "acked", event |-> NoEvent]]
    /\ UNCHANGED <<leaseVars, brokerVars, runtimeVars, registry, saved>>

AckReturns(w, s) ==
    /\ task[w][s].pc = "acked" /\ ~Cancelled(w, s)
    /\ Advance(w, s, "waiting")
    /\ UNCHANGED <<leaseVars, brokerVars, runtimeVars, registry, saved>>

-----------------------------------------------------------------------------
ShardStep(w, s) ==
    \/ ReadSessions(w, s) \/ FinishAcquire(w, s) \/ CancelTask(w, s)
    \/ TaskStopsInIterator(w, s) \/ TaskStopsInBody(w, s)
    \/ GeneratorCloses(w, s) \/ FinishRelease(w, s)
    \/ Consume(w, s) \/ Deliver(w, s) \/ TakeMessage(w, s)
    \/ DeserializeFails(w, s) \/ SaveSession(w, s) \/ Activate(w, s)
    \/ AckArrives(w, s) \/ AckReturns(w, s)

WorkerStep(w) == Lease(w) \/ ConnectionCloses(w) \/ \E s \in Shard : ShardStep(w, s)

Next ==
    \/ \E w \in Worker : WorkerStep(w) \/ Start(w) \/ ProcessEnds(w)
    \/ \E s \in Shard : Lapse(s)
    \/ \E e \in Event : Publish(e)

Spec == Init /\ [][Next]_vars

\* The event loop runs every task that is ready, each of its awaits is
\* answered, and time passes for the rows of dead owners.
Fairness ==
    /\ \A w \in Worker : WF_vars(Lease(w)) /\ WF_vars(ConnectionCloses(w))
    /\ \A w \in Worker, s \in Shard : WF_vars(ShardStep(w, s))
    /\ \A s \in Shard : WF_vars(LapseUnheld(s) /\ UNCHANGED quorumVars)

FairSpec == Spec /\ Fairness

-----------------------------------------------------------------------------
(* Properties.                                                             *)

TaskPc == {"none", "starting", "waiting", "saving", "saved", "acking", "acked",
           "closing"}

\* The variables have the types of the objects they stand for.
QuorumTypeOK ==
    /\ published \in [Event -> Nat]
    /\ ready \in [Shard -> SUBSET Event]
    /\ unreturned \in [Worker -> SUBSET Event]
    /\ buffer \in [Worker -> [Shard -> Event \cup {NoEvent}]]
    /\ task \in [Worker -> [Shard -> [pc : TaskPc, event : Event \cup {NoEvent}]]]
    /\ phase \in [Worker -> {"idle", "restored", "cancelling"}]
    /\ snapshot \in [Worker -> SUBSET Event]
    /\ registry \in [Worker -> SUBSET Event]
    /\ saved \in SUBSET Event

\* At-least-once: a message that the broker no longer has is durable, whatever
\* was cancelled, lost its lease or died in between.
GoneIsSaved ==
    \A e \in Event : published[e] > 0 =>
        \/ e \in ready[ShardOf[e]]
        \/ \E w \in Worker : e \in Unacked(w)
        \/ e \in saved

\* The runtime: "A and B of one shard are not handled at the same time".  The
\* single active consumer keeps to it across processes, even when a lease
\* lapses and two of them take the shard for their own.
HandlingIsSerial ==
    \A v, w \in Worker, s \in Shard :
        v # w /\ Handling(v, s) => ~Handling(w, s)

\* No session is held by two workers, and no shard has two tasks, as long as
\* the leases are renewed in time.
OneOwner ==
    lapses = 0 =>
        \A v, w \in Worker : v # w =>
            /\ registry[v] \cap registry[w] = {}
            /\ \A s \in Shard : ~(HasTask(v, s) /\ HasTask(w, s))

\* A worker holds sessions of the shards it has, and of one that it is just
\* restoring or releasing: a lost lease leaves no session behind, whatever the
\* task was doing when it was cancelled.
SessionsFollowShards ==
    \A w \in Worker : \A e \in registry[w] \cup snapshot[w] :
        ShardOf[e] \in owned[w] \/ change[w] = Released(ShardOf[e])

\* A worker that consumes a shard under its own lease holds every durable
\* session of the shard, but for the one it is just saving.  It holds as long
\* as no lease lapses under its holder: a new owner restores without waiting.
OwnerIsPrepared ==
    lapses = 0 => \A w \in Worker, s \in Shard :
        owner[s] = w /\ HasTask(w, s) /\ ~Cancelled(w, s) =>
            \A e \in saved \cap SessionsOf(s) :
                e \in registry[w] \/ (task[w][s].pc = "saved" /\ task[w][s].event = e)

\* When processes no longer come and go, some process is up, and no lease
\* lapses, every published event that can be read gets a durable session that
\* a running worker holds, and its message leaves the queue.
EventuallyHandled ==
    Settled /\ (\E w \in Worker : <>[]Up(w)) /\ [](lapses = 0) =>
        \A e \in Event \ Unreadable :
            published[e] > 0 ~>
                /\ e \in saved /\ \E w \in Worker : e \in registry[w]
                /\ e \notin ready[ShardOf[e]]
                /\ \A w \in Worker : e \notin Unacked(w)

-----------------------------------------------------------------------------
(* The inductive invariant.                                                *)

\* What the change in work says of its shard, and what the runtime has of it.
ChangeInv ==
    \A w \in Worker :
        /\ phase[w] # "idle" => change[w] # NoChange
        /\ phase[w] # "restored" => snapshot[w] = {}
        /\ \A s \in Shard : change[w] = Acquired(s) =>
               s \in owned[w] /\ (phase[w] = "restored" => task[w][s] = NoTask)

\* A task runs for a shard the worker has or is releasing; messages are of the
\* queue's shard, and in work from "saving" until the acknowledgement.
TaskInv ==
    /\ \A s \in Shard : ready[s] \subseteq SessionsOf(s)
    /\ \A w \in Worker, s \in Shard :
        /\ HasTask(w, s) => s \in owned[w] \/ change[w] = Released(s)
        /\ buffer[w][s] \in SessionsOf(s) \cup {NoEvent}
        /\ task[w][s].event \in SessionsOf(s) \cup {NoEvent}
        /\ Handling(w, s) => task[w][s].event # NoEvent
        /\ task[w][s].pc \in {"saved", "acking"} => task[w][s].event \in saved
        /\ ~Handling(w, s) /\ task[w][s].pc # "closing" => task[w][s].event = NoEvent

\* A process is registered once per queue, while its task consumes, and what it
\* has of the queue it got as the active consumer.
ConsumerInv ==
    /\ consumers \in [Shard -> Seq(Worker)]
    /\ \A s \in Shard : \A i, j \in DOMAIN consumers[s] :
           consumers[s][i] = consumers[s][j] => i = j
    /\ \A w \in Worker, s \in Shard :
        /\ buffer[w][s] # NoEvent \/ Handling(w, s) => Active(w, s)
        /\ Up(w) /\ task[w][s].pc \in {"none", "starting"} => ~Registered(w, s)
        /\ ~Up(w) => task[w][s] = NoTask /\ buffer[w][s] = NoEvent

\* As long as the leases are renewed in time, only the owner saves sessions of a
\* shard, and it has them, from the restore on.
PreparedInv ==
    lapses = 0 => \A w \in Worker, s \in Shard :
        /\ change[w] = Acquired(s) /\ phase[w] = "restored" =>
               saved \cap SessionsOf(s) \subseteq snapshot[w]
        /\ HasTask(w, s) => \A e \in saved \cap SessionsOf(s) :
               e \in registry[w] \/ (task[w][s].pc = "saved" /\ task[w][s].event = e)

\* Inductive, together with LeaseInv.
QuorumInv ==
    /\ QuorumTypeOK /\ ChangeInv /\ TaskInv /\ ConsumerInv /\ PreparedInv
    /\ SessionsFollowShards /\ GoneIsSaved
=============================================================================

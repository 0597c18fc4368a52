------------------------- MODULE SuperStreamWorker -------------------------
(***************************************************************************)
(* The pricing workers on a RabbitMQ super stream: the consumer-update     *)
(* listener (RabbitmqSuperStreamPricingShardOwnership), which answers the  *)
(* broker without waiting for the runtime, the subscriber with one queue   *)
(* per shard (RabbitMqSuperStreamPricingRfqDomainEventsSubscriber), the    *)
(* shard runtime, and the broker with its stored offsets.                  *)
(*                                                                         *)
(* Offsets count from 1: stored[s] = n stands for the stored offset n - 1, *)
(* and 0 for OffsetNotFound, so that a consumer always starts at record    *)
(* stored[s] + 1.                                                          *)
(***************************************************************************)
EXTENDS Integers, Sequences, FiniteSets

CONSTANTS
    Worker,         \* pricing worker processes, one consumer each
    Shard,          \* partitions of the super stream
    NoWorker,
    NoShard,
    Event,          \* RFQ registrations, one session each
    ShardOf,        \* StablePricingShardResolver, on both sides
    MaxLog,         \* bound: records per partition
    MaxDemotions,   \* bound: partitions taken from a live consumer
    MaxReturns      \* bound: partitions that come back to a process that had them

NoOffset == -1

ASSUME ConstantsAssumption ==
    /\ NoWorker \notin Worker /\ NoShard \notin Shard
    /\ ShardOf \in [Event -> Shard]
    /\ MaxLog \in Nat /\ MaxDemotions \in Nat /\ MaxReturns \in Nat

VARIABLES
    log,            \* per partition: its records
    stored,         \* per partition: the offset stored for the group
    active,         \* per partition: the single active consumer
    saved,          \* PostgreSQL: events whose session row is committed
    connected,      \* the workers with a consumer in the group
    mailbox,        \* per worker: _changes
    runtime,        \* per worker: run_owned_pricing_shards
    task,           \* per worker and shard: shard_tasks
    queue,          \* per worker and shard: _queues, as offsets
    position,       \* per worker and partition: next record, or NoOffset
    registry,       \* per worker: InMemoryPricingSessionRegistry
    served,         \* per worker: partitions it has had since it started
    returns,        \* counted against MaxReturns
    demotions       \* counted against MaxDemotions

brokerVars == <<log, stored, active, connected, returns, demotions>>
workerVars == <<mailbox, runtime, task, queue, position, registry, served>>
vars == <<brokerVars, saved, workerVars>>

-----------------------------------------------------------------------------
Acquired(s) == [kind |-> "acquired", shard |-> s]
Released(s) == [kind |-> "released", shard |-> s]
Change == [kind : {"acquired", "released"}, shard : Shard]

Idle == [pc |-> "idle", shard |-> NoShard, snapshot |-> {}]
NoTask == [pc |-> "none", offset |-> 0]
Waiting == [pc |-> "waiting", offset |-> 0]

SessionsOf(s) == {e \in Event : ShardOf[e] = s}
HasTask(w, s) == task[w][s] # NoTask
Cancelling(w, s) == runtime[w].pc = "releasing" /\ runtime[w].shard = s
Up(w) == w \in connected

Init ==
    /\ log = [s \in Shard |-> <<>>]
    /\ stored = [s \in Shard |-> 0]
    /\ active = [s \in Shard |-> NoWorker]
    /\ saved = {} /\ connected = {} /\ returns = 0 /\ demotions = 0
    /\ mailbox = [w \in Worker |-> <<>>]
    /\ runtime = [w \in Worker |-> Idle]
    /\ task = [w \in Worker |-> [s \in Shard |-> NoTask]]
    /\ queue = [w \in Worker |-> [s \in Shard |-> <<>>]]
    /\ position = [w \in Worker |-> [s \in Shard |-> NoOffset]]
    /\ registry = [w \in Worker |-> {}]
    /\ served = [w \in Worker |-> {}]

-----------------------------------------------------------------------------
(* Partitions, and the listener on_consumer_update.                        *)

\* The outbox publisher's message reaches the partition of its shard.
Publish(e) ==
    /\ Len(log[ShardOf[e]]) < MaxLog
    /\ log' = [log EXCEPT ![ShardOf[e]] = Append(@, e)]
    /\ UNCHANGED <<stored, active, connected, returns, demotions, saved, workerVars>>

\* on_consumer_update(True): the runtime is told before the offset is known.
OnActive(w, s) ==
    /\ Up(w) /\ active[s] = NoWorker
    /\ \/ s \notin served[w] /\ UNCHANGED returns
       \/ s \in served[w] /\ returns < MaxReturns /\ returns' = returns + 1
    /\ served' = [served EXCEPT ![w] = @ \cup {s}]
    /\ active' = [active EXCEPT ![s] = w]
    /\ mailbox' = [mailbox EXCEPT ![w] = Append(@, Acquired(s))]
    /\ UNCHANGED <<log, stored, connected, demotions, saved, runtime, task, queue,
                   position, registry>>

\* Mutant: the offset after the stored one is skipped.
QueryOffsetSkipping(w, s) ==
    /\ active[s] = w /\ position[w][s] = NoOffset
    /\ position' = [position EXCEPT ![w][s] = stored[s] + 1]
    /\ UNCHANGED <<brokerVars, saved, mailbox, runtime, task, queue, registry, served>>

\* query_offset answers, the listener returns stored_offset + 1, or 0 when
\* nothing is stored, and the broker starts to deliver.
QueryOffset(w, s) ==
    /\ active[s] = w /\ position[w][s] = NoOffset
    /\ position' = [position EXCEPT ![w][s] = stored[s]]
    /\ UNCHANGED <<brokerVars, saved, mailbox, runtime, task, queue, registry, served>>

\* Mutant: only activations are reported to the runtime.
OnInactiveSilent(w, s) ==
    /\ Up(w) /\ active[s] = w
    /\ connected # {w}
    /\ demotions < MaxDemotions
    /\ demotions' = demotions + 1
    /\ active' = [active EXCEPT ![s] = NoWorker]
    /\ position' = [position EXCEPT ![w][s] = NoOffset]
    /\ UNCHANGED <<log, stored, connected, returns, saved, mailbox, runtime, task,
                   queue, registry, served>>

\* on_consumer_update(False): the broker takes the partition away for another
\* member and gives it on as soon as the listener returns.
OnInactive(w, s) ==
    /\ Up(w) /\ active[s] = w
    /\ connected # {w}
    /\ demotions < MaxDemotions
    /\ demotions' = demotions + 1
    /\ active' = [active EXCEPT ![s] = NoWorker]
    /\ position' = [position EXCEPT ![w][s] = NoOffset]
    /\ mailbox' = [mailbox EXCEPT ![w] = Append(@, Released(s))]
    /\ UNCHANGED <<log, stored, connected, returns, saved, runtime, task, queue,
                   registry, served>>

\* on_message: the delivery goes to the end of the shard's queue.
OnMessage(w, s) ==
    /\ active[s] = w
    /\ position[w][s] # NoOffset /\ position[w][s] < Len(log[s])
    /\ position' = [position EXCEPT ![w][s] = @ + 1]
    /\ queue' = [queue EXCEPT ![w][s] = Append(@, position[w][s] + 1)]
    /\ UNCHANGED <<brokerVars, saved, mailbox, runtime, task, registry, served>>

-----------------------------------------------------------------------------
(* Processes.                                                              *)

Start(w) ==
    /\ ~Up(w)
    /\ connected' = connected \cup {w}
    /\ UNCHANGED <<log, stored, active, returns, demotions, saved, workerVars>>

\* The process ends, by a signal or an exception; the broker sees its
\* connection close.
ProcessEnds(w) ==
    /\ Up(w)
    /\ connected' = connected \ {w}
    /\ active' = [s \in Shard |-> IF active[s] = w THEN NoWorker ELSE active[s]]
    /\ mailbox' = [mailbox EXCEPT ![w] = <<>>]
    /\ runtime' = [runtime EXCEPT ![w] = Idle]
    /\ task' = [task EXCEPT ![w] = [s \in Shard |-> NoTask]]
    /\ queue' = [queue EXCEPT ![w] = [s \in Shard |-> <<>>]]
    /\ position' = [position EXCEPT ![w] = [s \in Shard |-> NoOffset]]
    /\ registry' = [registry EXCEPT ![w] = {}]
    /\ served' = [served EXCEPT ![w] = {}]
    /\ UNCHANGED <<log, stored, returns, demotions, saved>>

-----------------------------------------------------------------------------
(* Shard runtime.                                                          *)

\* The next change out of the mailbox; a shard that has a task already would
\* end the process ("Shard already acquired").
TakeChange(w) ==
    /\ runtime[w] = Idle /\ mailbox[w] # <<>>
    /\ LET c == Head(mailbox[w]) IN
        IF c.kind = "acquired" /\ HasTask(w, c.shard) THEN ProcessEnds(w)
        ELSE /\ runtime' = [runtime EXCEPT ![w] =
                    [pc |-> IF c.kind = "acquired" THEN "restoring" ELSE "releasing",
                     shard |-> c.shard, snapshot |-> {}]]
             /\ mailbox' = [mailbox EXCEPT ![w] = Tail(@)]
             /\ UNCHANGED <<brokerVars, saved, task, queue, position, registry, served>>

\* RestorePricingShardUseCase: list_active, and the filter by shard.
ReadSessions(w) ==
    /\ runtime[w].pc = "restoring"
    /\ runtime' = [runtime EXCEPT ![w] =
           [pc |-> "restored", shard |-> runtime[w].shard,
            snapshot |-> saved \cap SessionsOf(runtime[w].shard)]]
    /\ UNCHANGED <<brokerVars, saved, mailbox, task, queue, position, registry, served>>

\* Mutant: the sessions that were read are not put into the registry.
FinishAcquireUnrestored(w) ==
    /\ runtime[w].pc = "restored"
    /\ task' = [task EXCEPT ![w][runtime[w].shard] = Waiting]
    /\ runtime' = [runtime EXCEPT ![w] = Idle]
    /\ UNCHANGED <<brokerVars, saved, mailbox, queue, position, registry, served>>

FinishAcquire(w) ==
    /\ runtime[w].pc = "restored"
    /\ registry' = [registry EXCEPT ![w] = @ \cup runtime[w].snapshot]
    /\ task' = [task EXCEPT ![w][runtime[w].shard] = Waiting]
    /\ runtime' = [runtime EXCEPT ![w] = Idle]
    /\ UNCHANGED <<brokerVars, saved, mailbox, queue, position, served>>

\* The cancelled task ends.  subscribe has no finally: the shard's queue stays
\* as it is, and the delivery in hand is in it no more.
TaskStops(w, s) ==
    /\ Cancelling(w, s) /\ HasTask(w, s)
    /\ task' = [task EXCEPT ![w][s] = NoTask]
    /\ UNCHANGED <<brokerVars, saved, mailbox, runtime, queue, position, registry, served>>

\* Mutant: the release keeps the sessions of the shard.
FinishReleaseKeeping(w) ==
    /\ runtime[w].pc = "releasing" /\ ~HasTask(w, runtime[w].shard)
    /\ runtime' = [runtime EXCEPT ![w] = Idle]
    /\ UNCHANGED <<brokerVars, saved, mailbox, task, queue, position, registry, served>>

\* ReleasePricingShardUseCase; complete() tells nobody.
FinishRelease(w) ==
    /\ runtime[w].pc = "releasing" /\ ~HasTask(w, runtime[w].shard)
    /\ registry' = [registry EXCEPT ![w] = @ \ SessionsOf(runtime[w].shard)]
    /\ runtime' = [runtime EXCEPT ![w] = Idle]
    /\ UNCHANGED <<brokerVars, saved, mailbox, task, queue, position, served>>

-----------------------------------------------------------------------------
(* Shard task.                                                             *)

Advance(w, s, pc) == task' = [task EXCEPT ![w][s].pc = pc]

\* Mutant: the delivery is acknowledged before its session is saved.
TakeDeliveryAckFirst(w, s) ==
    /\ task[w][s] = Waiting /\ ~Cancelling(w, s)
    /\ queue[w][s] # <<>>
    /\ task' = [task EXCEPT ![w][s] = [pc |-> "storing", offset |-> Head(queue[w][s])]]
    /\ queue' = [queue EXCEPT ![w][s] = Tail(@)]
    /\ UNCHANGED <<brokerVars, saved, mailbox, runtime, position, registry, served>>

TakeDelivery(w, s) ==
    /\ task[w][s] = Waiting /\ ~Cancelling(w, s)
    /\ queue[w][s] # <<>>
    /\ task' = [task EXCEPT ![w][s] = [pc |-> "saving", offset |-> Head(queue[w][s])]]
    /\ queue' = [queue EXCEPT ![w][s] = Tail(@)]
    /\ UNCHANGED <<brokerVars, saved, mailbox, runtime, position, registry, served>>

EventInHand(w, s) == log[s][task[w][s].offset]

\* The database commits the session, perhaps just after task.cancel().
SaveSession(w, s) ==
    /\ task[w][s].pc = "saving"
    /\ saved' = saved \cup {EventInHand(w, s)}
    /\ Advance(w, s, "saved")
    /\ UNCHANGED <<brokerVars, mailbox, runtime, queue, position, registry, served>>

\* The registry gets the session, and ack() is called.
Activate(w, s) ==
    /\ task[w][s].pc = "saved" /\ ~Cancelling(w, s)
    /\ registry' = [registry EXCEPT ![w] = @ \cup {EventInHand(w, s)}]
    /\ Advance(w, s, "storing")
    /\ UNCHANGED <<brokerVars, saved, mailbox, runtime, queue, position, served>>

\* store_offset reaches the broker, which takes it from any consumer.
StoreOffset(w, s) ==
    /\ task[w][s].pc = "storing"
    /\ stored' = [stored EXCEPT ![s] = task[w][s].offset]
    /\ Advance(w, s, "stored")
    /\ UNCHANGED <<log, active, connected, returns, demotions, saved, mailbox, runtime,
                   queue, position, registry, served>>

AckReturns(w, s) ==
    /\ task[w][s].pc = "stored" /\ ~Cancelling(w, s)
    /\ task' = [task EXCEPT ![w][s] = Waiting]
    /\ UNCHANGED <<brokerVars, saved, mailbox, runtime, queue, position, registry, served>>

-----------------------------------------------------------------------------
ShardStep(w, s) ==
    \/ QueryOffset(w, s) \/ OnMessage(w, s) \/ TaskStops(w, s)
    \/ TakeDelivery(w, s) \/ SaveSession(w, s) \/ Activate(w, s)
    \/ StoreOffset(w, s) \/ AckReturns(w, s)

RuntimeStep(w) ==
    TakeChange(w) \/ ReadSessions(w) \/ FinishAcquire(w) \/ FinishRelease(w)

Next ==
    \/ \E e \in Event : Publish(e)
    \/ \E w \in Worker : RuntimeStep(w) \/ Start(w) \/ ProcessEnds(w)
    \/ \E w \in Worker, s \in Shard :
           ShardStep(w, s) \/ OnActive(w, s) \/ OnInactive(w, s)

Spec == Init /\ [][Next]_vars

\* Tasks and runtime go on, the broker delivers, and it makes some connected
\* consumer the active one of a partition that has none.
Fairness ==
    /\ \A w \in Worker : WF_vars(RuntimeStep(w))
    /\ \A w \in Worker, s \in Shard : WF_vars(ShardStep(w, s))
    /\ \A s \in Shard : WF_vars(\E w \in Worker : OnActive(w, s))

FairSpec == Spec /\ Fairness

-----------------------------------------------------------------------------
(* Properties.                                                             *)

\* The variables have the types of the objects they stand for.
TypeOK ==
    /\ log \in [Shard -> Seq(Event)]
    /\ stored \in [Shard -> Nat]
    /\ active \in [Shard -> Worker \cup {NoWorker}]
    /\ saved \in SUBSET Event /\ connected \in SUBSET Worker
    /\ mailbox \in [Worker -> Seq(Change)]
    /\ runtime \in [Worker -> [pc : {"idle", "restoring", "restored", "releasing"},
                               shard : Shard \cup {NoShard}, snapshot : SUBSET Event]]
    /\ task \in [Worker -> [Shard ->
           [pc : {"none", "waiting", "saving", "saved", "storing", "stored"},
            offset : Nat]]]
    /\ queue \in [Worker -> [Shard -> Seq(Nat)]]
    /\ position \in [Worker -> [Shard -> Nat \cup {NoOffset}]]
    /\ registry \in [Worker -> SUBSET Event]
    /\ served \in [Worker -> SUBSET Shard]
    /\ returns \in Nat /\ demotions \in Nat

SavedUpTo(s, n) == \A i \in 1..n : i \in DOMAIN log[s] /\ log[s][i] \in saved

\* At-least-once: "only when the use case has completed it is acknowledged",
\* so the next owner, which starts behind the stored offset, misses nothing.
\* It holds as long as no process gets a partition back, even when an old
\* owner stores its offset late, over that of the new one.
StoredIsSaved == returns = 0 => \A s \in Shard : SavedUpTo(s, stored[s])

\* Records of s that w has still to come to, or has in its queue or in hand.
ToCome(w, s) ==
    (position[w][s] + 1) .. Len(log[s]) \cup {queue[w][s][i] : i \in DOMAIN queue[w][s]}
        \cup (IF HasTask(w, s) THEN {task[w][s].offset} ELSE {})

\* The runtime: "the session is restored first; the state is made ready before
\* domain events are handled".  The active consumer has the session of every
\* event that it will not be given any more.  It holds as long as partitions
\* change hands by the death of their owners only.
OwnerIsPrepared ==
    demotions = 0 => \A w \in Worker, s \in Shard :
        active[s] = w /\ position[w][s] # NoOffset
        /\ HasTask(w, s) /\ runtime[w] = Idle /\ mailbox[w] = <<>> =>
            \A i \in 1..Len(log[s]) :
                i \in ToCome(w, s) \/ log[s][i] \in registry[w]

\* Sessions are held for shards with a task, or one just being released; a
\* partition that is gone leaves no session behind.
SessionsFollowTasks ==
    \A w \in Worker : \A e \in registry[w] :
        HasTask(w, ShardOf[e]) \/ Cancelling(w, ShardOf[e])

\* Changes of one partition alternate in the mailbox, so that the runtime never
\* raises "Shard already acquired", however far it lags behind the broker.
NeverAcquiredTwice ==
    \A w \in Worker : runtime[w] = Idle /\ mailbox[w] # <<>> =>
        LET c == Head(mailbox[w]) IN
        (c.kind = "acquired") <=> ~HasTask(w, c.shard)

Settled == \A w \in Worker : <>[]Up(w) \/ <>[]~Up(w)

\* When processes no longer come and go, some process is up, and no partition
\* is taken from a live consumer, every record gets a durable session, held by
\* the consumer that is active by then.
EventuallyHandled ==
    Settled /\ (\E w \in Worker : <>[]Up(w)) /\ [](demotions = 0) =>
        \A s \in Shard, n \in 1..MaxLog :
            n <= Len(log[s]) ~>
                /\ n <= Len(log[s]) /\ log[s][n] \in saved
                /\ \E w \in Worker : active[s] = w /\ log[s][n] \in registry[w]

-----------------------------------------------------------------------------
(* The inductive invariant.                                                *)

Busy(w, s) == task[w][s].pc \in {"saving", "saved", "storing", "stored"}
Acquiring(w, s) == runtime[w].pc \in {"restoring", "restored"} /\ runtime[w].shard = s

\* What the runtime will have once it is through with the change in hand.
Held(w, s) == Acquiring(w, s) \/ (HasTask(w, s) /\ ~Cancelling(w, s))

\* Records lie in the partition of their shard, a stored offset in the log.
LogInv ==
    \A s \in Shard : /\ stored[s] <= Len(log[s])
                     /\ \A i \in DOMAIN log[s] : ShardOf[log[s][i]] = s

\* Every offset that anybody holds is one of the partition's: a position is not
\* ahead of the log, whatever was stored late and by whom.
OffsetInv(w, s) ==
    /\ position[w][s] <= Len(log[s])
    /\ \A i \in DOMAIN queue[w][s] : queue[w][s][i] \in DOMAIN log[s]
    /\ Busy(w, s) => task[w][s].offset \in DOMAIN log[s]
    /\ ~Busy(w, s) => task[w][s] \in {NoTask, Waiting}

\* The runtime restores a shard before it has a task, and only its sessions.
RuntimeInv(w) ==
    /\ runtime[w] # Idle => runtime[w].pc # "idle" /\ runtime[w].shard \in Shard
    /\ runtime[w].snapshot \subseteq SessionsOf(runtime[w].shard)
    /\ \A s \in Shard : Acquiring(w, s) => ~HasTask(w, s)

\* What w has of s after change i of its mailbox, where 0 is the change in hand,
\* and what it must have had before change i, where the last is the broker's.
After(w, s, i) == IF i = 0 THEN Held(w, s) ELSE mailbox[w][i].kind = "acquired"
Before(w, s, i) ==
    IF i = Len(mailbox[w]) + 1 THEN active[s] = w ELSE mailbox[w][i].kind = "released"

\* i and j are successive changes of s, the change in hand and the broker's
\* view included.
Successive(w, s, i, j) ==
    /\ i < j
    /\ i # 0 => mailbox[w][i].shard = s
    /\ j # Len(mailbox[w]) + 1 => mailbox[w][j].shard = s
    /\ \A k \in i+1 .. j-1 : mailbox[w][k].shard # s

\* The changes of a shard alternate.
MailboxInv(w, s) ==
    \A i, j \in 0 .. Len(mailbox[w]) + 1 :
        Successive(w, s, i, j) => (After(w, s, i) <=> Before(w, s, j))

Queued(w, change) == \E i \in DOMAIN mailbox[w] : mailbox[w][i] = change

\* A partition that a process has never had has left no trace in it, and as long
\* as none came back, an acquisition that waits is the first.
TurnInv(w, s) ==
    /\ s \notin served[w] =>
        /\ active[s] # w /\ position[w][s] = NoOffset /\ queue[w][s] = <<>>
        /\ ~HasTask(w, s) /\ runtime[w].shard # s
        /\ \A i \in DOMAIN mailbox[w] : mailbox[w][i].shard # s
    /\ returns = 0 => \A i \in DOMAIN mailbox[w] : mailbox[w][i] = Acquired(s) =>
        /\ ~HasTask(w, s) /\ runtime[w].shard # s
        /\ \A j \in DOMAIN mailbox[w] : mailbox[w][j] = Acquired(s) => i = j

\* The task of s is there, or will be.
Ahead(w, s) == HasTask(w, s) \/ Acquiring(w, s) \/ Queued(w, Acquired(s))

\* As long as no partition came back, the queue is a stretch of the log between
\* the delivery in hand and the position, and what lies before it is saved.
StreamInv(w, s) ==
    returns = 0 =>
        /\ active[s] = w /\ position[w][s] = NoOffset => queue[w][s] = <<>> /\ ~Busy(w, s)
        /\ \A i \in DOMAIN queue[w][s] : queue[w][s][i] = queue[w][s][1] + i - 1
        /\ position[w][s] # NoOffset /\ queue[w][s] # <<>> =>
               position[w][s] = queue[w][s][1] + Len(queue[w][s]) - 1
        /\ Busy(w, s) =>
            /\ queue[w][s] # <<>> => queue[w][s][1] = task[w][s].offset + 1
            /\ queue[w][s] = <<>> /\ position[w][s] # NoOffset =>
                   position[w][s] = task[w][s].offset
            /\ SavedUpTo(s, task[w][s].offset - 1)
            /\ task[w][s].pc # "saving" => log[s][task[w][s].offset] \in saved
        /\ Ahead(w, s) /\ ~Busy(w, s) =>
            /\ queue[w][s] # <<>> => SavedUpTo(s, queue[w][s][1] - 1)
            /\ queue[w][s] = <<>> /\ position[w][s] # NoOffset =>
                   SavedUpTo(s, position[w][s])

\* As long as no live consumer lost a partition, who ever had one has it.
ConsumerInv(w) ==
    demotions = 0 =>
        /\ returns = 0 /\ runtime[w].pc # "releasing"
        /\ \A i \in DOMAIN mailbox[w] : mailbox[w][i].kind = "acquired"
        /\ \A s \in served[w] : active[s] = w

\* Then the owner has every saved session of the shard, but for the one it is
\* just saving.
PreparedInv(w, s) ==
    demotions = 0 =>
        /\ runtime[w].pc = "restored" /\ runtime[w].shard = s =>
               saved \cap SessionsOf(s) \subseteq runtime[w].snapshot
        /\ HasTask(w, s) => \A e \in saved \cap SessionsOf(s) :
               e \in registry[w] \/ (task[w][s].pc = "saved" /\ e = EventInHand(w, s))
        /\ task[w][s].pc = "saved" =>
               \A i \in 1 .. task[w][s].offset - 1 : log[s][i] \in registry[w]

\* All of it; with StoredIsSaved and SessionsFollowTasks it carries the others.
SuperStreamInv ==
    /\ TypeOK /\ LogInv /\ StoredIsSaved /\ SessionsFollowTasks
    /\ \A w \in Worker : RuntimeInv(w) /\ ConsumerInv(w)
    /\ \A w \in Worker, s \in Shard :
        /\ OffsetInv(w, s) /\ MailboxInv(w, s) /\ TurnInv(w, s)
        /\ StreamInv(w, s) /\ PreparedInv(w, s)
=============================================================================

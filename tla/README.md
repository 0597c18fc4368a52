# TLA+ verification of price-streaming

This directory models the concurrent core of the RFQ (request for quote)
real-time pricing platform in TLA+, checks it with TLC on small instances and
proves its most important safety properties with TLAPS for every number of
workers, shards, events and failures.

Source paths are relative to `src/request_for_quote/` of the repository unless
they start with something else.

- [1 The system](#1-the-system): components, state, operations, what is hard
- [2 Plan](#2-plan)
- [3 Modules](#3-modules): which module models which code
- [4 Model checking](#4-model-checking): runs, bounds, fairness, findings
- [5 Proofs](#5-proofs)
- [6 Assumptions and limits](#6-assumptions-and-limits)

## 1 The system

An RFQ is created over HTTP. The RFQ and an outbox event are committed in one
PostgreSQL transaction. Outbox publisher processes claim such events and send
them to a topic whose partitions are the *pricing shards*. The pricing workers
of one consumer group share the shards; the owner of a shard keeps a pricing
session for each RFQ of the shard in memory and durably in PostgreSQL. Prices
and notifications go on to browsers through Redis and WebSockets.

```
 HTTP API --RFQ + event, one transaction--> PostgreSQL outbox_event
                                                 |  claim / mark
                                          outbox publishers (n)
                                                 |  publish
                              Kafka topic  (or RabbitMQ queues / super stream)
                               |  consumer group                     |
                        pricing workers (n)                 notification workers
                  listener -> mailbox -> runtime                    |
                  dispatcher -> queue[shard] -> task[shard]       Redis
                        | sessions      | offsets                   |
                   PostgreSQL        Kafka               WebSocket / SSE clients
```

### Components

| component | state | operations | hard behaviour | what makes it correct | status |
|---|---|---|---|---|---|
| **Pricing worker: shard runtime** `presentation/pricing_worker/main.py` | tasks per shard, the change in hand | take a change; acquire: restore, start the task, complete; release: cancel, await, release sessions, complete | cancellation lands at any await; callback and runtime wait on each other | no wait cycle; nothing held after a release; one owner per shard; a task has all durable sessions of its shard | modelled |
| **Kafka shard ownership** `…/pricing_shared_ownership/kafka/` | mailbox of changes, one future per change | `on_partitions_revoked`, `on_partitions_assigned`, `changes`, `complete`, `cancel_pending` (no caller) | callbacks block the consumer's coordination routine; back-to-back rebalances; shutdown while a callback waits | every waiting future has its change in the mailbox or in hand | modelled |
| **Kafka RFQ event subscriber** `…/pricing_rfq_domain_events_subscriber/kafka/` | queue and pending deliveries per shard | dispatcher `run`, `subscribe` (and its `finally`), `ack` with commit | dispatcher, ack and the `finally` share `_pendings`; leftovers of an earlier ownership; late commits; a dispatcher that dies unnoticed | no commit before the session is durable; no event jumped over; offsets never go back | modelled |
| **Pricing session use cases** `application/pricing/use_case/{handle_rfq_registered,restore_pricing_shard,release_pricing_shard}.py` | — | register, restore, release | failure or cancellation between save, registry and commit | a saved session reaches every later owner | modelled |
| **Pricing session storage** in-memory and SQLAlchemy stores, unit of work | registry, session rows | add, list, remove; transactions | — | see above | modelled |
| **Kafka shard resolver and partition router** | — | event to shard | must agree with the producer's partitioner | a function | partly: the constant `ShardOf` |
| **Pricing backend bootstrap** `bootstrap/provider/pricing.py` | consumer or channel, dispatcher task | start-up and shutdown order, `auto_offset_reset` | stop waits for a callback; no committed offset | a worker that stops comes to its end; unacknowledged deliveries come again | modelled, for the three backends |
| **Outbox publisher** `application/outbox/…`, `presentation/outbox_publisher/main.py` | the claimed batch | claim, publish, mark published, mark failed | crash or error between any two; a claim lapses while its batch is sent | an event is marked only after the broker has it; every stored event is published in the end | modelled |
| **Outbox table** `…/outbox_repository/sql_alchemy_repository.py` | rows, `claim_id`, `claimed_until`, `published_at` | `claim_pending` (FOR UPDATE SKIP LOCKED), `mark_published`, `mark_failed` | two publishers select and mark at once; a mark for a row claimed anew | one claimant per row; a published row has no claim | modelled |
| **Kafka event publisher and router** | — | `publish`, `resolve_topic` | an error after the broker has the record | — | modelled (three outcomes of `publish`) |
| **RFQ creation** `application/rfq/use_case/create_rfq.py` | RFQ and outbox row | one transaction | the commit comes through, its confirmation does not | no event without its RFQ and vice versa | modelled |
| **RFQ change and stop** `application/rfq/use_case/{change_rfq,stop_rfq_pricing}.py` | — | every step up to the exception | the changed RFQ is in the session when the exception comes | a new revision is committed with its event or not at all | modelled |
| **Pricing change, stop, market update** | — | — | wired into no process | — | not modelled |
| **PostgreSQL shard leases** `…/pricing_shared_ownership/postgres/` | lease rows, `_owned` | renew, report lost, claim, report acquired | a renewal that comes late; expiry during a long restore; a restart under the same name; skipped rows | without a lapse one holder per shard; never more than the maximum | modelled |
| **RabbitMQ quorum subscriber** `…/pricing_rfq_domain_events_subscriber/rabbitmq/` | buffer of the iterator, unacknowledged deliveries | subscribe, ack, closing the iterator | cancellation at each await; one channel for all shards; acknowledgement after the lease is lost | no message is gone before its session is durable; handling of a shard is serial | modelled |
| **RabbitMQ super-stream ownership and subscriber** `…/rabbitmq_super_stream/` | mailbox, queue per shard, stored offset | listener, `on_message`, subscribe, ack | the listener does not wait for the runtime; `subscribe` has no `finally`; late `store_offset` | as for Kafka, where it can hold | modelled |
| **RabbitMQ topology, publisher, stable resolver** | — | declare, publish | — | a function | partly: `Publish`, `ShardOf` |
| **Notification worker** `presentation/notification_worker/main.py` | the record in work, notification rows | find, save, push to Redis, commit the offset | crash between save and push; two workers with one record; rebalances nobody waits for | one notification and at most one push per event; no commit ahead of the table | partly: the Kafka side |
| **Realtime distribution** Redis subscribers, WebSocket routers | `_request_ids`, `_has_subscription`, the PubSub | `set_request_ids`, `updates`, `close` | two tasks share the PubSub; awaits between subscribe, unsubscribe and the assignment; cancellation | the client gets the updates of what it asked for last; nothing is left behind | partly: the pricing WebSocket |
| **RFQ HTTP API, RFQ domain model** `presentation/fastapi/routers/rfq.py`, `domain/rfq/` | requests in work | create, change, stop, get, list | requests interleave; an answer after a crash | what was answered stays | modelled |
| **Market data, swap pricing and products** | — | numerical code | — | unit tests of the repository | not modelled |
| **Superseded code** | — | imported by nothing that runs | — | — | not modelled |

`PROJECT.json` names the files of every component and lists, under `hazards`,
what can go wrong in this code at which line, with the properties that cover
it. The repository's tests cover pure domain code (`test/`: products, curves, a
QuantLib integration test); there is no test for any of the concurrent parts.

### How the components interact

- The consumer's coordination routine calls the rebalance listener and waits in
  it; the listener puts one change per shard into the runtime's mailbox and
  waits for one future per change; the runtime completes them one by one.
- The dispatcher, a task beside the runtime's TaskGroup, appends deliveries to
  the shard queues; a shard task takes from its queue, saves the session,
  registers it, and acknowledges, which commits the offset.
- Pricing workers meet in the broker (membership, assignment, offsets) and in
  the session table; outbox publishers meet in the outbox table only.
- Outbox and pricing workers are coupled by the topic: the outbox may send an
  event twice, and so the topic of the workers' model has copies.

## 2 Plan

In order of importance. Every stage is done; what is left is listed below them.

1. **KafkaPricingWorker** – the Kafka backend of the pricing worker with broker,
   coordinator and database.
2. **OutboxRelay** refining **AtLeastOnceRelay**.
3. **ShardLease** – the lease loop against one lease table, time as an event.
4. **QuorumWorker** – runtime and quorum-queue subscriber on top of ShardLease.
5. **SuperStreamWorker** – ownership without hand-over, leftover queues, the
   stored offset.
6. **NotificationWorker** and **RealtimeSubscription** – the two ways to the
   browser.
7. **RfqApi** refining **RfqRegistry** – the HTTP endpoints and their
   transactions.
8. **Pipeline** – OutboxRelay and KafkaPricingWorker joined at the topic.

Every safety property that a run checks is also proved (section 5). Left: a
pipeline over the other two brokers, and what the liveness properties rest on, as
far as it can be said without fairness.

## 3 Modules

| module | contents |
|---|---|
| `AtLeastOnceRelay` | abstract specification: an event is confirmed only after the broker has it |
| `OutboxRelay` | outbox table and publisher processes; INSTANCE of AtLeastOnceRelay |
| `OutboxRelayMC` | values of its constants |
| `OutboxRelay_proofs` | its invariant, the refinement, the causes of copies |
| `KafkaPricingWorker` | pricing workers of one consumer group, Kafka, coordinator, session table |
| `KafkaPricingWorkerMC` | values of its constants |
| `KafkaPricingWorker_proofs` | type correctness, hand-over, handshake, acknowledgement; everything committed is durable, nothing skipped; one owner per shard, with all its sessions; commits advance |
| `ShardLease` | PostgreSQL leases: table and loops |
| `QuorumWorker` | extends `ShardLease` by queues, runtime and shard tasks |
| `QuorumWorkerMC` | values of its constants |
| `QuorumWorker_proofs` | the leases: invariant, exclusion, capacity; it implements them, and its own invariants |
| `SuperStreamWorker`, `…MC`, `…_proofs` | pricing workers on a super stream |
| `NotificationWorker`, `…MC`, `…_proofs` | notification workers of one group, Kafka, table, Redis |
| `RealtimeSubscription`, `…MC`, `…_proofs` | one pricing WebSocket and its Redis connection |
| `RfqRegistry` | abstract specification: every revision of an RFQ is stored in the step that announces it |
| `RfqApi`, `…MC`, `…_proofs` | the RFQ endpoints; INSTANCE of RfqRegistry |
| `Pipeline`, `PipelineMC` | INSTANCE of OutboxRelay and of KafkaPricingWorker, joined |
| `Pipeline_proofs` | both sides keep to their modules; nothing published is lost |

### KafkaPricingWorker

A worker is one asyncio process, so the code between two awaits is one action,
and an await where another task, the broker or the database can come in between
separates two actions.

| state | code |
|---|---|
| `log`, `committed`, `rebalancing`, `members`, `joined`, `assignment` | Kafka and its group coordinator, as `aiokafka` shows them to the worker (external) |
| `saved` | committed rows of the session table |
| `status` | process: `down`, `running`, or `stopping` (in the `finally` of the bootstrap) |
| `callback` | where the consumer's coordination routine is: `joining`, in `on_partitions_assigned` (`assigning`), `stable`, in `on_partitions_revoked` (`revoking`) |
| `assigned` | the consumer's assignment |
| `mailbox`, `completions` | `_changes` and the open futures of `_completions` |
| `runtime`, `task` | `run_owned_pricing_shards` and its `shard_tasks` |
| `queue`, `pendings`, `position` | `_queues`, `_pendings` and the fetch position, as offsets |
| `dispatching` | the dispatcher task is alive |
| `registry` | the in-memory session store |

`mailbox` and `completions` are sets because a callback publishes at most one
change per shard and waits for all of them, and the order within one callback is
open: the code iterates over the Python set of partitions it is given. Pricing itself is not
reached in this process: nothing fills its market state, so
`HandleRfqRegisteredUseCase` ends after the registry.

The actions follow the life of a shard: `Join`, `CompleteRebalance`,
`OnPartitionsAssigned`, `BeginAcquire`, `ReadSessions`, `FinishAcquire`,
`CallbackReturns`; `ResetPosition`, `Dispatch`, `TakeDelivery`, `SaveSession`,
`ActivateAndAck`, `CommitOffset`, `AckReturns`; `OnPartitionsRevoked`,
`BeginRelease`, `TaskStops`, `FinishRelease`, `CallbackReturns`. What can go
wrong at each: `Evict`, `DropMember`, `CommitRejected`, `DispatcherDies`,
`WorkerFails`, `StopConsumer`, `Crash`. After `task.cancel()` no code of the task
runs any more (`Cancelling`), but a database commit or an offset commit that is
under way can still come through: `SaveSession` and `CommitOffset` do not ask for
`~Cancelling`.

### OutboxRelay

A transaction is one action, except for the claim: its `SELECT … FOR UPDATE SKIP
LOCKED` and its commit are two (`SelectPending`, `CommitClaim`), because other
publishers' claims skip, and their marks wait for, the rows locked in between.
`claim` is `claim_id` abstracted to what the code asks of it (is it the running
`execute()`'s own, another's, or of nobody: `Orphan`); `lapsed` is the set of
rows whose `claimed_until` is over; `batch` the rest of the loop's rows. `publish`
has its three outcomes in `Deliver`, `Reject` and `PublishRaises`, which may come
after the broker has the event. `ClaimRaises` and `MarkRaises` are failed
transactions, rolled back or committed without the client's knowing. A process
is not restarted by anything in the repository; `Start` may, but need not, happen.

`Relay == INSTANCE AtLeastOnceRelay` maps `stored`, `sent` and `published` to
themselves; claims, locks and time are what it hides. Its content is that
`published_at` is set only for events the broker has, whatever goes wrong in
between, and that a late copy does no more than repeat an event.

### ShardLease and QuorumWorker

`ShardLease` is the loop of `changes()` for every worker. `loop` says where it
is: `renewing` (`_renew_owned`), `losing` (reporting lost shards, then
`_claim_available`), `gaining` (reporting claimed ones, then sleeping); `owned` is
`_owned`, `todo` what is left of `lost` or `acquired`, `change` the change the
runtime works on. A yield hands over one change and the loop goes on when the
runtime asks for the next (`Resumed`). A transaction is one action. Time is an
event: `LapseUnheld` and `LapseHeld` put a row into `expired`; the second, a lease
that passes under its holder, is what a long restore, a busy event loop or a slow
database leads to, and it is counted (`lapses`), so that properties can say "as
long as every holder renews in time".

`QuorumWorker` extends it. `ready` and `consumers` are a queue with single active
consumer; `buffer` is the one prefetched message of the open iterator, `task` the
shard task and the message in work, `unreturned` the messages that are
unacknowledged on the channel without a consumer any more. The actions are those
of the runtime (`ReadSessions`, `FinishAcquire`, `CancelTask`, `FinishRelease`), of
a task (`Consume`, `TakeMessage`, `SaveSession`, `Activate`, `AckArrives`,
`AckReturns`) and of its cancellation, which differs by place: while it waits in
the iterator, its `async with` returns the buffer before the task ends
(`TaskStopsInIterator`); in the body, asyncio closes the generator later
(`TaskStopsInBody`, `GeneratorCloses`), and the message in work stays on the
channel. `Lease`, `Start`, `ProcessEnds` and `Lapse` carry the steps of `ShardLease`.

### SuperStreamWorker

Same runtime, other ends: `OnActive`, `QueryOffset` and `OnInactive` are the two
branches of `on_consumer_update` (the broker hands the partition on as soon as the
listener returns); `OnMessage` fills `queue`; `StoreOffset` is `ack`. `stored` is
shifted by one, so that a consumer always starts behind it, as the code's
`stored_offset + 1` and its `OffsetNotFound` branch do. `TaskStops` leaves the queue
alone: `subscribe` has no `finally`. `demotions` counts partitions taken from a live
consumer, `returns` those that come back to a process which has had them.

### NotificationWorker

`loop` is where `consume_rfq_domain_events` is with its record: `FindBySource`,
`SaveNotification` (or `SaveConflicts`, the unique constraint), `PublishNotification`,
`Ack` (or `AckFails`: the partition is gone). There is no rebalance listener, so
`Assign` moves a partition, or sets back its position, whatever is in work. `rows`
and `pushes` count notifications and Redis messages per event.

### RealtimeSubscription

Steps from one await to the next of `_receive_commands` (`ReceiveCommand`,
`SubscribeAdded`, `UnsubscribeRemoved`), `_send_updates` (`ReadReply`, `ListenEnds`,
`SendUpdate`) and the handler (`CancelPending`, `PendingTaskStops`, `Close`), with the
bookkeeping of redis.asyncio's PubSub that the code relies on (`channels`,
`unsubscribing`: a channel goes when the answer to its unsubscribe is read, unless
it has been subscribed again) and a connection that keeps the order.

### RfqApi

One call per request, with its session (`row`, `events`): what is in it is seen by
nobody before `Commit`. `ChangeFails` and `StopFails` are the exceptions in which
change and stop end in the present code (see 4, divergences). `Registry ==
INSTANCE RfqRegistry` maps the committed RFQs and the outbox to `registered` and
`announced`. The registry has two steps, `Register` and `Change`; the second is the
change as the repository's README describes it (306–327, 385–401): the next revision
and its event in one transaction. The present code never takes it, and `RegistrySpec`
would go on to hold if it did. What it rules out are rows without their event and
events without their row, for change requests as well: a `save` that committed by
itself would break it. `RfqHasItsEvent` and `AnswersAreKept` say more, and are stated
for the present code, in which the only revision that is ever committed is the first:
with a change that commits, the outbox would also hold the events of older revisions,
and an answer would be kept in its revision or a later one.

### Pipeline

`Relay` joins the outbox's `Deliver` with the topic's `Publish`, and nothing else
writes to the topic; all other steps are the two modules' own. The variables and
bounds are handed through; `PipelineAssumption` says that the bound of the log
never holds the outbox back, `SidesAssumption` that the constants are what the two
modules ask for.

Operators whose comment begins with "Mutant" are no part of the specifications:
each is a plausible bug (a dropped guard, a missing reset, a swapped order) that
one of the properties finds when it takes the place of the real definition.

## 4 Model checking

`CHECK_DEADLOCK FALSE` everywhere: workers may stop for good, the bounds run
out, and polling without a row is a stuttering step. The bounds are all
constants (`Max…`).

| run | instance | distinct states | properties |
|---|---|---|---|
| `shards` | 2 workers, 2 shards, one event each, 1 failure, no eviction | 143,983 | `RevokeLeavesNothing`, `CallbackIsServed`, `OneOwner`, `OwnerHasAllSessions` |
| `evictions` | 2 workers, 1 shard, log of 3 records from 2 events, copies, one of them unreadable, 1 failure, 1 eviction | 415,754 | `InductiveInv`, `CommittedIsSaved`, `NothingSkipped`, `DeliveryIsPending`, `CommitNeverRegresses` |
| `live` | 2 workers, 1 shard, one event sent twice, 1 failure, 1 eviction, fairness | 145,855 | `EventuallyHandled` |
| `fresh_group` | no committed offset, one record, 1 failure, fairness | violation | `UnackedIsRedelivered` |
| `shutdown` | one record, 1 failure, fairness | violation | `ShutdownReleasesCallback` |
| `outbox` | 2 publishers, 3 events (the first unroutable), claims of 2 rows, 2 faults, 2 lapses, fairness | 347,120 | `OneClaimant`, `CopiesAreExplained`, `ClaimInForceIsKept`, `RelaySpec`, `EventuallyPublished` |
| `quorum` | 2 workers, 1 lease and queue, 3 events (one unreadable), 1 lapse under a holder, fairness | 251,434 | `GoneIsSaved`, `HandlingIsSerial`, `OwnerIsPrepared`, `OneOwner`, `SessionsFollowShards`, `EventuallyHandled` |
| `super_stream` | 2 workers, 1 partition, log of 2 records from 2 events, taken from a live consumer once, back once, fairness | 90,980 | `SuperStreamInv`, `StoredIsSaved`, `OwnerIsPrepared`, `SessionsFollowTasks`, `NeverAcquiredTwice`, `EventuallyHandled` |
| `notification` | 2 workers, 2 partitions, log of 2 records each from 3 events (one unreadable), 2 rebalances, 1 fault, fairness | 124,438 | `PushedAtMostOnce`, `CommittedIsNotified`, `PushesAreLostByFaults`, `EventuallyNotified` |
| `realtime` | 2 channels, 4 payloads of the client, 2 updates, fairness | 548,992 | `NeverSpins`, `SubscriptionsAgree`, `LastRequestIsServed`, `EndLeavesNothing` |
| `rfq_api` | 3 calls of any kind, 2 products, 2 faults | 51,923 | `RfqHasItsEvent`, `AnswersAreKept`, `RegistrySpec` |
| `pipeline` | 1 publisher, 2 pricing workers, 1 event sent up to twice, 1 fault, 1 failure, fairness | 115,876 | `NothingLost`, `EventuallyPriced` |

What they show:

- **shards**: two shards are the least at which one shard moves while another
  stays with the same worker, at which the mailbox holds more than one change,
  and at which a restore could take sessions of the wrong shard. Callback and
  runtime never wait on each other; after the revoke callback nothing of the old
  ownership is left; as long as nobody who still works is evicted, no session and
  no shard is held twice and an owner has every durable session.
- **evictions**: one shard, but everything that bends the order of offsets: a
  member that the coordinator has timed out goes on with its deliveries and
  commits late, records come twice, a record cannot be read. With three records a
  worker can have one in hand and two in the queue, and the other owner can be
  behind or ahead of it. Nothing is committed before it is durable, nothing is
  jumped over, and the committed offset never goes back.
- **live**: while some worker stays up, every event in the log is handled and
  committed, and its session is held by a worker that consumes the shard, after
  any crash, error, or eviction of the other.
- **outbox**: three events and claims of two make full and partial batches, a
  second claim while the first is worked on, and a claim over an orphaned one.
  A worker whose claim has lapsed goes on, and its mark comes when the row is
  another's: it leaves that claim alone (`ClaimInForceIsKept`; the marks ask for
  their `claim_id`). Two lapses and two faults let a claim lapse twice, or a crash follow an error.
  An event that can be published is published and marked in the end, past dead
  workers' claims and past an event that always fails and is first in order. This
  needs fewer always-failing events than rows of a claim: failed rows can be
  claimed again at once and come first by `occurred_at`, so 100 of them would fill
  every claim and no later event would ever be selected.
- **quorum**: two readable messages on one queue are the least at which two tasks
  could handle a shard at once. Whatever lapses, is cancelled at whichever await,
  or is killed, a message the broker no longer has is durable, and handling is
  serial: where two workers take the shard for their own after a lapse, the single
  active consumer keeps them apart. A released shard leaves no session behind.
  While leases are renewed in time the owner is alone and has all durable sessions,
  and every readable message is handled and gone from the queue in the end: dead
  owners' leases come free and are claimed. The unreadable message ends one worker
  after the other. With one shard the maximum per worker is never the limit;
  `LeaseCapacity` is proved instead.
- **super_stream**: a partition that is taken from a live consumer while its
  changes still lie in the mailbox, that comes back to the same process, or passes
  on by crashes. The runtime never meets a second acquisition; sessions exist only
  for tasks; every offset anybody holds lies in the log. `StoredIsSaved` is stated
  up to the first return of a partition and `OwnerIsPrepared` up to the first
  demotion of a live consumer, because beyond that the code does not keep them
  (below); crashes and late `store_offset`s of an old owner are inside.
- **notification**: two records per partition let one worker save while the other
  has its partition; copies and set-back positions let both have one event.
- **realtime**: four payloads are the least at which a channel is dropped, taken
  again and dropped again while answers are still on their way.
- **rfq_api**: create, change, stop, get and list interleave; a commit whose
  confirmation is lost, a rollback and a crash are the faults. What a request saves
  before it fails is never seen. The run says nothing of a change that succeeds: there
  is none (below).
- **pipeline**: an error or crash of the publisher at any step, together with a
  failure of a pricing worker at any step. What the outbox counts as published is
  durable or in the topic behind the committed offset; in the end it has its
  session with the worker that consumes its shard. Neither module's runs can say
  this: each leaves the other side to an arbitrary environment.

**Symmetry** (of workers, or of calls and products) is used in the runs without
liveness only: `shards`, `evictions`, `rfq_api`.

**Fairness.** `FairSpec` has weak fairness of each worker's own steps (an event
loop runs every task that is ready; the database and the broker answer) and of
the coordinator (it enforces its timeouts and hands out assignments), and, for
the outbox, of time passing for a claim that was given up. There is none on
`Start` (nothing in the repository restarts a process), on failures or on
evictions. The liveness properties therefore begin with "some worker stays up
from some time on". `live` has no unreadable event: with one, the dispatcher of
each owner dies in turn and the shard stands still, as `DispatcherDies` says and
the hazard list records.
For the other modules: each loop, runtime and shard task has weak fairness of
its own (per worker, and per worker and shard where tasks run beside each other),
Redis answers, Kafka assigns a partition nobody has, the stream broker activates
some connected consumer, and the lease of a dead owner passes. There is none on
starts, ends and faults of processes, on lapses under a holder, rebalances or
demotions. `Settled` (every process stays up or down from some time on) replaces
"some worker stays up" where a worker that comes and goes for ever would take the
shard away each time. `EventuallyHandled` of `quorum` also assumes that no lease
lapses under its holder, and that of `super_stream` that no live consumer is
demoted: otherwise a session can end up in the table without being in the owner's
memory (below).

### Findings

- `fresh_group`: the pricing consumer leaves `auto_offset_reset` at `latest`.
  Before the group's first commit on a partition, an event that a worker took but
  did not acknowledge is not delivered to the next owner, which fetches from the
  end; the comment in `subscribe` says that the new owner gets it again, and the
  repository's README promises at-least-once delivery.
- `shutdown`: `cancel_pending()` is documented as releasing a waiting rebalance
  callback at process shutdown, but has no caller. When an exception ends the
  runtime while a callback waits, `consumer.stop()` waits for the callback and
  the process never ends.

### Known divergences without a run

Properties stop where the code stops keeping them; these are the places, each met
while the property was checked without its condition.

- *Own lease reclaimed* (`postgres_pricing_shared_ownership.py:243`): a claim takes
  every expired row, the process's own included. A lease that passes between
  renewal and claim of one round is reported as acquired again, the runtime raises
  "Shard already acquired", and the worker ends (`YieldAcquired`). The docstring of
  `changes()` speaks of free shards and newly taken ones.
- *Message kept on the channel* (`…/rabbitmq/pricing_rfq_domain_events_subscriber.py:80`):
  the comment at 108–109 has an unacknowledged message delivered again when
  "channel / consumer" end. The channel is the process's; after a cancellation in
  the body only the consumer ends, and the message waits in `unreturned` until the
  process ends.
- *Restore before the last save*: `main.py:229-232` wants the state ready before
  events are handled. With leases the old owner may still be saving after a lapse;
  on a super stream whenever a partition moves between live workers, since the
  listener does not wait. The session saved last is in the table, its message or
  offset is done, and the new owner never holds it.
- *A partition that returns* (`rabbitmq_super_stream/…subscriber.py:86-93`): the
  queue of the earlier turn is still there and is worked off first. Its
  acknowledgement stores an offset behind the delivery whose save was cancelled;
  the next owner starts behind it, and the event is lost.
- *Fresh notification group* (`bootstrap/provider/rfq_events.py:104-109`): as in
  `fresh_group`, the first commit may cover records that were never notified
  (`FreshGroup = TRUE`).
- *RFQ change and stop*: the repository's README lists both as working (95–96) and
  describes a change that commits the RFQ's next revision, its pricing request and a
  `Changed` event in one transaction (306–327, 385–401). In the code no change
  commits: `ChangeRfqUseCase` calls `get_pricing_request_repository`, which the unit of
  work does not have (`change_rfq.py:55`), after it has saved the new revision into the
  session; `StopRfqPricingUseCase` builds an `OutboxEvent` without four of its fields.
  Every such request ends in a rollback and a 500 (`ChangeFails`, `StopFails`). It has
  no run because nothing has to interleave for it: the first request shows it.

## 5 Proofs

All constants are arbitrary: any sets of workers, shards and events, any bounds;
the only assumptions are the modules' own `ASSUME`s (`ConstantsAssumption`,
`LeaseAssumption`, `QuorumAssumption`, …), which TLC evaluates in the runs.

| theorem | statement |
|---|---|
| `Inductive`, `TypeCorrect` | `Spec => []InductiveInv`, `Spec => []TypeOK` |
| `HandOver` | a worker that rejoins holds no session, task, queue or pending delivery |
| `NoHandshakeDeadlock` | a waiting callback always has its change in the mailbox or in the runtime's hands |
| `AckKnowsDelivery` | a delivery in work is known to `ack` |
| `DurabilityHolds` | `InitialCommit = 0 /\ Spec => []DurableInv` |
| `AtLeastOnce` | `InitialCommit = 0 /\ Spec => []CommittedIsSaved` |
| `NoEventSkipped` | `InitialCommit = 0 /\ Spec => []NothingSkipped` |
| `OwnershipHolds` | `Spec => []OwnershipInv` |
| `OneOwnerOfAShard`, `OwnersHoldSessions` | `OneOwner`, `OwnerHasAllSessions`: as long as nobody who works is evicted |
| `CommitsAdvance` | `Spec => CommitNeverRegresses`, evictions included |
| `OutboxInductive`, `OutboxTypeCorrect` | `Spec => []InductiveInv`, `Spec => []TypeOK` |
| `PublishedStaysUnclaimed` | a published row is never in a claim |
| `ClaimIsExclusive` | two publishers work on one event only after a claim lapsed |
| `ClaimsInForceStay` | `Spec => ClaimInForceIsKept`: no late mark takes away a claim that has not lapsed |
| `OutboxRefines` | `Spec => RelaySpec` |
| `CopiesHaveCauses` | `Spec => []CopiesAreExplained`: a copy too many has an error, a crash or a lapse as its cause |
| `LeaseCorrect`, `LeaseExclusive`, `LeaseCapacity` | rows and loops agree; without a lapse one holder per shard; never more than the maximum |
| `QuorumImplementsLeases` | `Spec => LeaseSpec`: quorum workers obey the lease protocol |
| `QuorumCorrect`, `SessionsStayWithShards`, `MessagesAreKept`, `ShardsHaveOneOwner` | `QuorumInv`, `SessionsFollowShards`, `GoneIsSaved`, `OneOwner` |
| `HandlingHasOneWorker`, `OwnersArePrepared` | `HandlingIsSerial`, lapses included; `OwnerIsPrepared` |
| `SuperStreamCorrect`, `SuperStreamTypes` | `Spec => []SuperStreamInv`, `Spec => []TypeOK` |
| `SuperStreamAtLeastOnce`, `SuperStreamSessions`, `SuperStreamAlternates`, `SuperStreamPrepared` | `StoredIsSaved`, `SessionsFollowTasks`, `NeverAcquiredTwice`, `OwnerIsPrepared` |
| `NotificationsInvariant`, `PushedOnce`, `LostPushesAreFaults` | `PushInv`, `PushedAtMostOnce`, `PushesAreLostByFaults`, fresh group or not |
| `OffsetsInvariant`, `CommittedNotified` | `FreshGroup = FALSE /\ Spec => …` of `NotificationInv`, `CommittedIsNotified` |
| `RealtimeCorrect`, `SenderNeverSpins`, `SubscriptionsInAgreement` | `RealtimeInv`, `NeverSpins`, `SubscriptionsAgree` |
| `RfqApiCorrect`, `RfqAndEventTogether`, `AnswersKept` | `RfqInv`, `RfqHasItsEvent`, `AnswersAreKept` |
| `ImplementsRegistry` | `Spec => RegistrySpec` |
| `OutboxIsOutboxRelay`, `PricingIsKafkaPricingWorker` | of `Pipeline`: `Spec => Outbox!Spec`, `Spec => Pricing!Spec` |
| `NothingIsLost` | `InitialCommit = 0 /\ Spec => []NothingLost` |

**KafkaPricingWorker.** None of the properties is inductive by itself. That the
revoke callback leaves nothing behind depends on the futures: `HandshakeInv` says
that the open futures are exactly the changes in the mailbox and in the runtime's
hand, and for every state of the callback which shards then have tasks;
`HoldingsInv` that sessions, queues and pending deliveries belong to shards whose
release is still open. `StreamInv` says that a shard's queue is the stretch of the
log just before the fetch position and that the delivery in hand is the one
before the queue; without it nothing bounds the offset of a commit. `LifecycleInv`
says that a process that does not run remembers nothing. Their conjunction with
`TypeOK` and `LogInv` is `InductiveInv`. Most actions touch one worker, so the
step proof takes the worker's own invariants action by action (the lemmas
`…Local`) and the others' by "untouched" (`OthersUntouched`, `UntouchedKeeps`).

`DurableInv` is proved on top of it: every offset before the delivery in hand is
durable, hence so is every offset that a commit may carry, and a fetch position
restored from `committed` again has only durable offsets before it. `InitialCommit
= 0` is needed: without a committed offset a fetch begins at the end of the log,
and what lies before it was perhaps never handled. That is the first finding.

`OwnershipInv` is proved on top of `InductiveInv` as well, and needs no
`InitialCommit`. A generation gives disjoint shares (`GroupInv`), a member works
with its share of the present one, and a worker that is not evicted stays a member
until it has given everything back (`GenerationInv`): the coordinator hands out the
next generation only when every member has joined again, that is, has come through
its revoke callback. Hence `OneOwner`. `CommitNeverRegresses` cannot count on that,
because an evicted worker goes on; what it counts on is that the broker rejects its
commits, and that a member's stream has started from `committed` and is never behind
it (`FollowInv`). For `OwnerHasAllSessions`, `PreparedInv` follows an acquire from the
read of the session table to the task: nobody else saves sessions of the shard
meanwhile, so the snapshot has them all (`OnlyOwnerSaves`). It says nothing after an
eviction, where the old owner may still save.

**OutboxRelay.** `PublishedIsUnclaimed` needs that a row selected by a claim under
way is locked (`LocksAreDisjoint`, `BatchInv`): only the lock keeps it from being
marked between the selection and the commit. `OneClaimant` needs that a worker at
work has the claim of all of its batch unless a claim lapsed under it
(`NoLapseInv`). `ClaimInForceIsKept` goes beyond the first lapse: what a claim under
way has selected is unclaimed or lapsed (`BatchInv`), and a mark changes only a claim
of the worker that marks (`ClaimStep`). The refinement needs from `BatchInv` that the broker has the event
at `pc = "sent"`. Each step is then a step of the relay (`NextRefines`): `Store`
and `Deliver` are its own, a mark that sets `published_at` is `Confirm`, and the
rest stutters.

`CopiesAreExplained` is a matter of accounts. Besides the copies sent there are those
that may still come with no further failure: one for each worker that has the event
in hand and has not sent it (`Turns`), and one if the event can be claimed (`Open`).
`CopiesInv` says that all of them together are at most `1 + faults + lapses`. A claim
takes its turn in place of the opening, a delivery its copy in place of the turn, a
failed mark opens again in place of the turn it had; a fault or a lapse pays for one
opening or one turn. The row lock is what keeps two workers from taking two turns for
one opening. The sum over the workers is a cardinality, so each step is reduced to
what the one worker that moves contributes (`Load`, `TurnsOfOne`).

**ShardLease and QuorumWorker.** `LeaseIsExclusive` is not inductive: a row says
nothing of a process that has not yet reported a claim. `HoldersHaveLeases` says that
without a lapse whoever holds a shard, or is about to report it, has its row and a
lease that is not over, and hence that nothing is ever lost. `LeaseCapacity` needs
that a claim counts what is owned and that nothing is added in between. Each step of
`QuorumWorker` is a step of the lease protocol or leaves it alone, so
`QuorumImplementsLeases` brings `LeaseInv` over; on top of it `QuorumInv` follows each
message: it is in `ready`, in a buffer, in work or unreturned, or it is durable
(`GoneIsSaved`), and a task acknowledges only what is saved (`TaskInv`). `OneOwner` then
follows from both. `HandlingIsSerial` must not rest on leases: `ConsumerInv` says that a
process is registered at most once per queue, and that what is in its buffer or in
work came to it as the first of the queue's consumers, which there is one of. It stays
the first until its task is closed, whatever becomes of its lease. `OwnerIsPrepared`
does rest on them (`PreparedInv`): without a lapse only the owner saves.

**SuperStreamWorker.** The listener does not wait for the runtime, so nothing says at
once what a process has. `MailboxInv` says it of the sequence: for each shard, what the
runtime has, the changes that wait, and the broker's present view alternate
(`Successive`), which is `NeverAcquiredTwice` and holds without conditions. `OffsetInv`
keeps every offset inside the log, however late it is stored and by whom. `StoredIsSaved`
needs `StreamInv`: while no partition came back, the queue is the stretch of the log
between the delivery in hand and the position, and what lies before it is saved;
`TurnInv` says that a process which takes a partition for the first time has nothing of
an earlier turn. A `store_offset` of an old owner that lands late may set `stored` back
but never ahead of what is saved. `OwnerIsPrepared` needs that, while no live consumer
lost a partition, whoever ever had one has it (`ConsumerInv`), so that nobody else saves
(`PreparedInv`). `returns = 0` and `demotions = 0` stand in both for the divergences of
section 4, and are needed for the same reasons.

**NotificationWorker.** `PushInv` holds for any group: the push of an event is owed by
at most one worker, the one whose save came through (`HandInv`). `OffsetInv` adds, for a
group with offsets, that whatever lies before a position, a record in work or a
committed offset is notified; a set-back position starts from `committed`.

**RealtimeSubscription.** What Redis serves after all commands on the connection is
decided by the last command about a channel (`LastAbout`); `ConnectionInv` says that it
is what the PubSub holds and is not about to drop, and `ChannelsInv` that this is what
the handler asked for.

**RfqApi.** Only `Commit` and `CommitUnconfirmed` write, and only for a create that has
been dispatched; `RfqInv` says what its session contains then, so both tables change
together, which is one `Register` of the registry; its `Change` is never needed.

**Pipeline.** `Pipeline_proofs` takes what is proved of the two modules over, as
instances of their proof modules (`OutboxSide`, `PricingSide`): the lemmas `Same…` say
that these define what `Pipeline`'s own instances define. A step of the composition is
one of each side or leaves it alone (`StepOfEachSide`), which gives both refinements; that
what a publisher hands over is an event, and so an input the topic's module knows, needs
the outbox's invariant. `PipelineInv` adds what neither side can say: what counts as
published was sent, and what was sent is in the topic. A record at or before the
committed offset is durable by `DurableInv`, and one behind it is still to come.

**Only model-checked**: liveness, which is out of the proof system's reach
(`EventuallyHandled` of the three backends, `EventuallyPublished`, `EventuallyNotified`,
`EventuallyPriced`, `LastRequestIsServed`, `EndLeavesNothing`). The inductive
invariants that no run lists (`OutboxRelay`'s `InductiveInv`, `LeaseInv`, `QuorumInv`,
`NotificationInv`, `RealtimeInv`, `RfqInv`, `DurableInv`, `OwnershipInv`, `CopiesInv`,
`PipelineInv`, and `TypeOK` inside them) are established by their theorems; each was
also checked by TLC, on the instances of the runs, before it was proved.

## 6 Assumptions and limits

Kafka (`aiokafka`), PostgreSQL and asyncio are modelled by how the code uses them:

- The resolver's partition is the producer's partition (`ShardOf`): both sides
  use the same default partitioner.
- The coordinator rejects the commit of a member it has removed. A commit of a
  member it still counts is accepted, also while the group rebalances.
- `subscribe`'s `finally` runs when its iterator is closed. A cancellation inside the
  iterator (waiting for a delivery) runs it as the task unwinds. One in the body of
  the loop (saving, acknowledging) leaves the iterator to asyncio's hook for
  asynchronous generators, which closes it one turn of the event loop later, when the
  runtime may already have gone on, but before the rebalance callback, which has to
  be woken by the runtime, returns. `TaskStops` does both at once: the
  shard has no task in between that could take from its queue or acknowledge.
- `main.py:268` swallows `CancelledError` while a released task is awaited, also the
  one with which the failure of another shard's task cancels the runtime itself. A
  revoke releases every shard, so the runtime comes to await the failed task in the
  same callback, and its exception ends it there. `WorkerFails` ends it at once.
- A database commit that a cancelled task had asked for comes through before the
  release has ended, or not at all.
- A new process of a worker starts only after its predecessor's membership timed
  out: with another name it is another worker.
- `_deserialize` rejects a record because of the record, always. Payload, revision
  and price data are left out; an event stands for its session.
- Outbox publishers' clocks agree on `claimed_until`; `occurred_at` values are
  distinct. `attempt_count` and the column `published` are written but read by no
  decision and left out.
- A record that reaches the broker long after `publish` raised, and retries inside
  the producer, are not distinguished from `PublishRaises` after `Deliver` and from
  further copies (`MaxCopies` on the workers' side).
- Claims lapse under their worker at most `MaxLapses` times. In the code this takes
  more than 30 s for a batch of up to 100 events.

- RabbitMQ: `basic.cancel` reaches the broker before a later `basic.consume` on the same
  channel; the prefetch of one is per consumer; a robust reconnection, and a
  cancellation during the consume RPC itself, are not modelled; a process starts only
  after its predecessor's connection is closed. `publish` stands for confirmed messages.
- No message is returned to its quorum queue more often than the broker's delivery
  limit. `topology.py` sets no `x-delivery-limit`, and RabbitMQ 4 (`compose.yaml` has
  4.3.6) then applies a default of its own and drops a message that exceeds it. The
  model returns messages without limit, and `GoneIsSaved` (with its theorem
  `MessagesAreKept`) and what is said of the unreadable message that ends one worker
  after the other hold as long as the limit is not met.
- Nothing in the repository inserts rows into `pricing_shard_lease`; the model starts
  with all of them, unowned.
- A record that `on_message` cannot deserialize inside the stream client's callback is
  not modelled: what becomes of the consumer is the client's affair.
- Redis: a lost connection, and an `UNSUBSCRIBE` that fails in `close()`, are not modelled.

Not modelled, and why: numerical and value-object code (pure, unit-tested); pricing
change, stop and market-update use cases (wired into no process, so no order of calls
to be faithful to); market data (nobody reads the store); the RabbitMQ notification
subscriber (its provider reads `settings.routing_keys`, which its settings class does
not have, so it cannot start); the notification WebSocket (it subscribes once and
forwards); superseded code.

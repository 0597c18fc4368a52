----------------------- MODULE SuperStreamWorker_proofs -----------------------
(* Proofs about SuperStreamWorker.                                         *)
EXTENDS SuperStreamWorker, TLAPS

-----------------------------------------------------------------------------
(* What the steps do to the functions of workers and shards.               *)

TaskState == [pc : {"none", "waiting", "saving", "saved", "storing", "stored"},
              offset : Nat]

\* One entry of a table of workers and shards is set.
LEMMA EntrySet ==
    ASSUME NEW V, NEW f \in [Worker -> [Shard -> V]],
           NEW w \in Worker, NEW s \in Shard, NEW x \in V
    PROVE  /\ [f EXCEPT ![w][s] = x] \in [Worker -> [Shard -> V]]
           /\ [f EXCEPT ![w][s] = x][w][s] = x
           /\ \A v \in Worker, t \in Shard :
                  v # w \/ t # s => [f EXCEPT ![w][s] = x][v][t] = f[v][t]
  OBVIOUS

\* The task of s goes on, everything else of the tasks stays.
LEMMA Advanced ==
    ASSUME task \in [Worker -> [Shard -> TaskState]], NEW w \in Worker, NEW s \in Shard,
           NEW q \in {"none", "waiting", "saving", "saved", "storing", "stored"},
           Advance(w, s, q)
    PROVE  /\ task' \in [Worker -> [Shard -> TaskState]]
           /\ task'[w][s] = [pc |-> q, offset |-> task[w][s].offset]
           /\ \A v \in Worker, t \in Shard :
                  v # w \/ t # s => task'[v][t] = task[v][t]
  <1>1. task[w][s] \in TaskState
    OBVIOUS
  <1>2. [task[w][s] EXCEPT !.pc = q] = [pc |-> q, offset |-> task[w][s].offset]
    BY <1>1 DEF TaskState
  <1>3. task' = [task EXCEPT ![w][s] = [task[w][s] EXCEPT !.pc = q]]
    BY DEF Advance
  <1>4. [pc |-> q, offset |-> task[w][s].offset] \in TaskState
    BY <1>1 DEF TaskState
  <1> QED BY <1>2, <1>3, <1>4, EntrySet

\* The first element of a queue, and what is left without it.
LEMMA HeadAndTail ==
    ASSUME NEW V, NEW q \in Seq(V), q # <<>>
    PROVE  /\ Head(q) \in V /\ Head(q) = q[1] /\ Tail(q) \in Seq(V)
           /\ Len(q) \in Nat \ {0} /\ Len(Tail(q)) = Len(q) - 1
           /\ \A i \in 1..Len(q) - 1 : Tail(q)[i] = q[i + 1]
  OBVIOUS

\* A sequence with one more element.
LEMMA Appended ==
    ASSUME NEW V, NEW q \in Seq(V), NEW x \in V
    PROVE  /\ Append(q, x) \in Seq(V)
           /\ Len(q) \in Nat /\ Len(Append(q, x)) = Len(q) + 1
           /\ Append(q, x)[Len(q) + 1] = x
           /\ \A i \in 1..Len(q) : Append(q, x)[i] = q[i]
  OBVIOUS

\* A queue of successive offsets stays one when the next comes to its end, and
\* when the first is taken.
LEMMA StretchAppended ==
    ASSUME NEW q \in Seq(Nat), NEW p \in Nat,
           \A i \in DOMAIN q : q[i] = q[1] + i - 1,
           q # <<>> => p = q[1] + Len(q) - 1
    PROVE  LET r == Append(q, p + 1) IN
           /\ r # <<>> /\ \A i \in DOMAIN r : r[i] = r[1] + i - 1
           /\ p + 1 = r[1] + Len(r) - 1
           /\ r[1] = IF q = <<>> THEN p + 1 ELSE q[1]
  <1> DEFINE r == Append(q, p + 1)
  <1>1. /\ r \in Seq(Nat) /\ Len(q) \in Nat /\ Len(r) = Len(q) + 1
        /\ r[Len(q) + 1] = p + 1 /\ \A i \in 1..Len(q) : r[i] = q[i]
    BY Appended
  <1> HIDE DEF r
  <1>2. DOMAIN r = 1..Len(q) + 1 /\ DOMAIN q = 1..Len(q) /\ r # <<>>
    BY <1>1
  <1>3. CASE q = <<>>
    <2>1. Len(q) = 0 /\ r[1] = p + 1
      BY <1>1, <1>3
    <2> QED BY <1>1, <1>2, <1>3, <2>1 DEF r
  <1>4. CASE q # <<>>
    <2>1. Len(q) >= 1 /\ q[1] \in Nat /\ r[1] = q[1]
      BY <1>1, <1>4
    <2>2. p = q[1] + Len(q) - 1
      BY <1>4
    <2>3. ASSUME NEW i \in DOMAIN r PROVE r[i] = r[1] + i - 1
      <3>1. CASE i = Len(q) + 1
        <4>1. r[i] = p + 1
          BY <1>1, <3>1
        <4> QED BY <1>1, <2>1, <2>2, <3>1, <4>1
      <3>2. CASE i \in 1..Len(q)
        <4>1. r[i] = q[i] /\ q[i] = q[1] + i - 1
          BY <1>1, <1>2, <3>2
        <4> QED BY <2>1, <4>1
      <3> QED BY <1>1, <1>2, <2>3, <3>1, <3>2
    <2>4. p + 1 = r[1] + Len(r) - 1
      BY <1>1, <2>1, <2>2
    <2> QED BY <1>2, <1>4, <2>1, <2>3, <2>4 DEF r
  <1> QED BY <1>3, <1>4

LEMMA StretchTaken ==
    ASSUME NEW q \in Seq(Nat), q # <<>>, \A i \in DOMAIN q : q[i] = q[1] + i - 1,
           NEW p \in Int, p # NoOffset => p = q[1] + Len(q) - 1
    PROVE  LET r == Tail(q) IN
           /\ \A i \in DOMAIN r : r[i] = r[1] + i - 1
           /\ \A i \in DOMAIN r : \E j \in DOMAIN q : r[i] = q[j]
           /\ r # <<>> => r[1] = q[1] + 1
           /\ r = <<>> /\ p # NoOffset => p = q[1]
           /\ r # <<>> /\ p # NoOffset => p = r[1] + Len(r) - 1
  <1> DEFINE r == Tail(q)
             n == Len(q)
  <1>1. /\ r \in Seq(Nat) /\ n \in Nat \ {0} /\ Len(r) = n - 1 /\ q[1] \in Nat
        /\ \A i \in 1..n - 1 : r[i] = q[i + 1]
    BY HeadAndTail
  <1> HIDE DEF r
  <1>2. DOMAIN q = 1..n /\ DOMAIN r = 1..n - 1
    BY <1>1
  <1>3. ASSUME NEW i \in 1..n - 1
        PROVE  i + 1 \in DOMAIN q /\ r[i] = q[i + 1] /\ r[i] = q[1] + i
    <2>1. i + 1 \in DOMAIN q /\ i \in Int
      BY <1>1, <1>2
    <2>2. q[i + 1] = q[1] + (i + 1) - 1
      BY <2>1
    <2>3. r[i] = q[i + 1]
      BY <1>1
    <2> QED BY <1>1, <2>1, <2>2, <2>3
  <1>4. r # <<>> <=> n >= 2
    BY <1>1
  <1>5. r # <<>> => r[1] = q[1] + 1
    <2> SUFFICES ASSUME r # <<>> PROVE r[1] = q[1] + 1
      OBVIOUS
    <2>1. 1 \in 1..n - 1
      BY <1>1, <1>4
    <2> QED BY <1>3, <2>1
  <1>6. ASSUME NEW i \in DOMAIN r PROVE r[i] = r[1] + i - 1
    <2>1. i \in 1..n - 1 /\ r # <<>>
      BY <1>1, <1>2, <1>6
    <2>2. r[i] = q[1] + i /\ r[1] = q[1] + 1
      BY <1>3, <1>5, <2>1
    <2> QED BY <1>1, <2>1, <2>2
  <1>7. \A i \in DOMAIN r : \E j \in DOMAIN q : r[i] = q[j]
    BY <1>2, <1>3
  <1>8. p # NoOffset => p = q[1] + n - 1
    OBVIOUS
  <1>9. /\ r = <<>> /\ p # NoOffset => p = q[1]
        /\ r # <<>> /\ p # NoOffset => p = r[1] + Len(r) - 1
    BY <1>1, <1>4, <1>5, <1>8
  <1> QED BY <1>5, <1>6, <1>7, <1>9 DEF r

\* What is not beyond a stretch, and not in it, lies before it.
LEMMA StretchPassed ==
    ASSUME NEW q \in Seq(Nat), q # <<>>, \A j \in DOMAIN q : q[j] = q[1] + j - 1,
           NEW i \in Nat \ {0}, i <= q[1] + Len(q) - 1, \A j \in DOMAIN q : q[j] # i
    PROVE  i \in 1..q[1] - 1
  <1>1. q[1] \in Nat /\ Len(q) \in Nat /\ DOMAIN q = 1..Len(q)
    OBVIOUS
  <1>2. CASE i >= q[1]
    <2>1. i - q[1] + 1 \in DOMAIN q
      BY <1>1, <1>2
    <2>2. q[i - q[1] + 1] = q[1] + (i - q[1] + 1) - 1
      BY <2>1
    <2> QED BY <1>1, <2>1, <2>2
  <1> QED BY <1>1, <1>2

\* What is durable stays: the logs only grow, and saved does.
DataStays ==
    /\ saved \subseteq saved'
    /\ \A s \in Shard : /\ log'[s] \in Seq(Event) /\ Len(log[s]) <= Len(log'[s])
                        /\ \A i \in 1..Len(log[s]) : log'[s][i] = log[s][i]

LEMMA SavedStays ==
    ASSUME TypeOK, DataStays, NEW s \in Shard, NEW n \in Int, SavedUpTo(s, n)
    PROVE  SavedUpTo(s, n)'
  <1>1. log[s] \in Seq(Event) /\ Len(log[s]) \in Nat /\ log'[s] \in Seq(Event)
    BY DEF TypeOK, DataStays
  <1>2. ASSUME NEW i \in 1..n PROVE i \in DOMAIN log'[s] /\ log'[s][i] \in saved'
    <2>1. i \in 1..Len(log[s]) /\ log[s][i] \in saved
      BY <1>1, <1>2 DEF SavedUpTo
    <2> QED BY <1>1, <2>1 DEF DataStays
  <1> QED BY <1>2 DEF SavedUpTo

\* Nothing of it changes.
LEMMA DataSame ==
    ASSUME TypeOK, UNCHANGED <<log, saved>>
    PROVE  DataStays
  BY DEF DataStays, TypeOK

LEMMA StoredSame ==
    ASSUME TypeOK, LogInv, StoredIsSaved, UNCHANGED <<log, stored, saved>>,
           returns' = 0 => returns = 0
    PROVE  DataStays /\ LogInv' /\ StoredIsSaved'
  BY DataSame DEF LogInv, StoredIsSaved, SavedUpTo

\* The event of a delivery in work.
LEMMA HandIsRecord ==
    ASSUME TypeOK, LogInv, NEW w \in Worker, NEW s \in Shard, OffsetInv(w, s), Busy(w, s)
    PROVE  /\ task[w][s].offset \in 1..Len(log[s])
           /\ EventInHand(w, s) \in Event /\ ShardOf[EventInHand(w, s)] = s
  <1>1. log[s] \in Seq(Event) /\ task[w][s].offset \in DOMAIN log[s]
    BY DEF TypeOK, OffsetInv
  <1> QED BY <1>1 DEF LogInv, EventInHand

-----------------------------------------------------------------------------
(* Type correctness.                                                       *)

LEMMA PublishTypes ==
    ASSUME ConstantsAssumption, TypeOK, NEW e \in Event, Publish(e)
    PROVE  /\ log' \in [Shard -> Seq(Event)] /\ DataStays
           /\ \A s \in Shard : \A i \in DOMAIN log'[s] :
                  i \in DOMAIN log[s] \/ (log'[s][i] = e /\ s = ShardOf[e])
  <1>1. ShardOf[e] \in Shard /\ log \in [Shard -> Seq(Event)]
    BY DEF ConstantsAssumption, TypeOK
  <1>2. log' = [log EXCEPT ![ShardOf[e]] = Append(log[ShardOf[e]], e)]
    BY DEF Publish
  <1>3. ASSUME NEW s \in Shard
        PROVE  /\ log'[s] \in Seq(Event) /\ Len(log[s]) <= Len(log'[s])
               /\ \A i \in 1..Len(log[s]) : log'[s][i] = log[s][i]
               /\ \A i \in DOMAIN log'[s] :
                      i \in DOMAIN log[s] \/ (log'[s][i] = e /\ s = ShardOf[e])
    <2>1. CASE s # ShardOf[e]
      BY <1>1, <1>2, <2>1
    <2>2. CASE s = ShardOf[e]
      <3>1. log'[s] = Append(log[s], e) /\ log[s] \in Seq(Event)
        BY <1>1, <1>2, <2>2
      <3> QED BY <2>2, <3>1, Appended
    <2> QED BY <2>1, <2>2
  <1>4. saved' = saved
    BY DEF Publish
  <1> QED BY <1>1, <1>2, <1>3, <1>4 DEF DataStays

\* All but what w keeps of s: other workers, other partitions, and the broker.
ElsewhereSame(w, s) ==
    /\ UNCHANGED <<log, active, connected, returns, demotions, mailbox, runtime, served>>
    /\ \A v \in Worker, t \in Shard : v # w \/ t # s =>
        /\ task'[v][t] = task[v][t] /\ queue'[v][t] = queue[v][t]
        /\ position'[v][t] = position[v][t]

\* What each step of a shard does.
LEMMA QueryOffsetDoes ==
    ASSUME TypeOK, NEW w \in Worker, NEW s \in Shard, QueryOffset(w, s)
    PROVE  /\ TypeOK' /\ ElsewhereSame(w, s) /\ UNCHANGED <<stored, saved, registry>>
           /\ task'[w][s] = task[w][s] /\ queue'[w][s] = queue[w][s]
           /\ position'[w][s] = stored[s]
  BY DEF QueryOffset, TypeOK, ElsewhereSame, brokerVars

LEMMA OnMessageDoes ==
    ASSUME TypeOK, NEW w \in Worker, NEW s \in Shard, OnMessage(w, s)
    PROVE  /\ TypeOK' /\ ElsewhereSame(w, s) /\ UNCHANGED <<stored, saved, registry>>
           /\ task'[w][s] = task[w][s] /\ position'[w][s] = position[w][s] + 1
           /\ queue'[w][s] = Append(queue[w][s], position[w][s] + 1)
           /\ position[w][s] \in Nat
  <1>1. position[w][s] + 1 \in Nat /\ position[w][s] \in Nat
    BY DEF OnMessage, TypeOK, NoOffset
  <1>2. queue[w][s] \in Seq(Nat)
    BY DEF TypeOK
  <1>3. Append(queue[w][s], position[w][s] + 1) \in Seq(Nat)
    BY <1>1, <1>2, Appended
  <1>4. queue' = [queue EXCEPT ![w][s] = Append(queue[w][s], position[w][s] + 1)]
    BY DEF OnMessage, TypeOK
  <1>5. position' = [position EXCEPT ![w][s] = position[w][s] + 1]
    BY DEF OnMessage, TypeOK
  <1>6. /\ queue' \in [Worker -> [Shard -> Seq(Nat)]]
        /\ queue'[w][s] = Append(queue[w][s], position[w][s] + 1)
        /\ \A v \in Worker, t \in Shard : v # w \/ t # s => queue'[v][t] = queue[v][t]
    BY <1>3, <1>4, EntrySet DEF TypeOK
  <1>7. /\ position' \in [Worker -> [Shard -> Nat \cup {NoOffset}]]
        /\ position'[w][s] = position[w][s] + 1
        /\ \A v \in Worker, t \in Shard :
               v # w \/ t # s => position'[v][t] = position[v][t]
    BY <1>1, <1>5, EntrySet DEF TypeOK
  <1>8. UNCHANGED <<brokerVars, saved, mailbox, runtime, task, registry, served>>
    BY DEF OnMessage
  <1> QED BY <1>1, <1>6, <1>7, <1>8 DEF TypeOK, ElsewhereSame, brokerVars

LEMMA TaskStopsDoes ==
    ASSUME TypeOK, NEW w \in Worker, NEW s \in Shard, TaskStops(w, s)
    PROVE  /\ TypeOK' /\ ElsewhereSame(w, s) /\ UNCHANGED <<stored, saved, registry>>
           /\ task'[w][s] = NoTask
           /\ queue'[w][s] = queue[w][s] /\ position'[w][s] = position[w][s]
  <1>1. NoTask \in TaskState /\ task \in [Worker -> [Shard -> TaskState]]
    BY DEF NoTask, TaskState, TypeOK
  <1>2. /\ task' \in [Worker -> [Shard -> TaskState]] /\ task'[w][s] = NoTask
        /\ \A v \in Worker, t \in Shard : v # w \/ t # s => task'[v][t] = task[v][t]
    BY <1>1, EntrySet DEF TaskStops
  <1> QED BY <1>2 DEF TaskStops, TypeOK, TaskState, ElsewhereSame, brokerVars

LEMMA TakeDeliveryDoes ==
    ASSUME TypeOK, NEW w \in Worker, NEW s \in Shard, TakeDelivery(w, s)
    PROVE  /\ TypeOK' /\ ElsewhereSame(w, s) /\ UNCHANGED <<stored, saved, registry>>
           /\ task'[w][s] = [pc |-> "saving", offset |-> Head(queue[w][s])]
           /\ queue'[w][s] = Tail(queue[w][s]) /\ position'[w][s] = position[w][s]
  <1>1. queue[w][s] \in Seq(Nat) /\ queue[w][s] # <<>>
    BY DEF TypeOK, TakeDelivery
  <1>2. Head(queue[w][s]) \in Nat /\ Tail(queue[w][s]) \in Seq(Nat)
    BY <1>1, HeadAndTail
  <1>3. [pc |-> "saving", offset |-> Head(queue[w][s])] \in TaskState
    BY <1>2 DEF TaskState
  <1>4. queue' = [queue EXCEPT ![w][s] = Tail(queue[w][s])]
    BY DEF TakeDelivery, TypeOK
  <1>5. /\ queue' \in [Worker -> [Shard -> Seq(Nat)]]
        /\ queue'[w][s] = Tail(queue[w][s])
        /\ \A v \in Worker, t \in Shard : v # w \/ t # s => queue'[v][t] = queue[v][t]
    BY <1>2, <1>4, EntrySet DEF TypeOK
  <1>6. task \in [Worker -> [Shard -> TaskState]]
    BY DEF TypeOK, TaskState
  <1>7. /\ task' \in [Worker -> [Shard -> TaskState]]
        /\ task'[w][s] = [pc |-> "saving", offset |-> Head(queue[w][s])]
        /\ \A v \in Worker, t \in Shard : v # w \/ t # s => task'[v][t] = task[v][t]
    BY <1>3, <1>6, EntrySet DEF TakeDelivery
  <1>8. UNCHANGED <<brokerVars, saved, mailbox, runtime, position, registry, served>>
    BY DEF TakeDelivery
  <1> QED BY <1>5, <1>7, <1>8 DEF TypeOK, TaskState, ElsewhereSame, brokerVars

LEMMA SaveSessionDoes ==
    ASSUME TypeOK, LogInv, NEW w \in Worker, NEW s \in Shard, OffsetInv(w, s),
           SaveSession(w, s)
    PROVE  /\ TypeOK' /\ ElsewhereSame(w, s) /\ UNCHANGED <<stored, registry>>
           /\ saved' = saved \cup {EventInHand(w, s)}
           /\ task'[w][s] = [pc |-> "saved", offset |-> task[w][s].offset]
           /\ queue'[w][s] = queue[w][s] /\ position'[w][s] = position[w][s]
  <1>1. EventInHand(w, s) \in Event
    BY HandIsRecord DEF SaveSession, Busy
  <1>2. /\ task' \in [Worker -> [Shard -> TaskState]]
        /\ task'[w][s] = [pc |-> "saved", offset |-> task[w][s].offset]
        /\ \A v \in Worker, t \in Shard : v # w \/ t # s => task'[v][t] = task[v][t]
    BY Advanced DEF SaveSession, TypeOK, TaskState
  <1> QED BY <1>1, <1>2 DEF SaveSession, TypeOK, TaskState, ElsewhereSame, brokerVars

LEMMA ActivateDoes ==
    ASSUME TypeOK, LogInv, NEW w \in Worker, NEW s \in Shard, OffsetInv(w, s),
           Activate(w, s)
    PROVE  /\ TypeOK' /\ ElsewhereSame(w, s) /\ UNCHANGED <<stored, saved>>
           /\ registry'[w] = registry[w] \cup {EventInHand(w, s)}
           /\ \A v \in Worker \ {w} : registry'[v] = registry[v]
           /\ task'[w][s] = [pc |-> "storing", offset |-> task[w][s].offset]
           /\ queue'[w][s] = queue[w][s] /\ position'[w][s] = position[w][s]
  <1>1. EventInHand(w, s) \in Event
    BY HandIsRecord DEF Activate, Busy
  <1>2. /\ task' \in [Worker -> [Shard -> TaskState]]
        /\ task'[w][s] = [pc |-> "storing", offset |-> task[w][s].offset]
        /\ \A v \in Worker, t \in Shard : v # w \/ t # s => task'[v][t] = task[v][t]
    BY Advanced DEF Activate, TypeOK, TaskState
  <1> QED BY <1>1, <1>2 DEF Activate, TypeOK, TaskState, ElsewhereSame, brokerVars

LEMMA StoreOffsetDoes ==
    ASSUME TypeOK, NEW w \in Worker, NEW s \in Shard, StoreOffset(w, s)
    PROVE  /\ TypeOK' /\ ElsewhereSame(w, s) /\ UNCHANGED <<saved, registry>>
           /\ stored'[s] = task[w][s].offset
           /\ \A t \in Shard \ {s} : stored'[t] = stored[t]
           /\ task'[w][s] = [pc |-> "stored", offset |-> task[w][s].offset]
           /\ queue'[w][s] = queue[w][s] /\ position'[w][s] = position[w][s]
  <1>1. /\ task' \in [Worker -> [Shard -> TaskState]]
        /\ task'[w][s] = [pc |-> "stored", offset |-> task[w][s].offset]
        /\ \A v \in Worker, t \in Shard : v # w \/ t # s => task'[v][t] = task[v][t]
    BY Advanced DEF StoreOffset, TypeOK, TaskState
  <1> QED BY <1>1 DEF StoreOffset, TypeOK, TaskState, ElsewhereSame

LEMMA AckReturnsDoes ==
    ASSUME TypeOK, NEW w \in Worker, NEW s \in Shard, AckReturns(w, s)
    PROVE  /\ TypeOK' /\ ElsewhereSame(w, s) /\ UNCHANGED <<stored, saved, registry>>
           /\ task'[w][s] = Waiting
           /\ queue'[w][s] = queue[w][s] /\ position'[w][s] = position[w][s]
  <1>1. Waiting \in TaskState /\ task \in [Worker -> [Shard -> TaskState]]
    BY DEF Waiting, TaskState, TypeOK
  <1>2. /\ task' \in [Worker -> [Shard -> TaskState]] /\ task'[w][s] = Waiting
        /\ \A v \in Worker, t \in Shard : v # w \/ t # s => task'[v][t] = task[v][t]
    BY <1>1, EntrySet DEF AckReturns
  <1> QED BY <1>2 DEF AckReturns, TypeOK, TaskState, ElsewhereSame, brokerVars

\* The other workers keep what they have.
OthersSame(w) ==
    \A v \in Worker \ {w} :
        /\ mailbox'[v] = mailbox[v] /\ runtime'[v] = runtime[v] /\ task'[v] = task[v]
        /\ queue'[v] = queue[v] /\ position'[v] = position[v]
        /\ registry'[v] = registry[v] /\ served'[v] = served[v]

\* What the steps of the runtime do.
LEMMA TakeChangeDoes ==
    ASSUME TypeOK, NEW w \in Worker, TakeChange(w), ~ProcessEnds(w),
           NEW c, c = Head(mailbox[w])
    PROVE  /\ TypeOK' /\ OthersSame(w)
           /\ UNCHANGED <<brokerVars, saved, task, queue, position, registry, served>>
           /\ c \in Change /\ runtime[w] = Idle /\ mailbox[w] # <<>>
           /\ ~(c.kind = "acquired" /\ HasTask(w, c.shard))
           /\ mailbox'[w] = Tail(mailbox[w])
           /\ runtime'[w] = [pc |-> IF c.kind = "acquired" THEN "restoring" ELSE "releasing",
                             shard |-> c.shard, snapshot |-> {}]
  <1>1. mailbox[w] \in Seq(Change) /\ mailbox[w] # <<>>
    BY DEF TypeOK, TakeChange
  <1>2. c \in Change /\ Tail(mailbox[w]) \in Seq(Change)
    BY <1>1, HeadAndTail
  <1>3. c.shard \in Shard /\ c.kind \in {"acquired", "released"}
    BY <1>2 DEF Change
  <1>4. mailbox' = [mailbox EXCEPT ![w] = Tail(mailbox[w])]
    BY DEF TakeChange, TypeOK
  <1>5. /\ mailbox' \in [Worker -> Seq(Change)] /\ mailbox'[w] = Tail(mailbox[w])
        /\ \A v \in Worker \ {w} : mailbox'[v] = mailbox[v]
    BY <1>2, <1>4 DEF TypeOK
  <1>6. runtime' = [runtime EXCEPT ![w] =
            [pc |-> IF c.kind = "acquired" THEN "restoring" ELSE "releasing",
             shard |-> c.shard, snapshot |-> {}]]
    BY DEF TakeChange
  <1>7. UNCHANGED <<brokerVars, saved, task, queue, position, registry, served>>
    BY DEF TakeChange
  <1> QED BY <1>2, <1>3, <1>5, <1>6, <1>7
          DEF TakeChange, TypeOK, OthersSame, brokerVars

LEMMA ReadSessionsDoes ==
    ASSUME TypeOK, NEW w \in Worker, ReadSessions(w)
    PROVE  /\ TypeOK' /\ OthersSame(w)
           /\ UNCHANGED <<brokerVars, saved, mailbox, task, queue, position, registry, served>>
           /\ runtime'[w] = [pc |-> "restored", shard |-> runtime[w].shard,
                             snapshot |-> saved \cap SessionsOf(runtime[w].shard)]
  BY DEF ReadSessions, TypeOK, OthersSame, brokerVars, SessionsOf

LEMMA FinishAcquireDoes ==
    ASSUME TypeOK, NEW w \in Worker, RuntimeInv(w), FinishAcquire(w),
           NEW s, s = runtime[w].shard
    PROVE  /\ TypeOK' /\ OthersSame(w) /\ s \in Shard
           /\ UNCHANGED <<brokerVars, saved, mailbox, queue, position, served>>
           /\ runtime'[w] = Idle
           /\ registry'[w] = registry[w] \cup runtime[w].snapshot
           /\ task'[w][s] = Waiting
           /\ \A t \in Shard \ {s} : task'[w][t] = task[w][t]
  <1>1. s \in Shard
    BY DEF RuntimeInv, FinishAcquire, Idle
  <1>2. Waiting \in TaskState /\ task \in [Worker -> [Shard -> TaskState]]
    BY DEF Waiting, TaskState, TypeOK
  <1>3. /\ task' \in [Worker -> [Shard -> TaskState]] /\ task'[w][s] = Waiting
        /\ \A t \in Shard \ {s} : task'[w][t] = task[w][t]
        /\ \A v \in Worker \ {w} : task'[v] = task[v]
    BY <1>1, <1>2, EntrySet DEF FinishAcquire
  <1>4. Idle \in [pc : {"idle", "restoring", "restored", "releasing"},
                  shard : Shard \cup {NoShard}, snapshot : SUBSET Event]
    BY DEF Idle
  <1>5. runtime[w].snapshot \in SUBSET Event
    BY DEF TypeOK
  <1> QED BY <1>1, <1>3, <1>4, <1>5 DEF FinishAcquire, TypeOK, TaskState, OthersSame, brokerVars

LEMMA FinishReleaseDoes ==
    ASSUME TypeOK, NEW w \in Worker, FinishRelease(w)
    PROVE  /\ TypeOK' /\ OthersSame(w)
           /\ UNCHANGED <<brokerVars, saved, mailbox, task, queue, position, served>>
           /\ runtime'[w] = Idle
           /\ registry'[w] = registry[w] \ SessionsOf(runtime[w].shard)
  <1>1. Idle \in [pc : {"idle", "restoring", "restored", "releasing"},
                  shard : Shard \cup {NoShard}, snapshot : SUBSET Event]
    BY DEF Idle
  <1> QED BY <1>1 DEF FinishRelease, TypeOK, OthersSame, brokerVars

\* What the listener and the ends of processes do.
LEMMA OnActiveDoes ==
    ASSUME TypeOK, NEW w \in Worker, NEW s \in Shard, OnActive(w, s)
    PROVE  /\ TypeOK' /\ OthersSame(w) /\ active[s] = NoWorker
           /\ UNCHANGED <<log, stored, connected, demotions, saved, runtime, task, queue,
                          position, registry>>
           /\ mailbox'[w] = Append(mailbox[w], Acquired(s))
           /\ active'[s] = w /\ \A t \in Shard \ {s} : active'[t] = active[t]
           /\ served'[w] = served[w] \cup {s}
           /\ \/ s \notin served[w] /\ returns' = returns
              \/ s \in served[w] /\ returns' = returns + 1
  <1>1. Acquired(s) \in Change /\ mailbox[w] \in Seq(Change)
    BY DEF Acquired, Change, TypeOK
  <1>2. Append(mailbox[w], Acquired(s)) \in Seq(Change)
    BY <1>1, Appended
  <1>3. mailbox' = [mailbox EXCEPT ![w] = Append(mailbox[w], Acquired(s))]
    BY DEF OnActive, TypeOK
  <1>4. /\ mailbox' \in [Worker -> Seq(Change)]
        /\ mailbox'[w] = Append(mailbox[w], Acquired(s))
        /\ \A v \in Worker \ {w} : mailbox'[v] = mailbox[v]
    BY <1>2, <1>3 DEF TypeOK
  <1> QED BY <1>4 DEF OnActive, TypeOK, OthersSame

LEMMA OnInactiveDoes ==
    ASSUME TypeOK, NEW w \in Worker, NEW s \in Shard, OnInactive(w, s)
    PROVE  /\ TypeOK' /\ OthersSame(w) /\ active[s] = w
           /\ UNCHANGED <<log, stored, connected, returns, saved, runtime, task, queue,
                          registry, served>>
           /\ mailbox'[w] = Append(mailbox[w], Released(s))
           /\ active'[s] = NoWorker /\ \A t \in Shard \ {s} : active'[t] = active[t]
           /\ position'[w][s] = NoOffset
           /\ \A t \in Shard \ {s} : position'[w][t] = position[w][t]
           /\ demotions' # 0
  <1>1. Released(s) \in Change /\ mailbox[w] \in Seq(Change)
    BY DEF Released, Change, TypeOK
  <1>2. Append(mailbox[w], Released(s)) \in Seq(Change)
    BY <1>1, Appended
  <1>3. mailbox' = [mailbox EXCEPT ![w] = Append(mailbox[w], Released(s))]
    BY DEF OnInactive, TypeOK
  <1>4. /\ mailbox' \in [Worker -> Seq(Change)]
        /\ mailbox'[w] = Append(mailbox[w], Released(s))
        /\ \A v \in Worker \ {w} : mailbox'[v] = mailbox[v]
    BY <1>2, <1>3 DEF TypeOK
  <1>5. /\ position' \in [Worker -> [Shard -> Nat \cup {NoOffset}]]
        /\ position'[w][s] = NoOffset
        /\ \A t \in Shard \ {s} : position'[w][t] = position[w][t]
        /\ \A v \in Worker \ {w} : position'[v] = position[v]
    BY EntrySet DEF OnInactive, TypeOK
  <1> QED BY <1>4, <1>5 DEF OnInactive, TypeOK, OthersSame

LEMMA ProcessEndsDoes ==
    ASSUME TypeOK, NEW w \in Worker, ProcessEnds(w)
    PROVE  /\ TypeOK' /\ OthersSame(w)
           /\ UNCHANGED <<log, stored, returns, demotions, saved>>
           /\ \A s \in Shard : active'[s] = IF active[s] = w THEN NoWorker ELSE active[s]
           /\ mailbox'[w] = <<>> /\ runtime'[w] = Idle
           /\ registry'[w] = {} /\ served'[w] = {}
           /\ \A s \in Shard : /\ task'[w][s] = NoTask /\ queue'[w][s] = <<>>
                               /\ position'[w][s] = NoOffset
  <1>1. Idle \in [pc : {"idle", "restoring", "restored", "releasing"},
                  shard : Shard \cup {NoShard}, snapshot : SUBSET Event]
    BY DEF Idle
  <1>2. NoTask \in TaskState /\ task \in [Worker -> [Shard -> TaskState]]
    BY DEF NoTask, TaskState, TypeOK
  <1>3. task' \in [Worker -> [Shard -> TaskState]]
    BY <1>2 DEF ProcessEnds
  <1>4. queue' \in [Worker -> [Shard -> Seq(Nat)]] /\ mailbox' \in [Worker -> Seq(Change)]
    BY DEF ProcessEnds, TypeOK
  <1>5. active' \in [Shard -> Worker \cup {NoWorker}]
    BY DEF ProcessEnds, TypeOK
  <1> QED BY <1>1, <1>2, <1>3, <1>4, <1>5 DEF ProcessEnds, TypeOK, TaskState, OthersSame

-----------------------------------------------------------------------------
(* What a worker has of a shard.                                           *)

\* The invariants about one worker and one shard that hold in every run.
ShardInv(w, s) ==
    OffsetInv(w, s) /\ MailboxInv(w, s) /\ TurnInv(w, s) /\ StreamInv(w, s)

\* A step that leaves alone what w has of s.
Kept(w, s) ==
    /\ task'[w][s] = task[w][s] /\ queue'[w][s] = queue[w][s]
    /\ position'[w][s] = position[w][s]
    /\ mailbox'[w] = mailbox[w] /\ runtime'[w] = runtime[w] /\ served'[w] = served[w]
    /\ active'[s] = w <=> active[s] = w

\* Offsets of the log stay offsets of the log.
LEMMA OffsetKept ==
    ASSUME TypeOK, DataStays, NEW w \in Worker, NEW s \in Shard, OffsetInv(w, s),
           task'[w][s] = task[w][s], queue'[w][s] = queue[w][s],
           position'[w][s] = position[w][s]
    PROVE  OffsetInv(w, s)'
  <1>1. /\ log[s] \in Seq(Event) /\ log'[s] \in Seq(Event)
        /\ Len(log[s]) <= Len(log'[s]) /\ position[w][s] \in Int
    BY DEF TypeOK, DataStays, NoOffset
  <1>2. DOMAIN log[s] \subseteq DOMAIN log'[s]
    BY <1>1
  <1>3. position'[w][s] <= Len(log'[s])
    BY <1>1 DEF OffsetInv
  <1> QED BY <1>2, <1>3 DEF OffsetInv, Busy, NoTask, Waiting

\* The changes of s alternate as before when w has what it had.
LEMMA MailboxKept ==
    ASSUME NEW w \in Worker, NEW s \in Shard, MailboxInv(w, s),
           mailbox'[w] = mailbox[w], Held(w, s)' <=> Held(w, s),
           active'[s] = w <=> active[s] = w
    PROVE  MailboxInv(w, s)'
  BY DEF MailboxInv, Successive, After, Before

\* What is between the delivery in hand and the position stays so.
LEMMA StreamKept ==
    ASSUME TypeOK, DataStays, NEW w \in Worker, NEW s \in Shard,
           OffsetInv(w, s), StreamInv(w, s),
           task'[w][s] = task[w][s], queue'[w][s] = queue[w][s],
           position'[w][s] = position[w][s], active'[s] = w => active[s] = w,
           returns' = 0 => returns = 0, Ahead(w, s)' => Ahead(w, s)
    PROVE  StreamInv(w, s)'
  <1> SUFFICES ASSUME returns' = 0 PROVE StreamInv(w, s)'
    BY DEF StreamInv
  <1>1. Busy(w, s)' <=> Busy(w, s)
    BY DEF Busy
  <1>2. Busy(w, s) => /\ task[w][s].offset \in DOMAIN log[s] /\ task[w][s].offset \in Nat
                      /\ log'[s][task[w][s].offset] = log[s][task[w][s].offset]
    <2>1. log[s] \in Seq(Event)
      BY DEF TypeOK
    <2>2. Busy(w, s) => task[w][s].offset \in 1..Len(log[s])
      BY <2>1 DEF OffsetInv
    <2> QED BY <2>1, <2>2 DEF DataStays
  <1>3. Busy(w, s) => SavedUpTo(s, task[w][s].offset - 1)'
    BY <1>2, SavedStays DEF StreamInv
  <1>4. queue[w][s] # <<>> => queue[w][s][1] \in Nat
    BY DEF TypeOK
  <1>5. Ahead(w, s) /\ ~Busy(w, s) /\ queue[w][s] # <<>> =>
            SavedUpTo(s, queue[w][s][1] - 1)'
    BY <1>4, SavedStays DEF StreamInv
  <1>6. position[w][s] \in Int
    BY DEF TypeOK, NoOffset
  <1>7. Ahead(w, s) /\ ~Busy(w, s) /\ queue[w][s] = <<>> /\ position[w][s] # NoOffset =>
            SavedUpTo(s, position[w][s])'
    BY <1>6, SavedStays DEF StreamInv
  <1>8. Busy(w, s) /\ task[w][s].pc # "saving" => log'[s][task[w][s].offset] \in saved'
    BY <1>2 DEF StreamInv, DataStays
  <1> QED BY <1>1, <1>3, <1>5, <1>7, <1>8 DEF StreamInv

\* So everything about w and s stays.
LEMMA ShardKept ==
    ASSUME TypeOK, DataStays, NEW w \in Worker, NEW s \in Shard, ShardInv(w, s), Kept(w, s),
           returns' = 0 => returns = 0
    PROVE  ShardInv(w, s)'
  <1>1. OffsetInv(w, s)'
    BY OffsetKept DEF ShardInv, Kept
  <1>2. MailboxInv(w, s)'
    BY MailboxKept DEF ShardInv, Kept, Held, Acquiring, HasTask, Cancelling
  <1>3. TurnInv(w, s)'
    BY DEF ShardInv, Kept, TurnInv, HasTask
  <1>4. StreamInv(w, s)'
    BY StreamKept DEF ShardInv, Kept, Ahead, HasTask, Acquiring, Queued
  <1> QED BY <1>1, <1>2, <1>3, <1>4 DEF ShardInv

\* A step of one shard of one worker leaves the others alone.
LEMMA ElsewhereKept ==
    ASSUME NEW w \in Worker, NEW s \in Shard, ElsewhereSame(w, s),
           NEW v \in Worker, NEW t \in Shard, v # w \/ t # s
    PROVE  Kept(v, t)
  BY DEF ElsewhereSame, Kept

\* A step of a shard that has the shard's task as it was.
LEMMA SameTurn ==
    ASSUME NEW w \in Worker, NEW s \in Shard, ShardInv(w, s), ElsewhereSame(w, s),
           HasTask(w, s)' <=> HasTask(w, s), s \in served[w]
    PROVE  MailboxInv(w, s)' /\ TurnInv(w, s)' /\ (Ahead(w, s)' <=> Ahead(w, s))
  <1>1. /\ mailbox'[w] = mailbox[w] /\ runtime'[w] = runtime[w] /\ served'[w] = served[w]
        /\ active'[s] = active[s] /\ returns' = returns
    BY DEF ElsewhereSame
  <1>2. Held(w, s)' <=> Held(w, s)
    BY <1>1 DEF Held, Acquiring, Cancelling
  <1>3. MailboxInv(w, s)'
    BY <1>1, <1>2, MailboxKept DEF ShardInv
  <1>4. TurnInv(w, s)'
    BY <1>1 DEF ShardInv, TurnInv
  <1> QED BY <1>1, <1>3, <1>4 DEF Ahead, Acquiring, Queued

\* The hypotheses of the steps of one shard.
ShardHyp(w, s) == TypeOK /\ LogInv /\ StoredIsSaved /\ ShardInv(w, s)

LEMMA QueryOffsetKeeps ==
    ASSUME NEW w \in Worker, NEW s \in Shard, ShardHyp(w, s), QueryOffset(w, s)
    PROVE  ShardInv(w, s)' /\ LogInv' /\ StoredIsSaved' /\ DataStays
  <1> USE DEF ShardHyp
  <1>1. /\ ElsewhereSame(w, s) /\ UNCHANGED <<log, stored, saved, returns>>
        /\ task'[w][s] = task[w][s] /\ queue'[w][s] = queue[w][s]
        /\ position'[w][s] = stored[s]
    BY QueryOffsetDoes DEF ElsewhereSame
  <1>2. active[s] = w /\ position[w][s] = NoOffset /\ active' = active
    BY <1>1 DEF QueryOffset, ElsewhereSame
  <1>3. s \in served[w]
    BY <1>2 DEF ShardInv, TurnInv
  <1>4. HasTask(w, s)' <=> HasTask(w, s)
    BY <1>1 DEF HasTask
  <1>5. MailboxInv(w, s)' /\ TurnInv(w, s)' /\ (Ahead(w, s)' <=> Ahead(w, s))
    BY <1>1, <1>3, <1>4, SameTurn
  <1>6. DataStays /\ LogInv' /\ StoredIsSaved'
    BY <1>1, StoredSame
  <1>7. Busy(w, s)' <=> Busy(w, s)
    BY <1>1 DEF Busy
  <1>8. OffsetInv(w, s)'
    BY <1>1, <1>7 DEF ShardInv, OffsetInv, LogInv
  <1>9. StreamInv(w, s)'
    <2> SUFFICES ASSUME returns = 0 PROVE StreamInv(w, s)'
      BY <1>1 DEF StreamInv
    <2>1. queue[w][s] = <<>> /\ ~Busy(w, s)
      BY <1>2 DEF ShardInv, StreamInv
    <2>2. SavedUpTo(s, stored[s])
      BY DEF StoredIsSaved
    <2>3. stored[s] # NoOffset
      BY DEF TypeOK, NoOffset
    <2> QED BY <1>1, <1>7, <2>1, <2>2, <2>3 DEF StreamInv, SavedUpTo
  <1> QED BY <1>5, <1>6, <1>8, <1>9 DEF ShardInv

LEMMA OnMessageKeeps ==
    ASSUME NEW w \in Worker, NEW s \in Shard, ShardHyp(w, s), OnMessage(w, s)
    PROVE  ShardInv(w, s)' /\ LogInv' /\ StoredIsSaved' /\ DataStays
  <1> USE DEF ShardHyp
  <1> DEFINE p == position[w][s]
             q == queue[w][s]
  <1>1. /\ ElsewhereSame(w, s) /\ UNCHANGED <<log, stored, saved, returns>>
        /\ task'[w][s] = task[w][s] /\ position'[w][s] = p + 1 /\ p \in Nat
        /\ queue'[w][s] = Append(q, p + 1)
    BY OnMessageDoes DEF ElsewhereSame
  <1>2. active[s] = w /\ p < Len(log[s]) /\ active' = active
    BY <1>1 DEF OnMessage, ElsewhereSame
  <1>3. s \in served[w]
    BY <1>2 DEF ShardInv, TurnInv
  <1>4. HasTask(w, s)' <=> HasTask(w, s)
    BY <1>1 DEF HasTask
  <1>5. MailboxInv(w, s)' /\ TurnInv(w, s)' /\ (Ahead(w, s)' <=> Ahead(w, s))
    BY <1>1, <1>3, <1>4, SameTurn
  <1>6. DataStays /\ LogInv' /\ StoredIsSaved'
    BY <1>1, StoredSame
  <1>7. Busy(w, s)' <=> Busy(w, s)
    BY <1>1 DEF Busy
  <1>8. /\ q \in Seq(Nat) /\ Len(q) \in Nat /\ p + 1 \in Nat
        /\ Len(queue'[w][s]) = Len(q) + 1 /\ queue'[w][s][Len(q) + 1] = p + 1
        /\ \A i \in 1..Len(q) : queue'[w][s][i] = q[i]
        /\ queue'[w][s] \in Seq(Nat)
    <2>1. q \in Seq(Nat) /\ p + 1 \in Nat
      BY <1>1 DEF TypeOK
    <2> QED BY <1>1, <2>1, Appended
  <1>9. log[s] \in Seq(Event) /\ p + 1 \in DOMAIN log[s] /\ p + 1 <= Len(log[s])
    BY <1>1, <1>2 DEF TypeOK
  <1>10. OffsetInv(w, s)'
    <2>1. ASSUME NEW i \in DOMAIN queue'[w][s] PROVE queue'[w][s][i] \in DOMAIN log'[s]
      <3>1. i \in 1..Len(q) + 1
        BY <1>8, <2>1
      <3>2. CASE i = Len(q) + 1
        BY <1>1, <1>8, <1>9, <3>2
      <3>3. CASE i \in 1..Len(q)
        BY <1>1, <1>8, <3>3 DEF ShardInv, OffsetInv
      <3> QED BY <1>8, <3>1, <3>2, <3>3
    <2>2. position'[w][s] <= Len(log'[s])
      BY <1>1, <1>9
    <2> QED BY <1>1, <1>7, <2>1, <2>2 DEF ShardInv, OffsetInv, NoTask, Waiting
  <1>11. StreamInv(w, s)'
    <2> SUFFICES ASSUME returns = 0 PROVE StreamInv(w, s)'
      BY <1>1 DEF StreamInv
    <2>1. p # NoOffset /\ p + 1 # NoOffset
      BY <1>1 DEF NoOffset
    <2>2. /\ \A i \in DOMAIN q : q[i] = q[1] + i - 1
          /\ q # <<>> => p = q[1] + Len(q) - 1
      BY <2>1 DEF ShardInv, StreamInv
    <2> DEFINE r == Append(q, p + 1)
    <2>3. /\ r # <<>> /\ \A i \in DOMAIN r : r[i] = r[1] + i - 1
          /\ p + 1 = r[1] + Len(r) - 1
          /\ r[1] = IF q = <<>> THEN p + 1 ELSE q[1]
      BY <1>1, <1>8, <2>2, StretchAppended
    <2>4. /\ Busy(w, s) => r[1] = task[w][s].offset + 1
          /\ Ahead(w, s) /\ ~Busy(w, s) => SavedUpTo(s, r[1] - 1)
      <3>1. CASE q = <<>>
        <4>1. r[1] = p + 1 /\ r[1] - 1 = p
          BY <1>1, <2>3, <3>1
        <4> QED BY <2>1, <3>1, <4>1 DEF ShardInv, StreamInv
      <3>2. CASE q # <<>>
        BY <2>3, <3>2 DEF ShardInv, StreamInv
      <3> QED BY <3>1, <3>2
    <2>5. /\ Busy(w, s) => SavedUpTo(s, task[w][s].offset - 1)
          /\ Busy(w, s) /\ task[w][s].pc # "saving" => log[s][task[w][s].offset] \in saved
      BY DEF ShardInv, StreamInv
    <2> HIDE DEF r
    <2>6. queue'[w][s] = r
      BY <1>1 DEF r
    <2> QED BY <1>1, <1>5, <1>7, <2>1, <2>3, <2>4, <2>5, <2>6 DEF StreamInv, SavedUpTo
  <1> QED BY <1>5, <1>6, <1>10, <1>11 DEF ShardInv

LEMMA TaskStopsKeeps ==
    ASSUME NEW w \in Worker, NEW s \in Shard, ShardHyp(w, s), TaskStops(w, s)
    PROVE  ShardInv(w, s)' /\ LogInv' /\ StoredIsSaved' /\ DataStays
  <1> USE DEF ShardHyp
  <1>1. /\ ElsewhereSame(w, s) /\ UNCHANGED <<log, stored, saved, returns>>
        /\ task'[w][s] = NoTask
        /\ queue'[w][s] = queue[w][s] /\ position'[w][s] = position[w][s]
    BY TaskStopsDoes DEF ElsewhereSame
  <1>2. /\ mailbox'[w] = mailbox[w] /\ runtime'[w] = runtime[w] /\ served'[w] = served[w]
        /\ active' = active
    BY <1>1 DEF ElsewhereSame
  <1>3. /\ Cancelling(w, s) /\ HasTask(w, s) /\ ~HasTask(w, s)' /\ ~Busy(w, s)'
        /\ Cancelling(w, s)'
    BY <1>1, <1>2 DEF TaskStops, HasTask, NoTask, Busy, Cancelling
  <1>4. MailboxInv(w, s)'
    <2>1. Held(w, s)' <=> Held(w, s)
      BY <1>2, <1>3 DEF Held, Acquiring, Cancelling
    <2> QED BY <1>2, <2>1, MailboxKept DEF ShardInv
  <1>5. TurnInv(w, s)'
    BY <1>1, <1>2, <1>3 DEF ShardInv, TurnInv
  <1>6. DataStays /\ LogInv' /\ StoredIsSaved'
    BY <1>1, StoredSame
  <1>7. OffsetInv(w, s)'
    BY <1>1, <1>3 DEF ShardInv, OffsetInv
  <1>8. StreamInv(w, s)'
    <2> SUFFICES ASSUME returns = 0 PROVE StreamInv(w, s)'
      BY <1>1 DEF StreamInv
    <2>1. ~Queued(w, Acquired(s))'
      BY <1>2, <1>3 DEF ShardInv, TurnInv, Queued
    <2>2. ~Ahead(w, s)'
      BY <1>3, <2>1 DEF Ahead, Acquiring, Cancelling
    <2> QED BY <1>1, <1>2, <1>3, <2>2 DEF ShardInv, StreamInv
  <1> QED BY <1>4, <1>5, <1>6, <1>7, <1>8 DEF ShardInv

LEMMA TakeDeliveryKeeps ==
    ASSUME NEW w \in Worker, NEW s \in Shard, ShardHyp(w, s), TakeDelivery(w, s)
    PROVE  ShardInv(w, s)' /\ LogInv' /\ StoredIsSaved' /\ DataStays
  <1> USE DEF ShardHyp
  <1> DEFINE q == queue[w][s]
             p == position[w][s]
  <1>1. /\ ElsewhereSame(w, s) /\ UNCHANGED <<log, stored, saved, returns, active>>
        /\ task'[w][s] = [pc |-> "saving", offset |-> Head(q)]
        /\ queue'[w][s] = Tail(q) /\ position'[w][s] = p
    BY TakeDeliveryDoes DEF ElsewhereSame
  <1>2. task[w][s] = Waiting /\ q # <<>> /\ q \in Seq(Nat)
    BY DEF TakeDelivery, TypeOK
  <1>3. /\ Head(q) = q[1] /\ q[1] \in Nat /\ Tail(q) \in Seq(Nat)
        /\ Len(q) \in Nat \ {0} /\ Len(Tail(q)) = Len(q) - 1
        /\ \A i \in 1..Len(q) - 1 : Tail(q)[i] = q[i + 1]
    BY <1>2, HeadAndTail
  <1>4. HasTask(w, s) /\ ~Busy(w, s) /\ HasTask(w, s)' /\ Busy(w, s)'
    BY <1>1, <1>2 DEF HasTask, NoTask, Waiting, Busy
  <1>5. s \in served[w]
    BY <1>4 DEF ShardInv, TurnInv
  <1>6. MailboxInv(w, s)' /\ TurnInv(w, s)'
    BY <1>1, <1>4, <1>5, SameTurn
  <1>7. DataStays /\ LogInv' /\ StoredIsSaved'
    BY <1>1, StoredSame
  <1>8. 1 \in DOMAIN q /\ p \in Int
    BY <1>2, <1>3 DEF TypeOK, NoOffset
  <1>9. OffsetInv(w, s)'
    <2>1. \A i \in DOMAIN Tail(q) : \E j \in DOMAIN q : Tail(q)[i] = q[j]
      <3>1. \A i \in DOMAIN Tail(q) : i + 1 \in DOMAIN q /\ Tail(q)[i] = q[i + 1]
        BY <1>2, <1>3
      <3> QED BY <3>1
    <2>2. q[1] \in DOMAIN log[s] /\ \A i \in DOMAIN Tail(q) : Tail(q)[i] \in DOMAIN log[s]
      BY <1>8, <2>1 DEF ShardInv, OffsetInv
    <2> QED BY <1>1, <1>3, <1>4, <2>2 DEF ShardInv, OffsetInv
  <1>10. StreamInv(w, s)'
    <2> SUFFICES ASSUME returns = 0 PROVE StreamInv(w, s)'
      BY <1>1 DEF StreamInv
    <2>1. /\ SavedUpTo(s, q[1] - 1) /\ \A i \in DOMAIN q : q[i] = q[1] + i - 1
          /\ p # NoOffset => p = q[1] + Len(q) - 1
          /\ active[s] = w => p # NoOffset
      BY <1>2, <1>4 DEF ShardInv, StreamInv, Ahead
    <2> DEFINE r == Tail(q)
    <2>2. /\ \A i \in DOMAIN r : r[i] = r[1] + i - 1
          /\ r # <<>> => r[1] = q[1] + 1
          /\ r = <<>> /\ p # NoOffset => p = q[1]
          /\ r # <<>> /\ p # NoOffset => p = r[1] + Len(r) - 1
      BY <1>2, <1>8, <2>1, StretchTaken
    <2> HIDE DEF r
    <2>3. queue'[w][s] = r
      BY <1>1 DEF r
    <2>4. /\ task'[w][s].offset = q[1] /\ task'[w][s].pc = "saving"
          /\ position'[w][s] = p /\ active' = active
      BY <1>1, <1>3
    <2>5. /\ returns' = returns /\ queue'[w][s] = r /\ Busy(w, s)'
          /\ q[1] - 1 = task'[w][s].offset - 1 /\ saved' = saved /\ log' = log
      BY <1>1, <1>4, <2>3, <2>4
    <2>6. SavedUpTo(s, task[w][s].offset - 1)'
      BY <2>1, <2>5 DEF SavedUpTo
    <2> HIDE DEF q, p
    <2> QED BY <2>1, <2>2, <2>4, <2>5, <2>6 DEF StreamInv
  <1> QED BY <1>6, <1>7, <1>9, <1>10 DEF ShardInv

\* SaveSession: what lies before the delivery in hand is saved, now it is as well.
LEMMA SaveSessionKeeps ==
    ASSUME NEW w \in Worker, NEW s \in Shard, ShardHyp(w, s), SaveSession(w, s)
    PROVE  ShardInv(w, s)' /\ LogInv' /\ StoredIsSaved' /\ DataStays
  <1> USE DEF ShardHyp
  <1>1. /\ ElsewhereSame(w, s) /\ UNCHANGED <<log, stored, returns, active>>
        /\ saved' = saved \cup {EventInHand(w, s)}
        /\ task'[w][s] = [pc |-> "saved", offset |-> task[w][s].offset]
        /\ queue'[w][s] = queue[w][s] /\ position'[w][s] = position[w][s]
    BY SaveSessionDoes DEF ElsewhereSame, ShardInv
  <1>2. task[w][s].pc = "saving" /\ task[w][s] # NoTask /\ task'[w][s] # NoTask
    BY <1>1 DEF SaveSession, NoTask
  <1>3. HasTask(w, s) /\ HasTask(w, s)' /\ Busy(w, s) /\ Busy(w, s)'
    BY <1>1, <1>2 DEF HasTask, Busy
  <1>4. s \in served[w]
    BY <1>3 DEF ShardInv, TurnInv
  <1>5. MailboxInv(w, s)' /\ TurnInv(w, s)'
    BY <1>1, <1>3, <1>4, SameTurn
  <1>6. DataStays /\ LogInv'
    BY <1>1 DEF DataStays, LogInv, TypeOK
  <1>7. StoredIsSaved'
    <2> SUFFICES ASSUME returns = 0, NEW t \in Shard PROVE SavedUpTo(t, stored[t])'
      BY <1>1 DEF StoredIsSaved
    <2>1. SavedUpTo(t, stored[t]) /\ stored[t] \in Int
      BY DEF StoredIsSaved, TypeOK
    <2>2. SavedUpTo(t, stored[t])'
      BY <1>1, <1>6, <2>1 DEF SavedUpTo, DataStays
    <2> QED BY <2>2
  <1>8. OffsetInv(w, s)'
    BY <1>1, <1>3 DEF ShardInv, OffsetInv
  <1>9. StreamInv(w, s)'
    <2> SUFFICES ASSUME returns = 0 PROVE StreamInv(w, s)'
      BY <1>1 DEF StreamInv
    <2>1. task'[w][s].offset = task[w][s].offset
      BY <1>1
    <2>2. SavedUpTo(s, task[w][s].offset - 1)'
      BY <1>1, <1>3 DEF ShardInv, StreamInv, SavedUpTo
    <2>3. log'[s][task[w][s].offset] \in saved'
      BY <1>1 DEF EventInHand
    <2> QED BY <1>1, <1>3, <2>1, <2>2, <2>3 DEF ShardInv, StreamInv
  <1> QED BY <1>5, <1>6, <1>7, <1>8, <1>9 DEF ShardInv

\* Activate and StoreOffset: the delivery in hand is saved.
LEMMA ActivateKeeps ==
    ASSUME NEW w \in Worker, NEW s \in Shard, ShardHyp(w, s), Activate(w, s)
    PROVE  ShardInv(w, s)' /\ LogInv' /\ StoredIsSaved' /\ DataStays
  <1> USE DEF ShardHyp
  <1>1. /\ ElsewhereSame(w, s) /\ UNCHANGED <<log, stored, saved, returns, active>>
        /\ task'[w][s] = [pc |-> "storing", offset |-> task[w][s].offset]
        /\ queue'[w][s] = queue[w][s] /\ position'[w][s] = position[w][s]
    BY ActivateDoes DEF ElsewhereSame, ShardInv
  <1>2. task[w][s].pc = "saved" /\ task[w][s] # NoTask /\ task'[w][s] # NoTask
    BY <1>1 DEF Activate, NoTask
  <1>3. HasTask(w, s) /\ HasTask(w, s)' /\ Busy(w, s) /\ Busy(w, s)'
    BY <1>1, <1>2 DEF HasTask, Busy
  <1>4. s \in served[w]
    BY <1>3 DEF ShardInv, TurnInv
  <1>5. MailboxInv(w, s)' /\ TurnInv(w, s)'
    BY <1>1, <1>3, <1>4, SameTurn
  <1>6. DataStays /\ LogInv' /\ StoredIsSaved'
    BY <1>1, StoredSame
  <1>7. OffsetInv(w, s)'
    BY <1>1, <1>3 DEF ShardInv, OffsetInv
  <1>8. StreamInv(w, s)'
    <2> SUFFICES ASSUME returns = 0 PROVE StreamInv(w, s)'
      BY <1>1 DEF StreamInv
    <2>1. task'[w][s].offset = task[w][s].offset
      BY <1>1
    <2> QED BY <1>1, <1>2, <1>3, <2>1 DEF ShardInv, StreamInv, SavedUpTo
  <1> QED BY <1>5, <1>6, <1>7, <1>8 DEF ShardInv

LEMMA StoreOffsetKeeps ==
    ASSUME NEW w \in Worker, NEW s \in Shard, ShardHyp(w, s), StoreOffset(w, s)
    PROVE  ShardInv(w, s)' /\ LogInv' /\ StoredIsSaved' /\ DataStays
  <1> USE DEF ShardHyp
  <1> DEFINE o == task[w][s].offset
  <1>1. /\ ElsewhereSame(w, s) /\ UNCHANGED <<log, saved, returns, active>>
        /\ stored'[s] = o /\ \A t \in Shard \ {s} : stored'[t] = stored[t]
        /\ task'[w][s] = [pc |-> "stored", offset |-> o]
        /\ queue'[w][s] = queue[w][s] /\ position'[w][s] = position[w][s]
    BY StoreOffsetDoes DEF ElsewhereSame, ShardInv
  <1>2. task[w][s].pc = "storing" /\ task[w][s] # NoTask /\ task'[w][s] # NoTask
    BY <1>1 DEF StoreOffset, NoTask
  <1>3. HasTask(w, s) /\ HasTask(w, s)' /\ Busy(w, s) /\ Busy(w, s)'
    BY <1>1, <1>2 DEF HasTask, Busy
  <1>4. s \in served[w]
    BY <1>3 DEF ShardInv, TurnInv
  <1>5. MailboxInv(w, s)' /\ TurnInv(w, s)'
    BY <1>1, <1>3, <1>4, SameTurn
  <1>6. o \in 1..Len(log[s]) /\ log[s] \in Seq(Event)
    BY <1>3, HandIsRecord DEF ShardInv, TypeOK
  <1>7. DataStays /\ LogInv'
    <2>1. \A t \in Shard : stored'[t] <= Len(log[t])
      BY <1>1, <1>6 DEF LogInv
    <2> QED BY <1>1, <2>1, DataSame DEF LogInv
  <1>8. StoredIsSaved'
    <2> SUFFICES ASSUME returns = 0, NEW t \in Shard PROVE SavedUpTo(t, stored[t])'
      BY <1>1 DEF StoredIsSaved
    <2>1. CASE t # s
      BY <1>1, <2>1 DEF StoredIsSaved, SavedUpTo
    <2>2. CASE t = s
      <3>1. SavedUpTo(s, o - 1) /\ log[s][o] \in saved
        BY <1>2, <1>3 DEF ShardInv, StreamInv
      <3>2. \A i \in 1..o : i \in 1..o - 1 \/ i = o
        BY <1>6
      <3>3. SavedUpTo(s, o)
        BY <1>6, <3>1, <3>2 DEF SavedUpTo
      <3> QED BY <1>1, <2>2, <3>3 DEF SavedUpTo
    <2> QED BY <2>1, <2>2
  <1>9. OffsetInv(w, s)'
    BY <1>1, <1>3 DEF ShardInv, OffsetInv
  <1>10. StreamInv(w, s)'
    <2> SUFFICES ASSUME returns = 0 PROVE StreamInv(w, s)'
      BY <1>1 DEF StreamInv
    <2>1. task'[w][s].offset = o
      BY <1>1
    <2> QED BY <1>1, <1>2, <1>3, <2>1 DEF ShardInv, StreamInv, SavedUpTo
  <1> QED BY <1>5, <1>7, <1>8, <1>9, <1>10 DEF ShardInv

LEMMA AckReturnsKeeps ==
    ASSUME NEW w \in Worker, NEW s \in Shard, ShardHyp(w, s), AckReturns(w, s)
    PROVE  ShardInv(w, s)' /\ LogInv' /\ StoredIsSaved' /\ DataStays
  <1> USE DEF ShardHyp
  <1> DEFINE o == task[w][s].offset
  <1>1. /\ ElsewhereSame(w, s) /\ UNCHANGED <<log, stored, saved, returns, active>>
        /\ task'[w][s] = Waiting
        /\ queue'[w][s] = queue[w][s] /\ position'[w][s] = position[w][s]
    BY AckReturnsDoes DEF ElsewhereSame
  <1>2. task[w][s].pc = "stored" /\ task[w][s] # NoTask
    BY <1>1 DEF AckReturns, NoTask
  <1>3. HasTask(w, s) /\ HasTask(w, s)' /\ Busy(w, s) /\ ~Busy(w, s)'
    BY <1>1, <1>2 DEF HasTask, Busy, Waiting, NoTask
  <1>4. s \in served[w]
    BY <1>3 DEF ShardInv, TurnInv
  <1>5. MailboxInv(w, s)' /\ TurnInv(w, s)'
    BY <1>1, <1>3, <1>4, SameTurn
  <1>6. DataStays /\ LogInv' /\ StoredIsSaved'
    BY <1>1, StoredSame
  <1>7. OffsetInv(w, s)'
    BY <1>1, <1>3 DEF ShardInv, OffsetInv
  <1>8. StreamInv(w, s)'
    <2> SUFFICES ASSUME returns = 0 PROVE StreamInv(w, s)'
      BY <1>1 DEF StreamInv
    <2>1. o \in 1..Len(log[s]) /\ log[s] \in Seq(Event)
      BY <1>3, HandIsRecord DEF ShardInv, TypeOK
    <2>2. SavedUpTo(s, o - 1) /\ log[s][o] \in saved
      BY <1>2, <1>3 DEF ShardInv, StreamInv
    <2>3. \A i \in 1..o : i \in 1..o - 1 \/ i = o
      BY <2>1
    <2>4. SavedUpTo(s, o)
      BY <2>1, <2>2, <2>3 DEF SavedUpTo
    <2>5. queue[w][s] # <<>> => queue[w][s][1] - 1 = o
      BY <1>3, <2>1 DEF ShardInv, StreamInv
    <2>6. queue[w][s] = <<>> /\ position[w][s] # NoOffset => position[w][s] = o
      BY <1>3 DEF ShardInv, StreamInv
    <2>7. active[s] = w => position[w][s] # NoOffset
      BY <1>3 DEF ShardInv, StreamInv
    <2> QED BY <1>1, <1>3, <2>4, <2>5, <2>6, <2>7 DEF ShardInv, StreamInv, SavedUpTo
  <1> QED BY <1>5, <1>6, <1>7, <1>8 DEF ShardInv

\* Every step of one shard keeps what is said of all shards.
LEMMA ShardStepKeeps ==
    ASSUME TypeOK, LogInv, StoredIsSaved, NEW w \in Worker, NEW s \in Shard,
           \A v \in Worker, t \in Shard : ShardInv(v, t), ShardStep(w, s)
    PROVE  /\ TypeOK' /\ LogInv' /\ StoredIsSaved' /\ ElsewhereSame(w, s)
           /\ \A v \in Worker, t \in Shard : ShardInv(v, t)'
  <1>1. ShardHyp(w, s) /\ OffsetInv(w, s)
    BY DEF ShardHyp, ShardInv
  <1>2. ShardInv(w, s)' /\ LogInv' /\ StoredIsSaved' /\ DataStays
    BY <1>1, QueryOffsetKeeps, OnMessageKeeps, TaskStopsKeeps, TakeDeliveryKeeps,
       SaveSessionKeeps, ActivateKeeps, StoreOffsetKeeps, AckReturnsKeeps DEF ShardStep
  <1>3. TypeOK' /\ ElsewhereSame(w, s)
    BY <1>1, QueryOffsetDoes, OnMessageDoes, TaskStopsDoes, TakeDeliveryDoes,
       SaveSessionDoes, ActivateDoes, StoreOffsetDoes, AckReturnsDoes DEF ShardStep
  <1>4. ASSUME NEW v \in Worker, NEW t \in Shard, v # w \/ t # s PROVE ShardInv(v, t)'
    <2>1. Kept(v, t) /\ returns' = returns
      BY <1>3, <1>4, ElsewhereKept DEF ElsewhereSame
    <2> QED BY <1>2, <2>1, ShardKept
  <1> QED BY <1>2, <1>3, <1>4

-----------------------------------------------------------------------------
(* The mailbox.                                                            *)

\* A change comes to the end of the mailbox, and the broker's view follows it.
LEMMA MailboxGrows ==
    ASSUME TypeOK, NEW w \in Worker, NEW s \in Shard, NEW c \in Change, MailboxInv(w, s),
           mailbox'[w] = Append(mailbox[w], c), Held(w, s)' <=> Held(w, s),
           c.shard = s => /\ active[s] = w <=> c.kind = "released"
                          /\ active'[s] = w <=> c.kind = "acquired",
           c.shard # s => (active'[s] = w <=> active[s] = w)
    PROVE  MailboxInv(w, s)'
  <1> DEFINE n == Len(mailbox[w])
  <1>1. /\ n \in Nat /\ Len(mailbox'[w]) = n + 1 /\ mailbox'[w][n + 1] = c
        /\ \A k \in 1..n : mailbox'[w][k] = mailbox[w][k]
    BY Appended DEF TypeOK
  <1> SUFFICES ASSUME NEW i \in 0..n + 2, NEW j \in 0..n + 2, Successive(w, s, i, j)'
               PROVE  After(w, s, i)' <=> Before(w, s, j)'
    BY <1>1 DEF MailboxInv
  <1> HIDE DEF n
  <1>2. /\ i < j /\ (i # 0 => mailbox'[w][i].shard = s)
        /\ j # n + 2 => mailbox'[w][j].shard = s
        /\ \A k \in i+1 .. j-1 : mailbox'[w][k].shard # s
    BY <1>1 DEF Successive
  <1>3. ASSUME i <= n, NEW m \in 0..n + 1, i < m, m # n + 1 => mailbox[w][m].shard = s,
               \A k \in i+1 .. m-1 : mailbox'[w][k].shard # s
        PROVE  /\ After(w, s, i)' <=> After(w, s, i)
               /\ After(w, s, i) <=> Before(w, s, m)
    <2>1. i # 0 => mailbox'[w][i] = mailbox[w][i] /\ mailbox[w][i].shard = s
      BY <1>1, <1>2, <1>3
    <2>2. \A k \in i+1 .. m-1 : k \in 1..n /\ mailbox[w][k].shard # s
      BY <1>1, <1>3
    <2>3. Successive(w, s, i, m)
      BY <1>3, <2>1, <2>2 DEF Successive, n
    <2>4. After(w, s, i) <=> Before(w, s, m)
      BY <1>1, <1>3, <2>3 DEF MailboxInv, n
    <2> QED BY <2>1, <2>4 DEF After
  <1>4. CASE j <= n
    <2>1. mailbox'[w][j] = mailbox[w][j] /\ j # n + 1 /\ j # n + 2
      BY <1>1, <1>2, <1>4
    <2>2. Before(w, s, j)' <=> Before(w, s, j)
      BY <1>1, <2>1 DEF Before, n
    <2> QED BY <1>1, <1>2, <1>3, <1>4, <2>1, <2>2
  <1>5. CASE j = n + 1
    <2>1. c.shard = s
      BY <1>1, <1>2, <1>5
    <2>2. Before(w, s, j)' <=> c.kind = "released"
      BY <1>1, <1>5 DEF Before
    <2>3. Before(w, s, j) <=> active[s] = w
      BY <1>5 DEF Before, n
    <2> QED BY <1>1, <1>2, <1>3, <1>5, <2>1, <2>2, <2>3
  <1>6. CASE j = n + 2
    <2>1. Before(w, s, j)' <=> active'[s] = w
      BY <1>1, <1>6 DEF Before
    <2>2. CASE c.shard = s
      <3>1. i = n + 1
        BY <1>1, <1>2, <1>6, <2>2
      <3> QED BY <1>1, <2>1, <2>2, <3>1 DEF After
    <2>3. CASE c.shard # s
      <3>1. i <= n
        BY <1>1, <1>2, <1>6, <2>3
      <3>2. Before(w, s, n + 1) <=> active[s] = w
        BY DEF Before, n
      <3> QED BY <1>1, <1>2, <1>3, <1>6, <2>1, <2>3, <3>1, <3>2
    <2> QED BY <2>2, <2>3
  <1> QED BY <1>1, <1>4, <1>5, <1>6

\* The runtime takes the first change.
LEMMA MailboxTaken ==
    ASSUME TypeOK, NEW w \in Worker, NEW s \in Shard, MailboxInv(w, s), mailbox[w] # <<>>,
           NEW c, c = Head(mailbox[w]),
           mailbox'[w] = Tail(mailbox[w]), active'[s] = active[s],
           Held(w, s)' <=> IF c.shard = s THEN c.kind = "acquired" ELSE Held(w, s)
    PROVE  MailboxInv(w, s)'
  <1> DEFINE n == Len(mailbox[w])
  <1>1. /\ n \in Nat \ {0} /\ Len(mailbox'[w]) = n - 1 /\ mailbox[w][1] = c
        /\ \A k \in 1..n - 1 : mailbox'[w][k] = mailbox[w][k + 1]
    BY HeadAndTail DEF TypeOK
  <1> SUFFICES ASSUME NEW i \in 0..n, NEW j \in 0..n, Successive(w, s, i, j)'
               PROVE  After(w, s, i)' <=> Before(w, s, j)'
    BY <1>1 DEF MailboxInv
  <1> HIDE DEF n
  <1>2. /\ i < j /\ (i # 0 => mailbox'[w][i].shard = s)
        /\ j # n => mailbox'[w][j].shard = s
        /\ \A k \in i+1 .. j-1 : mailbox'[w][k].shard # s
    BY <1>1 DEF Successive
  <1>3. /\ j + 1 \in 0..n + 1 /\ j # n => mailbox[w][j + 1].shard = s
        /\ \A k \in i+2 .. j : mailbox[w][k].shard # s
    <2>1. j # n => mailbox[w][j + 1].shard = s
      BY <1>1, <1>2
    <2>2. ASSUME NEW k \in i+2 .. j PROVE mailbox[w][k].shard # s
      <3>1. k - 1 \in i+1 .. j-1 /\ k - 1 \in 1..n - 1 /\ (k - 1) + 1 = k
        BY <1>1, <2>2
      <3>2. mailbox'[w][k - 1] = mailbox[w][k]
        BY <1>1, <3>1
      <3> QED BY <1>2, <3>1, <3>2
    <2> QED BY <1>1, <2>1, <2>2
  <1>4. Before(w, s, j)' <=> Before(w, s, j + 1)
    <2>1. CASE j = n
      <3>1. j = Len(mailbox'[w]) + 1 /\ j + 1 = Len(mailbox[w]) + 1
        BY <1>1, <2>1 DEF n
      <3> QED BY <3>1 DEF Before
    <2>2. CASE j # n
      <3>1. j # Len(mailbox'[w]) + 1 /\ j + 1 # Len(mailbox[w]) + 1
        BY <1>1, <2>2 DEF n
      <3>2. mailbox'[w][j] = mailbox[w][j + 1]
        BY <1>1, <1>2, <2>2
      <3> QED BY <3>1, <3>2 DEF Before
    <2> QED BY <2>1, <2>2
  <1>5. ASSUME NEW m \in 0..n, m < j + 1, m # 0 => mailbox[w][m].shard = s,
               \A k \in m+1 .. j : mailbox[w][k].shard # s
        PROVE  After(w, s, m) <=> Before(w, s, j + 1)
    <2>1. \A k \in m+1 .. (j + 1) - 1 : k \in m+1 .. j
      BY <1>1
    <2>2. j + 1 # n + 1 => mailbox[w][j + 1].shard = s
      BY <1>1, <1>3
    <2>3. Successive(w, s, m, j + 1)
      BY <1>1, <1>5, <2>1, <2>2 DEF Successive, n
    <2>4. m \in 0..n + 1
      BY <1>1
    <2> QED BY <1>3, <2>3, <2>4 DEF MailboxInv, n
  <1>6. CASE i # 0
    <2>1. i + 1 \in 0..n /\ i + 1 < j + 1 /\ mailbox'[w][i] = mailbox[w][i + 1]
      BY <1>1, <1>2, <1>6
    <2>2. After(w, s, i + 1) <=> Before(w, s, j + 1)
      <3>1. \A k \in (i+1)+1 .. j : mailbox[w][k].shard # s
        BY <1>3
      <3>2. mailbox[w][i + 1].shard = s
        BY <1>2, <1>6, <2>1
      <3> QED BY <1>5, <2>1, <3>1, <3>2
    <2>3. After(w, s, i)' <=> After(w, s, i + 1)
      BY <1>1, <1>6, <2>1 DEF After
    <2> QED BY <1>4, <2>2, <2>3
  <1>7. CASE i = 0 /\ c.shard = s
    <2>1. After(w, s, 1) <=> Before(w, s, j + 1)
      <3>1. \A k \in 1+1 .. j : mailbox[w][k].shard # s
        BY <1>3, <1>7
      <3>2. 1 \in 0..n /\ 1 < j + 1 /\ mailbox[w][1].shard = s
        BY <1>1, <1>2, <1>7
      <3> QED BY <1>5, <3>1, <3>2
    <2>2. After(w, s, i)' <=> c.kind = "acquired"
      BY <1>7 DEF After
    <2>3. After(w, s, 1) <=> c.kind = "acquired"
      BY <1>1 DEF After
    <2> QED BY <1>4, <2>1, <2>2, <2>3
  <1>8. CASE i = 0 /\ c.shard # s
    <2>1. After(w, s, 0) <=> Before(w, s, j + 1)
      <3>1. \A k \in 0+1 .. j : mailbox[w][k].shard # s
        BY <1>1, <1>3, <1>8
      <3>2. 0 \in 0..n /\ 0 < j + 1
        BY <1>1
      <3> QED BY <1>5, <3>1, <3>2
    <2>2. After(w, s, i)' <=> After(w, s, 0)
      BY <1>8 DEF After
    <2> QED BY <1>4, <2>1, <2>2
  <1> QED BY <1>6, <1>7, <1>8

\* Which changes wait after one has come, and after one is taken.
LEMMA QueuedGrows ==
    ASSUME TypeOK, NEW w \in Worker, NEW c \in Change, NEW x,
           mailbox'[w] = Append(mailbox[w], c)
    PROVE  /\ Queued(w, x)' => Queued(w, x) \/ x = c
           /\ \A i \in DOMAIN mailbox'[w] :
                  \/ i \in DOMAIN mailbox[w] /\ mailbox'[w][i] = mailbox[w][i]
                  \/ i = Len(mailbox[w]) + 1 /\ mailbox'[w][i] = c
  <1>1. mailbox[w] \in Seq(Change)
    BY DEF TypeOK
  <1>2. \A i \in DOMAIN mailbox'[w] :
            \/ i \in DOMAIN mailbox[w] /\ mailbox'[w][i] = mailbox[w][i]
            \/ i = Len(mailbox[w]) + 1 /\ mailbox'[w][i] = c
    BY <1>1, Appended
  <1> QED BY <1>2 DEF Queued

LEMMA QueuedTaken ==
    ASSUME TypeOK, NEW w \in Worker, mailbox[w] # <<>>, NEW x,
           mailbox'[w] = Tail(mailbox[w])
    PROVE  /\ Queued(w, x)' => Queued(w, x)
           /\ Queued(w, Head(mailbox[w]))
           /\ 1 \in DOMAIN mailbox[w] /\ mailbox[w][1] = Head(mailbox[w])
           /\ \A i \in DOMAIN mailbox'[w] :
                  /\ i \in Int /\ i + 1 \in DOMAIN mailbox[w] /\ i + 1 # 1
                  /\ mailbox'[w][i] = mailbox[w][i + 1]
  <1>1. mailbox[w] \in Seq(Change)
    BY DEF TypeOK
  <1>2. \A i \in DOMAIN mailbox'[w] :
            /\ i \in Int /\ i + 1 \in DOMAIN mailbox[w] /\ i + 1 # 1
            /\ mailbox'[w][i] = mailbox[w][i + 1]
    BY <1>1, HeadAndTail
  <1>3. 1 \in DOMAIN mailbox[w] /\ mailbox[w][1] = Head(mailbox[w])
    BY <1>1, HeadAndTail
  <1> QED BY <1>2, <1>3 DEF Queued

\* The first change of an idle runtime fits to what it has.
LEMMA HeadFits ==
    ASSUME TypeOK, NEW w \in Worker, runtime[w] = Idle, mailbox[w] # <<>>,
           \A s \in Shard : MailboxInv(w, s), NEW c, c = Head(mailbox[w])
    PROVE  (c.kind = "acquired") <=> ~HasTask(w, c.shard)
  <1> DEFINE s == c.shard
  <1>1. mailbox[w] \in Seq(Change) /\ mailbox[w][1] = c /\ c \in Change
        /\ Len(mailbox[w]) \in Nat \ {0}
    BY HeadAndTail DEF TypeOK
  <1>2. s \in Shard /\ c.kind \in {"acquired", "released"}
    BY <1>1 DEF Change
  <1>3. \A k \in 0+1 .. 1-1 : FALSE
    OBVIOUS
  <1>4. Successive(w, s, 0, 1)
    BY <1>1, <1>3 DEF Successive
  <1>5. After(w, s, 0) <=> Before(w, s, 1)
    BY <1>1, <1>2, <1>4 DEF MailboxInv
  <1>6. Before(w, s, 1) <=> c.kind = "released"
    BY <1>1 DEF Before
  <1>7. After(w, s, 0) <=> HasTask(w, s)
    BY DEF After, Held, Acquiring, Cancelling, Idle
  <1> QED BY <1>2, <1>5, <1>6, <1>7

-----------------------------------------------------------------------------
(* Steps of the listener, of the runtime, and ends of processes.           *)

\* The hypotheses of the steps of one worker, and what they keep.
WorkerHyp(w) ==
    /\ TypeOK /\ LogInv /\ StoredIsSaved /\ RuntimeInv(w)
    /\ \A s \in Shard : ShardInv(w, s)

LEMMA OnActiveKeeps ==
    ASSUME ConstantsAssumption, NEW w \in Worker, WorkerHyp(w), NEW s \in Shard,
           OnActive(w, s), NEW t \in Shard
    PROVE  ShardInv(w, t)'
  <1> USE DEF WorkerHyp
  <1>1. /\ TypeOK' /\ OthersSame(w) /\ active[s] = NoWorker
        /\ UNCHANGED <<log, stored, saved, runtime, task, queue, position>>
        /\ mailbox'[w] = Append(mailbox[w], Acquired(s))
        /\ active'[s] = w /\ \A r \in Shard \ {s} : active'[r] = active[r]
        /\ served'[w] = served[w] \cup {s}
        /\ returns' = 0 => returns = 0 /\ s \notin served[w]
    <2>1. returns \in Nat
      BY DEF TypeOK
    <2> QED BY <2>1, OnActiveDoes
  <1>2. DataStays /\ NoWorker # w /\ Acquired(s) \in Change
    BY <1>1, DataSame DEF ConstantsAssumption, Acquired, Change
  <1>3. OffsetInv(w, t)'
    BY <1>1, <1>2, OffsetKept DEF ShardInv
  <1>4. Acquired(s).shard = s /\ Acquired(s).kind = "acquired"
        /\ (Acquired(t) = Acquired(s) => t = s)
    BY DEF Acquired
  <1>5. MailboxInv(w, t)'
    <2>1. Held(w, t)' <=> Held(w, t)
      BY <1>1 DEF Held, Acquiring, HasTask, Cancelling
    <2> QED BY <1>1, <1>2, <1>4, <2>1, MailboxGrows DEF ShardInv
  <1>6. \A i \in DOMAIN mailbox'[w] :
            \/ i \in DOMAIN mailbox[w] /\ mailbox'[w][i] = mailbox[w][i]
            \/ i = Len(mailbox[w]) + 1 /\ mailbox'[w][i] = Acquired(s)
    BY <1>1, <1>2, QueuedGrows
  <1>7. TurnInv(w, t)'
    <2>1. HasTask(w, t)' <=> HasTask(w, t)
      BY <1>1 DEF HasTask
    <2>2. CASE t = s
      <3>1. ASSUME returns' = 0
            PROVE  /\ ~HasTask(w, s)' /\ runtime'[w].shard # s
                   /\ \A i \in DOMAIN mailbox[w] : mailbox[w][i].shard # s
        BY <1>1, <2>1, <2>2, <3>1 DEF ShardInv, TurnInv
      <3>2. ASSUME returns' = 0, NEW i \in DOMAIN mailbox'[w], mailbox'[w][i] = Acquired(s)
            PROVE  i = Len(mailbox[w]) + 1
        BY <1>4, <1>6, <3>1, <3>2
      <3> QED BY <1>1, <2>2, <3>1, <3>2 DEF TurnInv
    <2>3. CASE t # s
      <3>1. ASSUME NEW i \in DOMAIN mailbox'[w], mailbox'[w][i].shard = t
            PROVE  i \in DOMAIN mailbox[w] /\ mailbox'[w][i] = mailbox[w][i]
        BY <1>4, <1>6, <2>3, <3>1
      <3>2. ASSUME t \notin served'[w]
            PROVE  /\ active'[t] # w /\ position'[w][t] = NoOffset /\ queue'[w][t] = <<>>
                   /\ ~HasTask(w, t)' /\ runtime'[w].shard # t
                   /\ \A i \in DOMAIN mailbox'[w] : mailbox'[w][i].shard # t
        BY <1>1, <2>1, <2>3, <3>1, <3>2 DEF ShardInv, TurnInv
      <3>3. Acquired(t).shard = t
        BY DEF Acquired
      <3>4. ASSUME returns' = 0, NEW i \in DOMAIN mailbox'[w], mailbox'[w][i] = Acquired(t)
            PROVE  /\ ~HasTask(w, t)' /\ runtime'[w].shard # t
                   /\ \A j \in DOMAIN mailbox'[w] : mailbox'[w][j] = Acquired(t) => i = j
        <4>1. i \in DOMAIN mailbox[w] /\ mailbox[w][i] = Acquired(t) /\ returns = 0
          BY <1>1, <3>1, <3>3, <3>4
        <4> QED BY <1>1, <2>1, <3>1, <3>3, <4>1 DEF ShardInv, TurnInv
      <3> QED BY <3>2, <3>4 DEF TurnInv
    <2> QED BY <2>2, <2>3
  <1>8. StreamInv(w, t)'
    <2>1. CASE t = s
      <3> SUFFICES ASSUME returns' = 0 PROVE StreamInv(w, t)'
        BY DEF StreamInv
      <3>1. position[w][s] = NoOffset /\ queue[w][s] = <<>> /\ ~HasTask(w, s)
        BY <1>1 DEF ShardInv, TurnInv
      <3>2. ~Busy(w, s)
        BY <3>1 DEF HasTask, Busy, NoTask
      <3> QED BY <1>1, <2>1, <3>1, <3>2 DEF StreamInv, Busy
    <2>2. CASE t # s
      <3>1. Queued(w, Acquired(t))' => Queued(w, Acquired(t))
        BY <1>1, <1>2, <1>4, <2>2, QueuedGrows
      <3>2. Ahead(w, t)' => Ahead(w, t)
        BY <1>1, <3>1 DEF Ahead, HasTask, Acquiring
      <3> QED BY <1>1, <1>2, <2>2, <3>2, StreamKept DEF ShardInv
    <2> QED BY <2>1, <2>2
  <1> QED BY <1>3, <1>5, <1>7, <1>8 DEF ShardInv

LEMMA OnInactiveKeeps ==
    ASSUME ConstantsAssumption, NEW w \in Worker, WorkerHyp(w), NEW s \in Shard,
           OnInactive(w, s), NEW t \in Shard
    PROVE  ShardInv(w, t)'
  <1> USE DEF WorkerHyp
  <1>1. /\ TypeOK' /\ OthersSame(w) /\ active[s] = w
        /\ UNCHANGED <<log, stored, saved, returns, runtime, task, queue, served>>
        /\ mailbox'[w] = Append(mailbox[w], Released(s))
        /\ active'[s] = NoWorker /\ \A r \in Shard \ {s} : active'[r] = active[r]
        /\ position'[w][s] = NoOffset
        /\ \A r \in Shard \ {s} : position'[w][r] = position[w][r]
    BY OnInactiveDoes
  <1>2. DataStays /\ NoWorker # w /\ Released(s) \in Change
    BY <1>1, DataSame DEF ConstantsAssumption, Released, Change
  <1>3. HasTask(w, t)' <=> HasTask(w, t)
    BY <1>1 DEF HasTask
  <1>4. Busy(w, t)' <=> Busy(w, t)
    BY <1>1 DEF Busy
  <1>5. OffsetInv(w, t)'
    <2>1. NoOffset <= Len(log[t])
      BY DEF NoOffset, TypeOK
    <2>2. position'[w][t] <= Len(log[t])
      BY <1>1, <2>1 DEF ShardInv, OffsetInv
    <2> QED BY <1>1, <1>4, <2>2 DEF ShardInv, OffsetInv
  <1>6. /\ Released(s).shard = s /\ Released(s).kind = "released"
        /\ Acquired(t) # Released(s)
    BY DEF Released, Acquired
  <1>7. MailboxInv(w, t)'
    <2>1. Held(w, t)' <=> Held(w, t)
      BY <1>1, <1>3 DEF Held, Acquiring, Cancelling
    <2> QED BY <1>1, <1>2, <1>6, <2>1, MailboxGrows DEF ShardInv
  <1>8. \A i \in DOMAIN mailbox'[w] :
            \/ i \in DOMAIN mailbox[w] /\ mailbox'[w][i] = mailbox[w][i]
            \/ i = Len(mailbox[w]) + 1 /\ mailbox'[w][i] = Released(s)
    BY <1>1, <1>2, QueuedGrows
  <1>9. s \in served[w]
    BY <1>1 DEF ShardInv, TurnInv
  <1>10. TurnInv(w, t)'
    <2>1. ASSUME t \notin served'[w]
          PROVE  /\ active'[t] # w /\ position'[w][t] = NoOffset /\ queue'[w][t] = <<>>
                 /\ ~HasTask(w, t)' /\ runtime'[w].shard # t
                 /\ \A i \in DOMAIN mailbox'[w] : mailbox'[w][i].shard # t
      BY <1>1, <1>3, <1>6, <1>8, <1>9, <2>1 DEF ShardInv, TurnInv
    <2>2. ASSUME returns' = 0, NEW i \in DOMAIN mailbox'[w], mailbox'[w][i] = Acquired(t)
          PROVE  /\ ~HasTask(w, t)' /\ runtime'[w].shard # t
                 /\ \A j \in DOMAIN mailbox'[w] : mailbox'[w][j] = Acquired(t) => i = j
      BY <1>1, <1>3, <1>6, <1>8, <2>2 DEF ShardInv, TurnInv
    <2> QED BY <2>1, <2>2 DEF TurnInv
  <1>11. StreamInv(w, t)'
    <2>1. Queued(w, Acquired(t))' => Queued(w, Acquired(t))
      BY <1>1, <1>2, <1>6, QueuedGrows
    <2>2. Ahead(w, t)' => Ahead(w, t)
      BY <1>1, <1>3, <2>1 DEF Ahead, Acquiring
    <2>3. CASE t # s
      BY <1>1, <1>2, <2>2, <2>3, StreamKept DEF ShardInv
    <2>4. CASE t = s
      BY <1>1, <1>2, <1>4, <2>2, <2>4 DEF ShardInv, StreamInv, SavedUpTo
    <2> QED BY <2>3, <2>4
  <1> QED BY <1>5, <1>7, <1>10, <1>11 DEF ShardInv

LEMMA ProcessEndsKeeps ==
    ASSUME ConstantsAssumption, NEW w \in Worker, WorkerHyp(w), ProcessEnds(w),
           NEW s \in Shard
    PROVE  ShardInv(w, s)'
  <1>1. /\ UNCHANGED <<log, saved>>
        /\ active'[s] = (IF active[s] = w THEN NoWorker ELSE active[s])
        /\ mailbox'[w] = <<>> /\ runtime'[w] = Idle /\ served'[w] = {}
        /\ task'[w][s] = NoTask /\ queue'[w][s] = <<>> /\ position'[w][s] = NoOffset
    BY ProcessEndsDoes DEF WorkerHyp
  <1>2. active'[s] # w /\ NoShard # s /\ log[s] \in Seq(Event)
    BY <1>1 DEF ConstantsAssumption, WorkerHyp, TypeOK
  <1>3. ~HasTask(w, s)' /\ ~Busy(w, s)'
    BY <1>1 DEF HasTask, Busy, NoTask
  <1>4. OffsetInv(w, s)'
    BY <1>1, <1>2, <1>3 DEF OffsetInv, NoOffset
  <1>5. MailboxInv(w, s)'
    <2>1. ~Held(w, s)'
      BY <1>1, <1>3 DEF Held, Acquiring, Idle
    <2>2. Len(mailbox'[w]) = 0
      BY <1>1
    <2>3. ASSUME NEW i \in 0..1, NEW j \in 0..1, i < j PROVE After(w, s, i)' <=> Before(w, s, j)'
      <3>1. i = 0 /\ j = 1
        BY <2>3
      <3> QED BY <1>2, <2>1, <2>2, <3>1 DEF After, Before
    <2> QED BY <2>2, <2>3 DEF MailboxInv, Successive
  <1>6. TurnInv(w, s)'
    BY <1>1, <1>2, <1>3 DEF TurnInv, Idle
  <1>7. StreamInv(w, s)'
    BY <1>1, <1>2, <1>3 DEF StreamInv
  <1> QED BY <1>4, <1>5, <1>6, <1>7 DEF ShardInv

LEMMA TakeChangeKeeps ==
    ASSUME NEW w \in Worker, WorkerHyp(w), TakeChange(w), ~ProcessEnds(w),
           NEW t \in Shard
    PROVE  ShardInv(w, t)' /\ RuntimeInv(w)'
  <1> USE DEF WorkerHyp
  <1> DEFINE c == Head(mailbox[w])
  <1>1. /\ UNCHANGED <<log, active, saved, returns, task, queue, position, served>>
        /\ c \in Change /\ runtime[w] = Idle /\ mailbox[w] # <<>>
        /\ ~(c.kind = "acquired" /\ HasTask(w, c.shard))
        /\ mailbox'[w] = Tail(mailbox[w])
        /\ runtime'[w] = [pc |-> IF c.kind = "acquired" THEN "restoring" ELSE "releasing",
                          shard |-> c.shard, snapshot |-> {}]
    BY TakeChangeDoes DEF brokerVars
  <1>2. (c.kind = "acquired") <=> ~HasTask(w, c.shard)
    BY <1>1, HeadFits DEF ShardInv
  <1>3. /\ Queued(w, c) /\ 1 \in DOMAIN mailbox[w] /\ mailbox[w][1] = c
        /\ Queued(w, Acquired(t))' => Queued(w, Acquired(t))
        /\ \A i \in DOMAIN mailbox'[w] :
               /\ i \in Int /\ i + 1 \in DOMAIN mailbox[w] /\ i + 1 # 1
               /\ mailbox'[w][i] = mailbox[w][i + 1]
    BY <1>1, QueuedTaken
  <1> HIDE DEF c
  <1>4. c.kind \in {"acquired", "released"} /\ c.shard \in Shard
        /\ (c.kind = "acquired" => c = Acquired(c.shard))
    BY <1>1 DEF Change, Acquired
  <1>5. DataStays /\ (HasTask(w, t)' <=> HasTask(w, t))
    BY <1>1, DataSame DEF HasTask
  <1>6. ~Acquiring(w, t) /\ ~Cancelling(w, t)
        /\ (Acquiring(w, t)' <=> c.kind = "acquired" /\ c.shard = t)
        /\ (Cancelling(w, t)' <=> c.kind = "released" /\ c.shard = t)
    BY <1>1, <1>4 DEF Acquiring, Cancelling, Idle
  <1>7. OffsetInv(w, t)'
    BY <1>1, <1>5, OffsetKept DEF ShardInv
  <1>8. MailboxInv(w, t)'
    <2>1. Held(w, t)' <=> IF c.shard = t THEN c.kind = "acquired" ELSE Held(w, t)
      BY <1>4, <1>5, <1>6 DEF Held
    <2>2. c = Head(mailbox[w]) /\ active'[t] = active[t]
      BY <1>1 DEF c
    <2> QED BY <1>1, <2>1, <2>2, MailboxTaken DEF ShardInv
  <1>9. TurnInv(w, t)'
    <2>1. ASSUME t \notin served[w]
          PROVE  c.shard # t /\ \A i \in DOMAIN mailbox'[w] : mailbox'[w][i].shard # t
      BY <1>3, <2>1 DEF ShardInv, TurnInv
    <2>2. ASSUME returns = 0, NEW i \in DOMAIN mailbox'[w], mailbox'[w][i] = Acquired(t)
          PROVE  /\ ~HasTask(w, t) /\ c.shard # t
                 /\ \A j \in DOMAIN mailbox'[w] : mailbox'[w][j] = Acquired(t) => i = j
      <3>1. i + 1 \in DOMAIN mailbox[w] /\ mailbox[w][i + 1] = Acquired(t)
        BY <1>3, <2>2
      <3>2. /\ ~HasTask(w, t)
            /\ \A j \in DOMAIN mailbox[w] : mailbox[w][j] = Acquired(t) => i + 1 = j
        BY <2>2, <3>1 DEF ShardInv, TurnInv
      <3>3. c.shard # t
        BY <1>2, <1>3, <1>4, <2>2, <3>2
      <3>4. ASSUME NEW j \in DOMAIN mailbox'[w], mailbox'[w][j] = Acquired(t) PROVE i = j
        <4>1. i + 1 = j + 1 /\ i \in Int /\ j \in Int
          BY <1>3, <3>2, <3>4
        <4> QED BY <4>1
      <3> QED BY <3>2, <3>3, <3>4
    <2>3. runtime'[w].shard = c.shard
      BY <1>1
    <2> QED BY <1>1, <1>5, <2>1, <2>2, <2>3 DEF ShardInv, TurnInv
  <1>10. StreamInv(w, t)'
    <2>1. Ahead(w, t)' => Ahead(w, t)
      BY <1>3, <1>4, <1>5, <1>6 DEF Ahead
    <2> QED BY <1>1, <1>5, <2>1, StreamKept DEF ShardInv
  <1>11. RuntimeInv(w)'
    <2>1. runtime'[w].pc # "idle" /\ runtime'[w].shard \in Shard /\ runtime'[w].snapshot = {}
      BY <1>1, <1>4
    <2>2. ASSUME NEW s \in Shard, Acquiring(w, s)' PROVE ~HasTask(w, s)'
      <3>1. c.kind = "acquired" /\ c.shard = s
        BY <1>1, <2>2 DEF Acquiring
      <3> QED BY <1>1, <3>1 DEF HasTask
    <2> QED BY <2>1, <2>2 DEF RuntimeInv
  <1> QED BY <1>7, <1>8, <1>9, <1>10, <1>11 DEF ShardInv

LEMMA ReadSessionsKeeps ==
    ASSUME NEW w \in Worker, WorkerHyp(w), ReadSessions(w), NEW t \in Shard
    PROVE  ShardInv(w, t)' /\ RuntimeInv(w)'
  <1> USE DEF WorkerHyp
  <1>1. /\ UNCHANGED <<log, active, saved, returns, mailbox, task, queue, position, served>>
        /\ runtime'[w] = [pc |-> "restored", shard |-> runtime[w].shard,
                          snapshot |-> saved \cap SessionsOf(runtime[w].shard)]
        /\ runtime[w].pc = "restoring"
    BY ReadSessionsDoes DEF brokerVars, ReadSessions
  <1>2. \A s \in Shard : /\ Acquiring(w, s)' <=> Acquiring(w, s)
                         /\ ~Cancelling(w, s) /\ ~Cancelling(w, s)'
                         /\ HasTask(w, s)' <=> HasTask(w, s)
    BY <1>1 DEF Acquiring, Cancelling, HasTask
  <1>3. DataStays /\ runtime'[w].shard = runtime[w].shard
    BY <1>1, DataSame
  <1>4. OffsetInv(w, t)'
    BY <1>1, <1>3, OffsetKept DEF ShardInv
  <1>5. MailboxInv(w, t)'
    BY <1>1, <1>2, MailboxKept DEF ShardInv, Held
  <1>6. TurnInv(w, t)'
    BY <1>1, <1>2, <1>3 DEF ShardInv, TurnInv
  <1>7. StreamInv(w, t)'
    BY <1>1, <1>2, <1>3, StreamKept DEF ShardInv, Ahead, Queued
  <1>8. RuntimeInv(w)'
    <2>1. runtime[w].shard \in Shard
      BY <1>1 DEF RuntimeInv, Idle
    <2>2. runtime'[w].pc # "idle" /\ runtime'[w].snapshot \subseteq SessionsOf(runtime[w].shard)
      BY <1>1
    <2> QED BY <1>2, <1>3, <2>1, <2>2 DEF RuntimeInv, SessionsOf
  <1> QED BY <1>4, <1>5, <1>6, <1>7, <1>8 DEF ShardInv

LEMMA FinishAcquireKeeps ==
    ASSUME ConstantsAssumption, NEW w \in Worker, WorkerHyp(w), FinishAcquire(w),
           NEW t \in Shard
    PROVE  ShardInv(w, t)' /\ RuntimeInv(w)'
  <1> USE DEF WorkerHyp
  <1>0. PICK s \in Shard : s = runtime[w].shard
    BY FinishAcquireDoes
  <1>1. /\ UNCHANGED <<log, active, saved, returns, mailbox, queue, position, served>>
        /\ runtime'[w] = Idle /\ s \in Shard /\ runtime[w].pc = "restored"
        /\ task'[w][s] = Waiting /\ \A r \in Shard \ {s} : task'[w][r] = task[w][r]
    <2>1. /\ UNCHANGED <<brokerVars, saved, mailbox, queue, position, served>>
          /\ runtime'[w] = Idle /\ task'[w][s] = Waiting
          /\ \A r \in Shard \ {s} : task'[w][r] = task[w][r]
      BY <1>0, FinishAcquireDoes
    <2> QED BY <2>1 DEF brokerVars, FinishAcquire
  <1>2. Acquiring(w, s) /\ ~HasTask(w, s) /\ HasTask(w, s)' /\ ~Busy(w, s) /\ ~Busy(w, s)'
    <2>1. Acquiring(w, s)
      BY <1>0, <1>1 DEF Acquiring
    <2>2. HasTask(w, s)' /\ ~Busy(w, s)'
      BY <1>1 DEF HasTask, Busy, Waiting, NoTask
    <2>3. ~HasTask(w, s)
      BY <2>1 DEF RuntimeInv
    <2>4. ~Busy(w, s)
      BY <2>3 DEF HasTask, Busy, NoTask
    <2> QED BY <2>1, <2>2, <2>3, <2>4
  <1>3. /\ ~Cancelling(w, t) /\ ~Cancelling(w, t)' /\ ~Acquiring(w, t)'
        /\ t # s => ~Acquiring(w, t) /\ (HasTask(w, t)' <=> HasTask(w, t))
    BY <1>0, <1>1 DEF Acquiring, Cancelling, HasTask, Idle
  <1>4. DataStays /\ runtime'[w].shard = NoShard /\ NoShard # t
    BY <1>1, DataSame DEF Idle, ConstantsAssumption
  <1>5. OffsetInv(w, t)'
    <2>1. CASE t # s
      BY <1>1, <1>4, <2>1, OffsetKept DEF ShardInv
    <2>2. CASE t = s
      BY <1>1, <1>2, <2>2 DEF ShardInv, OffsetInv
    <2> QED BY <2>1, <2>2
  <1>6. MailboxInv(w, t)'
    <2>1. Held(w, t)' <=> Held(w, t)
      BY <1>2, <1>3 DEF Held
    <2> QED BY <1>1, <2>1, MailboxKept DEF ShardInv
  <1>7. TurnInv(w, t)'
    <2>1. CASE t # s
      BY <1>1, <1>3, <1>4, <2>1 DEF ShardInv, TurnInv
    <2>2. CASE t = s
      <3>1. s \in served[w] /\ (returns = 0 => \A i \in DOMAIN mailbox[w] : mailbox[w][i] # Acquired(s))
        BY <1>0, <2>2 DEF ShardInv, TurnInv
      <3> QED BY <1>1, <2>2, <3>1 DEF TurnInv
    <2> QED BY <2>1, <2>2
  <1>8. StreamInv(w, t)'
    <2>1. CASE t # s
      BY <1>1, <1>3, <1>4, <2>1, StreamKept DEF ShardInv, Ahead, Queued
    <2>2. CASE t = s
      <3>1. Ahead(w, s) /\ ~Busy(w, s) /\ ~Busy(w, s)'
        BY <1>2 DEF Ahead
      <3> QED BY <1>1, <2>2, <3>1 DEF ShardInv, StreamInv, SavedUpTo
    <2> QED BY <2>1, <2>2
  <1>9. RuntimeInv(w)'
    BY <1>1 DEF RuntimeInv, Idle, Acquiring
  <1> QED BY <1>5, <1>6, <1>7, <1>8, <1>9 DEF ShardInv

LEMMA FinishReleaseKeeps ==
    ASSUME ConstantsAssumption, NEW w \in Worker, WorkerHyp(w), FinishRelease(w),
           NEW t \in Shard
    PROVE  ShardInv(w, t)' /\ RuntimeInv(w)'
  <1> USE DEF WorkerHyp
  <1>1. /\ UNCHANGED <<log, active, saved, returns, mailbox, task, queue, position, served>>
        /\ runtime'[w] = Idle /\ runtime[w].pc = "releasing" /\ ~HasTask(w, runtime[w].shard)
    BY FinishReleaseDoes DEF brokerVars, FinishRelease
  <1>2. /\ ~Acquiring(w, t) /\ ~Acquiring(w, t)' /\ ~Cancelling(w, t)'
        /\ HasTask(w, t)' <=> HasTask(w, t)
        /\ Cancelling(w, t) => ~HasTask(w, t)
    BY <1>1 DEF Acquiring, Cancelling, HasTask, Idle
  <1>3. DataStays /\ runtime'[w].shard = NoShard /\ NoShard # t
    BY <1>1, DataSame DEF Idle, ConstantsAssumption
  <1>4. OffsetInv(w, t)'
    BY <1>1, <1>3, OffsetKept DEF ShardInv
  <1>5. MailboxInv(w, t)'
    BY <1>1, <1>2, MailboxKept DEF ShardInv, Held
  <1>6. TurnInv(w, t)'
    BY <1>1, <1>2, <1>3 DEF ShardInv, TurnInv
  <1>7. StreamInv(w, t)'
    BY <1>1, <1>2, <1>3, StreamKept DEF ShardInv, Ahead, Queued
  <1>8. RuntimeInv(w)'
    BY <1>1 DEF RuntimeInv, Idle, Acquiring
  <1> QED BY <1>4, <1>5, <1>6, <1>7, <1>8 DEF ShardInv

-----------------------------------------------------------------------------
(* What holds of one worker, and the workers a step leaves alone.          *)

\* SessionsFollowTasks for one worker.
Sessions(w) ==
    \A e \in registry[w] : HasTask(w, ShardOf[e]) \/ Cancelling(w, ShardOf[e])

WorkerInv(w) ==
    /\ RuntimeInv(w) /\ Sessions(w) /\ ConsumerInv(w)
    /\ \A s \in Shard : ShardInv(w, s) /\ PreparedInv(w, s)

WorkerSame(w) ==
    /\ mailbox'[w] = mailbox[w] /\ runtime'[w] = runtime[w] /\ task'[w] = task[w]
    /\ queue'[w] = queue[w] /\ position'[w] = position[w]
    /\ registry'[w] = registry[w] /\ served'[w] = served[w]

LEMMA InvariantByWorkers ==
    SuperStreamInv <=> /\ TypeOK /\ LogInv /\ StoredIsSaved
                       /\ \A w \in Worker : WorkerInv(w)
  BY DEF SuperStreamInv, WorkerInv, ShardInv, Sessions, SessionsFollowTasks

\* A shard's sessions stay prepared as its task and the registry stay, or grow.
LEMMA PreparedKept ==
    ASSUME TypeOK, DataStays, NEW w \in Worker, NEW s \in Shard,
           OffsetInv(w, s), PreparedInv(w, s), saved' \cap SessionsOf(s) \subseteq saved,
           task'[w][s] = task[w][s], registry[w] \subseteq registry'[w],
           demotions' = 0 => demotions = 0,
           runtime'[w].pc = "restored" /\ runtime'[w].shard = s => runtime'[w] = runtime[w]
    PROVE  PreparedInv(w, s)'
  <1> SUFFICES ASSUME demotions' = 0 PROVE PreparedInv(w, s)'
    BY DEF PreparedInv
  <1>1. runtime'[w].pc = "restored" /\ runtime'[w].shard = s =>
            saved' \cap SessionsOf(s) \subseteq runtime'[w].snapshot
    BY DEF PreparedInv
  <1>2. task[w][s].pc = "saved" =>
            /\ task[w][s].offset \in 1..Len(log[s]) /\ EventInHand(w, s)' = EventInHand(w, s)
            /\ \A i \in 1..task[w][s].offset - 1 : log'[s][i] = log[s][i]
    <2> SUFFICES ASSUME task[w][s].pc = "saved"
                 PROVE  /\ task[w][s].offset \in 1..Len(log[s])
                        /\ EventInHand(w, s)' = EventInHand(w, s)
                        /\ \A i \in 1..task[w][s].offset - 1 : log'[s][i] = log[s][i]
      OBVIOUS
    <2>1. log[s] \in Seq(Event) /\ task[w][s].offset \in DOMAIN log[s]
      BY DEF TypeOK, OffsetInv, Busy
    <2>2. \A i \in 1..Len(log[s]) : log'[s][i] = log[s][i]
      BY DEF DataStays
    <2> QED BY <2>1, <2>2 DEF EventInHand
  <1>3. HasTask(w, s)' => \A e \in saved' \cap SessionsOf(s) :
            e \in registry'[w] \/ (task'[w][s].pc = "saved" /\ e = EventInHand(w, s)')
    BY <1>2 DEF PreparedInv, HasTask
  <1>4. task'[w][s].pc = "saved" =>
            \A i \in 1..task'[w][s].offset - 1 : log'[s][i] \in registry'[w]
    BY <1>2 DEF PreparedInv
  <1> QED BY <1>1, <1>3, <1>4 DEF PreparedInv, SessionsOf

LEMMA WorkerKept ==
    ASSUME TypeOK, DataStays, NEW w \in Worker, WorkerInv(w), WorkerSame(w), saved' = saved,
           \A s \in Shard : active'[s] = w <=> active[s] = w,
           returns' = 0 => returns = 0,
           demotions' = 0 => demotions = 0 /\ (returns = 0 => returns' = 0)
    PROVE  WorkerInv(w)'
  <1>1. \A s \in Shard : /\ task'[w][s] = task[w][s] /\ queue'[w][s] = queue[w][s]
                         /\ position'[w][s] = position[w][s]
    BY DEF WorkerSame
  <1>2. RuntimeInv(w)' /\ Sessions(w)'
    BY DEF WorkerInv, WorkerSame, RuntimeInv, Sessions, HasTask, Cancelling, Acquiring,
           Idle, SessionsOf
  <1>3. ConsumerInv(w)'
    <2>1. served[w] \subseteq Shard
      BY DEF TypeOK
    <2> QED BY <2>1 DEF WorkerInv, WorkerSame, ConsumerInv
  <1>4. ASSUME NEW s \in Shard PROVE ShardInv(w, s)' /\ PreparedInv(w, s)'
    <2>1. Kept(w, s)
      BY <1>1 DEF Kept, WorkerSame
    <2>2. ShardInv(w, s)'
      BY <2>1, ShardKept DEF WorkerInv
    <2>3. PreparedInv(w, s)'
      BY <1>1, PreparedKept DEF WorkerInv, WorkerSame, ShardInv
    <2> QED BY <2>2, <2>3
  <1> QED BY <1>2, <1>3, <1>4 DEF WorkerInv

\* A partition that a worker has anything of is one it has had, so that as long
\* as no live consumer lost one, it is the active consumer.
LEMMA OwnerIsActive ==
    ASSUME NEW w \in Worker, WorkerInv(w), demotions = 0, NEW s \in Shard,
           HasTask(w, s) \/ runtime[w].shard = s
    PROVE  active[s] = w /\ returns = 0
  BY DEF WorkerInv, ShardInv, TurnInv, ConsumerInv

\* What a step of a shard does to the task and to the sessions.
LEMMA ShardStepHolds ==
    ASSUME TypeOK, LogInv, NEW w \in Worker, NEW s \in Shard, OffsetInv(w, s),
           ShardStep(w, s)
    PROVE  /\ HasTask(w, s)' => HasTask(w, s)
           /\ HasTask(w, s) => HasTask(w, s)' \/ Cancelling(w, s)
           /\ registry[w] \subseteq registry'[w]
           /\ \A e \in registry'[w] :
                  e \in registry[w] \/ (ShardOf[e] = s /\ HasTask(w, s)')
           /\ \A v \in Worker \ {w} : registry'[v] = registry[v]
           /\ saved' \subseteq saved \cup SessionsOf(s)
           /\ saved' # saved => HasTask(w, s)
  <1>1. CASE QueryOffset(w, s)
    BY <1>1, QueryOffsetDoes DEF HasTask
  <1>2. CASE OnMessage(w, s)
    BY <1>2, OnMessageDoes DEF HasTask
  <1>3. CASE TaskStops(w, s)
    BY <1>3, TaskStopsDoes DEF HasTask, TaskStops
  <1>4. CASE TakeDelivery(w, s)
    <2>1. /\ UNCHANGED <<saved, registry>>
          /\ task'[w][s] = [pc |-> "saving", offset |-> Head(queue[w][s])]
      BY <1>4, TakeDeliveryDoes
    <2>2. task[w][s] = Waiting
      BY <1>4 DEF TakeDelivery
    <2> QED BY <2>1, <2>2 DEF HasTask, NoTask, Waiting
  <1>5. CASE SaveSession(w, s)
    <2>1. /\ registry' = registry /\ saved' = saved \cup {EventInHand(w, s)}
          /\ task'[w][s] = [pc |-> "saved", offset |-> task[w][s].offset]
      BY <1>5, SaveSessionDoes
    <2>2. task[w][s].pc = "saving"
      BY <1>5 DEF SaveSession
    <2>3. EventInHand(w, s) \in SessionsOf(s)
      BY <2>2, HandIsRecord DEF SessionsOf, Busy
    <2>4. HasTask(w, s) /\ HasTask(w, s)'
      BY <2>1, <2>2 DEF HasTask, NoTask
    <2> QED BY <2>1, <2>3, <2>4
  <1>6. CASE Activate(w, s)
    <2>1. /\ saved' = saved /\ registry'[w] = registry[w] \cup {EventInHand(w, s)}
          /\ \A v \in Worker \ {w} : registry'[v] = registry[v]
          /\ task'[w][s] = [pc |-> "storing", offset |-> task[w][s].offset]
      BY <1>6, ActivateDoes
    <2>2. task[w][s].pc = "saved"
      BY <1>6 DEF Activate
    <2>3. ShardOf[EventInHand(w, s)] = s
      BY <2>2, HandIsRecord DEF Busy
    <2>4. HasTask(w, s) /\ HasTask(w, s)'
      BY <2>1, <2>2 DEF HasTask, NoTask
    <2> QED BY <2>1, <2>3, <2>4
  <1>7. CASE StoreOffset(w, s)
    <2>1. /\ UNCHANGED <<saved, registry>>
          /\ task'[w][s] = [pc |-> "stored", offset |-> task[w][s].offset]
      BY <1>7, StoreOffsetDoes
    <2>2. task[w][s].pc = "storing"
      BY <1>7 DEF StoreOffset
    <2> QED BY <2>1, <2>2 DEF HasTask, NoTask
  <1>8. CASE AckReturns(w, s)
    <2>1. UNCHANGED <<saved, registry>> /\ task'[w][s] = Waiting
      BY <1>8, AckReturnsDoes
    <2>2. task[w][s].pc = "stored"
      BY <1>8 DEF AckReturns
    <2> QED BY <2>1, <2>2 DEF HasTask, NoTask, Waiting
  <1> QED BY <1>1, <1>2, <1>3, <1>4, <1>5, <1>6, <1>7, <1>8 DEF ShardStep

\* The shard of the step stays prepared.
LEMMA ShardStepPrepares ==
    ASSUME TypeOK, LogInv, NEW w \in Worker, WorkerInv(w), NEW s \in Shard,
           ShardStep(w, s)
    PROVE  PreparedInv(w, s)'
  <1>1. ShardInv(w, s) /\ OffsetInv(w, s) /\ PreparedInv(w, s) /\ RuntimeInv(w)
    BY DEF WorkerInv, ShardInv
  <1>2. runtime' = runtime /\ log' = log /\ demotions' = demotions
    BY <1>1, QueryOffsetDoes, OnMessageDoes, TaskStopsDoes, TakeDeliveryDoes,
       SaveSessionDoes, ActivateDoes, StoreOffsetDoes, AckReturnsDoes
    DEF ShardStep, ElsewhereSame
  <1> SUFFICES ASSUME demotions = 0 PROVE PreparedInv(w, s)'
    BY <1>2 DEF PreparedInv
  <1> DEFINE Registered(e) == e \in registry[w]
  <1>3. /\ runtime[w].pc = "restored" /\ runtime[w].shard = s =>
               saved \cap SessionsOf(s) \subseteq runtime[w].snapshot
        /\ HasTask(w, s) => \A e \in saved \cap SessionsOf(s) :
               Registered(e) \/ (task[w][s].pc = "saved" /\ e = EventInHand(w, s))
        /\ task[w][s].pc = "saved" =>
               \A i \in 1 .. task[w][s].offset - 1 : Registered(log[s][i])
    BY <1>1 DEF PreparedInv
  <1>4. ASSUME UNCHANGED <<saved, registry>>, task'[w][s] = task[w][s]
        PROVE  PreparedInv(w, s)'
    BY <1>1, <1>2, <1>4 DEF PreparedInv, HasTask, EventInHand, SessionsOf
  <1>5. ASSUME UNCHANGED <<saved, registry>>, task[w][s].pc # "saved",
               task'[w][s].pc # "saved", HasTask(w, s)' => HasTask(w, s)
        PROVE  PreparedInv(w, s)'
    BY <1>2, <1>3, <1>5 DEF PreparedInv, SessionsOf
  <1>6. /\ HasTask(w, s)' => HasTask(w, s)
    BY <1>1, ShardStepHolds
  <1>7. CASE QueryOffset(w, s) \/ OnMessage(w, s)
    BY <1>4, <1>7, QueryOffsetDoes, OnMessageDoes
  <1>8. CASE TaskStops(w, s)
    <2>1. runtime[w].pc # "releasing"
      BY DEF WorkerInv, ConsumerInv
    <2> QED BY <1>8, <2>1 DEF TaskStops, Cancelling
  <1>9. CASE TakeDelivery(w, s)
    <2>1. /\ UNCHANGED <<saved, registry>>
          /\ task'[w][s] = [pc |-> "saving", offset |-> Head(queue[w][s])]
      BY <1>9, TakeDeliveryDoes
    <2>2. task[w][s].pc = "waiting" /\ task'[w][s].pc = "saving"
      BY <1>9, <2>1 DEF TakeDelivery, Waiting
    <2> QED BY <1>5, <1>6, <2>1, <2>2
  <1>10. CASE SaveSession(w, s)
    <2>1. /\ registry' = registry /\ saved' = saved \cup {EventInHand(w, s)}
          /\ task'[w][s] = [pc |-> "saved", offset |-> task[w][s].offset]
      BY <1>1, <1>10, SaveSessionDoes
    <2>2. task[w][s].pc = "saving" /\ HasTask(w, s) /\ Busy(w, s)
      BY <1>10 DEF SaveSession, HasTask, NoTask, Busy
    <2>3. EventInHand(w, s)' = EventInHand(w, s) /\ task'[w][s].pc = "saved"
          /\ task'[w][s].offset = task[w][s].offset
      BY <1>2, <2>1 DEF EventInHand
    <2>4. ~(runtime[w].pc = "restored" /\ runtime[w].shard = s)
      BY <1>1, <2>2 DEF RuntimeInv, Acquiring
    <2>5. \A e \in saved' \cap SessionsOf(s) : Registered(e) \/ e = EventInHand(w, s)
      BY <1>3, <2>1, <2>2
    <2>6. SavedUpTo(s, task[w][s].offset - 1)
      <3>1. returns = 0
        BY DEF WorkerInv, ConsumerInv
      <3> QED BY <1>1, <2>2, <3>1 DEF ShardInv, StreamInv
    <2>7. \A i \in 1 .. task[w][s].offset - 1 : Registered(log[s][i])
      <3>1. \A i \in 1 .. task[w][s].offset - 1 : log[s][i] \in saved \cap SessionsOf(s)
        BY <2>6 DEF SavedUpTo, LogInv, SessionsOf, TypeOK
      <3> QED BY <1>3, <2>2, <3>1
    <2> HIDE DEF Registered
    <2>8. PreparedInv(w, s)' <=>
             (/\ runtime[w].pc = "restored" /\ runtime[w].shard = s =>
                    saved' \cap SessionsOf(s) \subseteq runtime[w].snapshot
              /\ HasTask(w, s)' => \A e \in saved' \cap SessionsOf(s) :
                     Registered(e) \/ (task'[w][s].pc = "saved" /\ e = EventInHand(w, s)')
              /\ task'[w][s].pc = "saved" =>
                     \A i \in 1 .. task'[w][s].offset - 1 : Registered(log[s][i]))
      BY <1>2, <2>1 DEF PreparedInv, SessionsOf, Registered
    <2> QED BY <2>3, <2>4, <2>5, <2>7, <2>8
  <1>11. CASE Activate(w, s)
    <2>1. /\ saved' = saved /\ registry'[w] = registry[w] \cup {EventInHand(w, s)}
          /\ task'[w][s] = [pc |-> "storing", offset |-> task[w][s].offset]
      BY <1>1, <1>11, ActivateDoes
    <2>2. HasTask(w, s) /\ task'[w][s].pc # "saved"
      BY <1>6, <1>11, <2>1 DEF Activate, HasTask, NoTask
    <2>3. \A e \in saved \cap SessionsOf(s) : e \in registry'[w]
      BY <1>3, <2>1, <2>2
    <2> QED BY <1>2, <1>3, <2>1, <2>2, <2>3 DEF PreparedInv, SessionsOf
  <1>12. CASE StoreOffset(w, s)
    <2>1. /\ UNCHANGED <<saved, registry>>
          /\ task'[w][s] = [pc |-> "stored", offset |-> task[w][s].offset]
      BY <1>12, StoreOffsetDoes
    <2> QED BY <1>5, <1>6, <1>12, <2>1 DEF StoreOffset
  <1>13. CASE AckReturns(w, s)
    <2>1. UNCHANGED <<saved, registry>> /\ task'[w][s] = Waiting
      BY <1>13, AckReturnsDoes
    <2> QED BY <1>5, <1>6, <1>13, <2>1 DEF AckReturns, Waiting
  <1> QED BY <1>7, <1>8, <1>9, <1>10, <1>11, <1>12, <1>13 DEF ShardStep

\* So the step keeps the whole invariant.
LEMMA ShardStepInv ==
    ASSUME ConstantsAssumption, SuperStreamInv, NEW w \in Worker, NEW s \in Shard,
           ShardStep(w, s)
    PROVE  SuperStreamInv'
  <1>1. TypeOK /\ LogInv /\ StoredIsSaved /\ \A v \in Worker : WorkerInv(v)
    BY InvariantByWorkers
  <1>2. /\ TypeOK' /\ LogInv' /\ StoredIsSaved' /\ ElsewhereSame(w, s)
        /\ \A v \in Worker, t \in Shard : ShardInv(v, t)'
    BY <1>1, ShardStepKeeps DEF WorkerInv
  <1>3. DataStays
    BY <1>1, QueryOffsetKeeps, OnMessageKeeps, TaskStopsKeeps, TakeDeliveryKeeps,
       SaveSessionKeeps, ActivateKeeps, StoreOffsetKeeps, AckReturnsKeeps
    DEF ShardStep, ShardHyp, WorkerInv
  <1>4. /\ HasTask(w, s)' => HasTask(w, s)
        /\ HasTask(w, s) => HasTask(w, s)' \/ Cancelling(w, s)
        /\ registry[w] \subseteq registry'[w]
        /\ \A e \in registry'[w] : e \in registry[w] \/ (ShardOf[e] = s /\ HasTask(w, s)')
        /\ \A v \in Worker \ {w} : registry'[v] = registry[v]
        /\ saved' \subseteq saved \cup SessionsOf(s)
        /\ saved' # saved => HasTask(w, s)
    BY <1>1, ShardStepHolds DEF WorkerInv, ShardInv
  <1>5. /\ runtime' = runtime /\ mailbox' = mailbox /\ served' = served
        /\ active' = active /\ returns' = returns /\ demotions' = demotions
        /\ \A v \in Worker, t \in Shard : v # w \/ t # s =>
               task'[v][t] = task[v][t] /\ (HasTask(v, t)' <=> HasTask(v, t))
    BY <1>2 DEF ElsewhereSame, HasTask
  <1>6. \A v \in Worker, t \in Shard : /\ Cancelling(v, t)' <=> Cancelling(v, t)
                                       /\ Acquiring(v, t)' <=> Acquiring(v, t)
    BY <1>5 DEF Cancelling, Acquiring
  <1>7. \A e \in Event : ShardOf[e] \in Shard
    BY DEF ConstantsAssumption
  <1>8. ASSUME NEW v \in Worker PROVE WorkerInv(v)'
    <2>1. RuntimeInv(v)'
      <3>1. \A t \in Shard : HasTask(v, t)' => HasTask(v, t)
        BY <1>4, <1>5
      <3>2. RuntimeInv(v)
        BY <1>1 DEF WorkerInv
      <3> QED BY <1>5, <1>6, <3>1, <3>2 DEF RuntimeInv, SessionsOf, Idle
    <2>2. Sessions(v)'
      <3> SUFFICES ASSUME NEW e \in registry'[v]
                   PROVE  HasTask(v, ShardOf[e])' \/ Cancelling(v, ShardOf[e])'
        BY DEF Sessions
      <3>1. e \in Event /\ ShardOf[e] \in Shard
        BY <1>2, <1>7 DEF TypeOK
      <3>2. CASE e \in registry[v]
        <4>1. HasTask(v, ShardOf[e]) \/ Cancelling(v, ShardOf[e])
          BY <1>1, <3>2 DEF WorkerInv, Sessions
        <4> QED BY <1>4, <1>5, <1>6, <3>1, <4>1
      <3>3. CASE e \notin registry[v]
        BY <1>4, <3>3
      <3> QED BY <3>2, <3>3
    <2>3. ConsumerInv(v)'
      BY <1>1, <1>5 DEF WorkerInv, ConsumerInv
    <2>4. ASSUME NEW t \in Shard PROVE PreparedInv(v, t)'
      <3>1. CASE v = w /\ t = s
        BY <1>1, <3>1, ShardStepPrepares
      <3>2. CASE v = w /\ t # s
        <4>1. saved' \cap SessionsOf(t) \subseteq saved
          BY <1>4, <3>2 DEF SessionsOf
        <4> QED BY <1>1, <1>3, <1>4, <1>5, <3>2, <4>1, PreparedKept DEF WorkerInv, ShardInv
      <3>3. CASE v # w /\ saved' \cap SessionsOf(t) \subseteq saved
        BY <1>1, <1>3, <1>4, <1>5, <3>3, PreparedKept DEF WorkerInv, ShardInv
      <3>4. CASE v # w /\ ~(saved' \cap SessionsOf(t) \subseteq saved)
        <4> SUFFICES ASSUME demotions = 0 PROVE PreparedInv(v, t)'
          BY <1>5 DEF PreparedInv
        <4>1. t = s /\ HasTask(w, s)
          BY <1>4, <3>4 DEF SessionsOf
        <4>2. active[s] = w
          BY <1>1, <4>1, OwnerIsActive
        <4>3. ~HasTask(v, t) /\ runtime[v].shard # t
          BY <1>1, <3>4, <4>1, <4>2, OwnerIsActive
        <4>4. ~HasTask(v, t)' /\ runtime'[v].shard # t /\ task'[v][t].pc # "saved"
          BY <1>5, <3>4, <4>3 DEF HasTask, NoTask
        <4> QED BY <4>4 DEF PreparedInv
      <3> QED BY <3>1, <3>2, <3>3, <3>4
    <2> QED BY <1>2, <2>1, <2>2, <2>3, <2>4 DEF WorkerInv
  <1>9. SuperStreamInv' <=> /\ TypeOK' /\ LogInv' /\ StoredIsSaved'
                            /\ \A v \in Worker : WorkerInv(v)'
    BY DEF SuperStreamInv, WorkerInv, ShardInv, Sessions, SessionsFollowTasks
  <1> QED BY <1>2, <1>8, <1>9

-----------------------------------------------------------------------------
(* The other steps, and what the worker that takes them has.               *)

LEMMA OnActiveOwn ==
    ASSUME ConstantsAssumption, TypeOK, LogInv, StoredIsSaved, NEW w \in Worker,
           WorkerInv(w), NEW s \in Shard, OnActive(w, s)
    PROVE  WorkerInv(w)'
  <1>1. /\ active[s] = NoWorker /\ UNCHANGED <<log, demotions, saved, runtime, task, registry>>
        /\ mailbox'[w] = Append(mailbox[w], Acquired(s))
        /\ active'[s] = w /\ \A t \in Shard \ {s} : active'[t] = active[t]
        /\ served'[w] = served[w] \cup {s}
        /\ s \notin served[w] => returns' = returns
    BY OnActiveDoes
  <1>2. \A t \in Shard : ShardInv(w, t)'
    BY OnActiveKeeps DEF WorkerHyp, WorkerInv
  <1>3. \A t \in Shard : PreparedInv(w, t)'
    BY <1>1, DataSame, PreparedKept DEF WorkerInv, ShardInv
  <1>4. RuntimeInv(w)' /\ Sessions(w)'
    BY <1>1 DEF WorkerInv, RuntimeInv, Sessions, HasTask, Cancelling, Acquiring,
                Idle, SessionsOf
  <1>5. ConsumerInv(w)'
    <2> SUFFICES ASSUME demotions = 0 PROVE ConsumerInv(w)'
      BY <1>1 DEF ConsumerInv
    <2>1. /\ returns = 0 /\ runtime[w].pc # "releasing"
          /\ \A i \in DOMAIN mailbox[w] : mailbox[w][i].kind = "acquired"
          /\ \A t \in served[w] : active[t] = w
      BY DEF WorkerInv, ConsumerInv
    <2>2. s \notin served[w]
      BY <1>1, <2>1 DEF ConstantsAssumption
    <2>3. \A i \in DOMAIN mailbox'[w] : mailbox'[w][i].kind = "acquired"
      <3>1. Acquired(s) \in Change /\ Acquired(s).kind = "acquired"
        BY DEF Acquired, Change
      <3> QED BY <1>1, <2>1, <3>1, QueuedGrows
    <2>4. served[w] \subseteq Shard
      BY DEF TypeOK
    <2> QED BY <1>1, <2>1, <2>2, <2>3, <2>4 DEF ConsumerInv
  <1> QED BY <1>2, <1>3, <1>4, <1>5 DEF WorkerInv

LEMMA OnInactiveOwn ==
    ASSUME ConstantsAssumption, TypeOK, LogInv, StoredIsSaved, NEW w \in Worker,
           WorkerInv(w), NEW s \in Shard, OnInactive(w, s)
    PROVE  WorkerInv(w)'
  <1>1. UNCHANGED <<runtime, task, registry>> /\ demotions' # 0
    BY OnInactiveDoes
  <1>2. \A t \in Shard : ShardInv(w, t)'
    BY OnInactiveKeeps DEF WorkerHyp, WorkerInv
  <1>3. RuntimeInv(w)' /\ Sessions(w)'
    BY <1>1 DEF WorkerInv, RuntimeInv, Sessions, HasTask, Cancelling, Acquiring,
                Idle, SessionsOf
  <1>4. ConsumerInv(w)' /\ \A t \in Shard : PreparedInv(w, t)'
    BY <1>1 DEF ConsumerInv, PreparedInv
  <1> QED BY <1>2, <1>3, <1>4 DEF WorkerInv

LEMMA ProcessEndsOwn ==
    ASSUME ConstantsAssumption, TypeOK, LogInv, StoredIsSaved, NEW w \in Worker,
           WorkerInv(w), ProcessEnds(w)
    PROVE  WorkerInv(w)'
  <1>1. /\ demotions' = demotions /\ returns' = returns
        /\ mailbox'[w] = <<>> /\ runtime'[w] = Idle /\ registry'[w] = {} /\ served'[w] = {}
        /\ \A s \in Shard : task'[w][s] = NoTask
    BY ProcessEndsDoes
  <1>2. \A s \in Shard : ShardInv(w, s)'
    BY ProcessEndsKeeps DEF WorkerHyp, WorkerInv
  <1>3. RuntimeInv(w)' /\ Sessions(w)'
    BY <1>1 DEF RuntimeInv, Sessions, Acquiring, Idle
  <1>4. ConsumerInv(w)'
    BY <1>1 DEF WorkerInv, ConsumerInv, Idle
  <1>5. \A s \in Shard : PreparedInv(w, s)'
    BY <1>1 DEF PreparedInv, Idle, HasTask, NoTask
  <1> QED BY <1>2, <1>3, <1>4, <1>5 DEF WorkerInv

LEMMA TakeChangeOwn ==
    ASSUME ConstantsAssumption, TypeOK, LogInv, StoredIsSaved, NEW w \in Worker,
           WorkerInv(w), TakeChange(w), ~ProcessEnds(w)
    PROVE  WorkerInv(w)'
  <1> DEFINE c == Head(mailbox[w])
  <1>1. /\ UNCHANGED <<log, active, saved, returns, demotions, task, registry, served>>
        /\ c \in Change /\ runtime[w] = Idle /\ mailbox[w] # <<>>
        /\ mailbox'[w] = Tail(mailbox[w])
        /\ runtime'[w] = [pc |-> IF c.kind = "acquired" THEN "restoring" ELSE "releasing",
                          shard |-> c.shard, snapshot |-> {}]
    BY TakeChangeDoes DEF brokerVars
  <1>2. RuntimeInv(w)' /\ \A s \in Shard : ShardInv(w, s)'
    <2>1. WorkerHyp(w)
      BY DEF WorkerHyp, WorkerInv
    <2>2. \A s \in Shard : ShardInv(w, s)' /\ RuntimeInv(w)'
      BY <2>1, TakeChangeKeeps
    <2>3. c.shard \in Shard
      BY <1>1 DEF Change
    <2> QED BY <2>2, <2>3
  <1>3. /\ 1 \in DOMAIN mailbox[w] /\ mailbox[w][1] = c
        /\ \A i \in DOMAIN mailbox'[w] :
               i + 1 \in DOMAIN mailbox[w] /\ mailbox'[w][i] = mailbox[w][i + 1]
    BY <1>1, QueuedTaken
  <1>4. Sessions(w)'
    BY <1>1 DEF WorkerInv, Sessions, HasTask, Cancelling, Idle
  <1>5. ConsumerInv(w)'
    BY <1>1, <1>3 DEF WorkerInv, ConsumerInv
  <1>6. \A s \in Shard : PreparedInv(w, s)'
    <2>1. runtime'[w].pc # "restored"
      BY <1>1
    <2> QED BY <1>1, <2>1, DataSame, PreparedKept DEF WorkerInv, ShardInv
  <1> QED BY <1>2, <1>4, <1>5, <1>6 DEF WorkerInv

LEMMA ReadSessionsOwn ==
    ASSUME ConstantsAssumption, TypeOK, LogInv, StoredIsSaved, NEW w \in Worker,
           WorkerInv(w), ReadSessions(w)
    PROVE  WorkerInv(w)'
  <1>1. /\ UNCHANGED <<log, active, saved, returns, demotions, mailbox, task, registry, served>>
        /\ runtime'[w] = [pc |-> "restored", shard |-> runtime[w].shard,
                          snapshot |-> saved \cap SessionsOf(runtime[w].shard)]
        /\ runtime[w].pc = "restoring"
    BY ReadSessionsDoes DEF brokerVars, ReadSessions
  <1>2. RuntimeInv(w)' /\ \A s \in Shard : ShardInv(w, s)'
    <2>1. runtime[w].shard \in Shard
      BY <1>1 DEF WorkerInv, RuntimeInv, Idle
    <2> QED BY <2>1, ReadSessionsKeeps DEF WorkerHyp, WorkerInv
  <1>3. Sessions(w)' /\ ConsumerInv(w)'
    BY <1>1 DEF WorkerInv, Sessions, ConsumerInv, HasTask, Cancelling
  <1>4. ASSUME NEW s \in Shard PROVE PreparedInv(w, s)'
    <2>1. CASE runtime[w].shard # s
      BY <1>1, <2>1, DataSame, PreparedKept DEF WorkerInv, ShardInv
    <2>2. CASE runtime[w].shard = s
      <3>1. ~HasTask(w, s) /\ task[w][s].pc # "saved"
        BY <1>1, <2>2 DEF WorkerInv, RuntimeInv, Acquiring, HasTask, NoTask
      <3> QED BY <1>1, <2>2, <3>1 DEF PreparedInv, HasTask, SessionsOf
    <2> QED BY <2>1, <2>2
  <1> QED BY <1>2, <1>3, <1>4 DEF WorkerInv

LEMMA FinishAcquireOwn ==
    ASSUME ConstantsAssumption, TypeOK, LogInv, StoredIsSaved, NEW w \in Worker,
           WorkerInv(w), FinishAcquire(w)
    PROVE  WorkerInv(w)'
  <1>0. RuntimeInv(w)
    BY DEF WorkerInv
  <1>1. PICK s \in Shard : s = runtime[w].shard
    BY <1>0, FinishAcquireDoes
  <1>2. /\ UNCHANGED <<brokerVars, saved, mailbox, queue, position, served>>
        /\ runtime'[w] = Idle /\ task'[w][s] = Waiting
        /\ registry'[w] = registry[w] \cup runtime[w].snapshot
        /\ \A t \in Shard \ {s} : task'[w][t] = task[w][t]
    BY <1>0, <1>1, FinishAcquireDoes
  <1>3. /\ UNCHANGED <<log, active, returns, demotions>> /\ runtime[w].pc = "restored"
        /\ HasTask(w, s)' /\ \A t \in Shard : HasTask(w, t) => HasTask(w, t)'
    BY <1>2 DEF brokerVars, FinishAcquire, HasTask, Waiting, NoTask
  <1>4. RuntimeInv(w)' /\ \A t \in Shard : ShardInv(w, t)'
    BY <1>1, FinishAcquireKeeps DEF WorkerHyp, WorkerInv
  <1>5. Sessions(w)'
    <2> SUFFICES ASSUME NEW e \in registry'[w] PROVE HasTask(w, ShardOf[e])'
      BY DEF Sessions
    <2>1. CASE e \in registry[w]
      <3>1. ShardOf[e] \in Shard
        BY <2>1 DEF TypeOK, ConstantsAssumption
      <3>2. HasTask(w, ShardOf[e])
        BY <1>3, <2>1 DEF WorkerInv, Sessions, Cancelling
      <3> QED BY <1>3, <3>1, <3>2
    <2>2. CASE e \in runtime[w].snapshot
      <3>1. ShardOf[e] = s
        BY <1>0, <1>1, <2>2 DEF RuntimeInv, SessionsOf
      <3> QED BY <1>3, <3>1
    <2> QED BY <1>2, <2>1, <2>2
  <1>6. ConsumerInv(w)'
    BY <1>2, <1>3 DEF WorkerInv, ConsumerInv, Idle
  <1>7. ASSUME NEW t \in Shard PROVE PreparedInv(w, t)'
    <2>1. CASE t # s
      BY <1>2, <1>3, <2>1, DataSame, PreparedKept DEF WorkerInv, ShardInv, Idle
    <2>2. CASE t = s
      <3>1. demotions = 0 => saved \cap SessionsOf(s) \subseteq registry'[w]
        BY <1>1, <1>2, <1>3 DEF WorkerInv, PreparedInv
      <3> QED BY <1>2, <1>3, <2>2, <3>1 DEF PreparedInv, Idle, Waiting, SessionsOf
    <2> QED BY <2>1, <2>2
  <1> QED BY <1>4, <1>5, <1>6, <1>7 DEF WorkerInv

LEMMA FinishReleaseOwn ==
    ASSUME ConstantsAssumption, TypeOK, LogInv, StoredIsSaved, NEW w \in Worker,
           WorkerInv(w), FinishRelease(w)
    PROVE  WorkerInv(w)'
  <1>1. /\ UNCHANGED <<brokerVars, saved, mailbox, task, queue, position, served>>
        /\ runtime'[w] = Idle /\ registry'[w] = registry[w] \ SessionsOf(runtime[w].shard)
        /\ runtime[w].pc = "releasing"
    BY FinishReleaseDoes DEF FinishRelease
  <1>2. RuntimeInv(w)' /\ \A t \in Shard : ShardInv(w, t)'
    <2>1. runtime[w].shard \in Shard
      BY <1>1 DEF WorkerInv, RuntimeInv, Idle
    <2> QED BY <2>1, FinishReleaseKeeps DEF WorkerHyp, WorkerInv
  <1>3. Sessions(w)'
    <2> SUFFICES ASSUME NEW e \in registry'[w] PROVE HasTask(w, ShardOf[e])'
      BY DEF Sessions
    <2>1. e \in registry[w] /\ e \in Event /\ ShardOf[e] # runtime[w].shard
      BY <1>1 DEF TypeOK, SessionsOf
    <2> QED BY <1>1, <2>1 DEF WorkerInv, Sessions, HasTask, Cancelling
  <1>4. ConsumerInv(w)' /\ \A t \in Shard : PreparedInv(w, t)'
    <2>1. demotions' # 0
      BY <1>1 DEF WorkerInv, ConsumerInv, brokerVars
    <2> QED BY <2>1 DEF ConsumerInv, PreparedInv
  <1> QED BY <1>2, <1>3, <1>4 DEF WorkerInv

\* A step of one worker, with what it leaves to the others.
LEMMA WorkerStepInv ==
    ASSUME SuperStreamInv, NEW w \in Worker, TypeOK', WorkerInv(w)', OthersSame(w),
           UNCHANGED <<log, stored, saved>>, returns' = 0 => returns = 0,
           demotions' = 0 =>
               demotions = 0 /\ (returns = 0 /\ ConsumerInv(w)' => returns' = 0),
           \A v \in Worker \ {w}, s \in Shard : active'[s] = v <=> active[s] = v
    PROVE  SuperStreamInv'
  <1>1. TypeOK /\ LogInv /\ StoredIsSaved /\ \A v \in Worker : WorkerInv(v)
    BY InvariantByWorkers
  <1>2. DataStays /\ LogInv' /\ StoredIsSaved'
    BY <1>1, StoredSame
  <1>3. ConsumerInv(w)'
    BY DEF WorkerInv
  <1>4. ASSUME NEW v \in Worker \ {w} PROVE WorkerInv(v)'
    <2>1. WorkerSame(v)
      BY DEF OthersSame, WorkerSame
    <2> QED BY <1>1, <1>2, <1>3, <2>1, WorkerKept
  <1>5. \A v \in Worker : WorkerInv(v)'
    BY <1>4
  <1> QED BY <1>2, <1>5
          DEF SuperStreamInv, WorkerInv, ShardInv, Sessions, SessionsFollowTasks

LEMMA RuntimeStepInv ==
    ASSUME ConstantsAssumption, SuperStreamInv, NEW w \in Worker,
           RuntimeStep(w) \/ ProcessEnds(w)
    PROVE  SuperStreamInv'
  <1>1. TypeOK /\ LogInv /\ StoredIsSaved /\ WorkerInv(w)
    BY InvariantByWorkers
  <1>2. RuntimeInv(w)
    BY <1>1 DEF WorkerInv
  <1>3. CASE ProcessEnds(w)
    <2>1. /\ TypeOK' /\ OthersSame(w)
          /\ UNCHANGED <<log, stored, returns, demotions, saved>>
          /\ \A s \in Shard : active'[s] = IF active[s] = w THEN NoWorker ELSE active[s]
      BY <1>1, <1>3, ProcessEndsDoes
    <2>2. \A v \in Worker \ {w}, s \in Shard : active'[s] = v <=> active[s] = v
      BY <2>1 DEF ConstantsAssumption
    <2> QED BY <1>1, <1>3, <2>1, <2>2, ProcessEndsOwn, WorkerStepInv
  <1>4. CASE RuntimeStep(w) /\ ~ProcessEnds(w)
    <2>1. TypeOK' /\ OthersSame(w) /\ UNCHANGED <<brokerVars, saved>>
      BY <1>1, <1>2, <1>4, TakeChangeDoes, ReadSessionsDoes, FinishAcquireDoes,
         FinishReleaseDoes DEF RuntimeStep
    <2>2. WorkerInv(w)'
      BY <1>1, <1>4, TakeChangeOwn, ReadSessionsOwn, FinishAcquireOwn, FinishReleaseOwn
      DEF RuntimeStep
    <2>3. UNCHANGED <<log, stored, active, returns, demotions, saved>>
      BY <2>1 DEF brokerVars
    <2> QED BY <2>1, <2>2, <2>3, WorkerStepInv
  <1> QED BY <1>3, <1>4

LEMMA ListenerInv ==
    ASSUME ConstantsAssumption, SuperStreamInv, NEW w \in Worker, NEW s \in Shard,
           OnActive(w, s) \/ OnInactive(w, s)
    PROVE  SuperStreamInv'
  <1>1. TypeOK /\ LogInv /\ StoredIsSaved /\ WorkerInv(w)
    BY InvariantByWorkers
  <1>2. returns \in Nat /\ NoWorker \notin Worker
    BY <1>1 DEF TypeOK, ConstantsAssumption
  <1>3. CASE OnActive(w, s)
    <2>1. /\ TypeOK' /\ OthersSame(w) /\ active[s] = NoWorker
          /\ UNCHANGED <<log, stored, demotions, saved>>
          /\ active'[s] = w /\ \A t \in Shard \ {s} : active'[t] = active[t]
          /\ returns' = 0 => returns = 0
      BY <1>1, <1>2, <1>3, OnActiveDoes
    <2>2. WorkerInv(w)'
      BY <1>1, <1>3, OnActiveOwn
    <2>3. \A v \in Worker \ {w}, t \in Shard : active'[t] = v <=> active[t] = v
      BY <1>2, <2>1
    <2>4. demotions' = 0 /\ ConsumerInv(w)' => returns' = 0
      BY DEF ConsumerInv
    <2> QED BY <2>1, <2>2, <2>3, <2>4, WorkerStepInv
  <1>4. CASE OnInactive(w, s)
    <2>1. /\ TypeOK' /\ OthersSame(w) /\ active[s] = w
          /\ UNCHANGED <<log, stored, returns, saved>> /\ demotions' # 0
          /\ active'[s] = NoWorker /\ \A t \in Shard \ {s} : active'[t] = active[t]
      BY <1>1, <1>4, OnInactiveDoes
    <2>2. WorkerInv(w)'
      BY <1>1, <1>4, OnInactiveOwn
    <2>3. \A v \in Worker \ {w}, t \in Shard : active'[t] = v <=> active[t] = v
      BY <1>2, <2>1
    <2> QED BY <2>1, <2>2, <2>3, WorkerStepInv
  <1> QED BY <1>3, <1>4

\* Publish and Start leave every worker's tables alone.
LEMMA OutsideInv ==
    ASSUME ConstantsAssumption, SuperStreamInv,
           (\E e \in Event : Publish(e)) \/ (\E w \in Worker : Start(w)) \/ UNCHANGED vars
    PROVE  SuperStreamInv'
  <1>1. TypeOK /\ LogInv /\ StoredIsSaved /\ \A v \in Worker : WorkerInv(v)
    BY InvariantByWorkers
  <1>2. /\ UNCHANGED <<stored, active, returns, demotions, saved>> /\ UNCHANGED workerVars
        /\ connected' \in SUBSET Worker
    BY <1>1 DEF Publish, Start, vars, brokerVars, TypeOK
  <1>3. DataStays /\ log' \in [Shard -> Seq(Event)] /\ LogInv'
    <2>1. CASE \E e \in Event : Publish(e)
      <3>1. PICK e \in Event : Publish(e)
        BY <2>1
      <3>2. /\ log' \in [Shard -> Seq(Event)] /\ DataStays
            /\ \A s \in Shard : \A i \in DOMAIN log'[s] :
                   i \in DOMAIN log[s] \/ (log'[s][i] = e /\ s = ShardOf[e])
        BY <1>1, <3>1, PublishTypes
      <3>3. ASSUME NEW s \in Shard
            PROVE  /\ stored[s] <= Len(log'[s])
                   /\ \A i \in DOMAIN log'[s] : ShardOf[log'[s][i]] = s
        <4>1. /\ log[s] \in Seq(Event) /\ log'[s] \in Seq(Event) /\ stored[s] \in Nat
              /\ Len(log[s]) <= Len(log'[s])
              /\ \A i \in 1..Len(log[s]) : log'[s][i] = log[s][i]
          BY <1>1, <3>2 DEF TypeOK, DataStays
        <4>2. stored[s] <= Len(log[s]) /\ \A i \in DOMAIN log[s] : ShardOf[log[s][i]] = s
          BY <1>1 DEF LogInv
        <4>3. \A i \in DOMAIN log'[s] : ShardOf[log'[s][i]] = s
          <5> SUFFICES ASSUME NEW i \in DOMAIN log'[s] PROVE ShardOf[log'[s][i]] = s
            OBVIOUS
          <5>1. CASE i \in DOMAIN log[s]
            <6>1. i \in 1..Len(log[s])
              BY <4>1, <5>1
            <6> QED BY <4>1, <4>2, <5>1, <6>1
          <5>2. CASE i \notin DOMAIN log[s]
            BY <3>2, <5>2
          <5> QED BY <5>1, <5>2
        <4>4. stored[s] <= Len(log'[s])
          BY <4>1, <4>2
        <4> QED BY <4>3, <4>4
      <3> QED BY <1>2, <3>2, <3>3 DEF LogInv
    <2>2. CASE log' = log
      <3>1. log' \in [Shard -> Seq(Event)] /\ LogInv'
        BY <1>1, <1>2, <2>2 DEF LogInv, TypeOK
      <3> QED BY <1>1, <1>2, <2>2, <3>1, DataSame
    <2> QED BY <2>1, <2>2 DEF Start, vars, brokerVars
  <1>4. TypeOK'
    BY <1>1, <1>2, <1>3 DEF TypeOK, workerVars
  <1>5. StoredIsSaved'
    <2> SUFFICES ASSUME returns = 0, NEW s \in Shard PROVE SavedUpTo(s, stored[s])'
      BY <1>2 DEF StoredIsSaved
    <2>1. SavedUpTo(s, stored[s]) /\ stored[s] \in Int /\ stored'[s] = stored[s]
      BY <1>1, <1>2 DEF StoredIsSaved, TypeOK
    <2> QED BY <1>1, <1>2, <1>3, <2>1, SavedStays DEF SavedUpTo
  <1>6. ASSUME NEW v \in Worker PROVE WorkerInv(v)'
    <2>1. WorkerSame(v)
      BY <1>2 DEF workerVars, WorkerSame
    <2> QED BY <1>1, <1>2, <1>3, <2>1, WorkerKept
  <1> QED BY <1>3, <1>4, <1>5, <1>6
          DEF SuperStreamInv, WorkerInv, ShardInv, Sessions, SessionsFollowTasks

-----------------------------------------------------------------------------
(* The invariant.                                                          *)

LEMMA InitInv ==
    ASSUME ConstantsAssumption, Init
    PROVE  SuperStreamInv
  <1> USE DEF Init
  <1>1. /\ Idle \in [pc : {"idle", "restoring", "restored", "releasing"},
                     shard : Shard \cup {NoShard}, snapshot : SUBSET Event]
        /\ NoTask \in TaskState
    BY DEF Idle, NoTask, TaskState
  <1>2. TypeOK
    BY <1>1 DEF TypeOK, TaskState
  <1>3. LogInv /\ StoredIsSaved
    BY DEF LogInv, StoredIsSaved, SavedUpTo
  <1>4. ASSUME NEW w \in Worker PROVE RuntimeInv(w) /\ ConsumerInv(w) /\ Sessions(w)
    BY DEF RuntimeInv, ConsumerInv, Sessions, Acquiring, Idle
  <1>5. ASSUME NEW w \in Worker, NEW s \in Shard
        PROVE  ShardInv(w, s) /\ PreparedInv(w, s)
    <2>1. ~HasTask(w, s) /\ ~Busy(w, s) /\ ~Held(w, s) /\ active[s] # w /\ NoShard # s
      BY DEF HasTask, Busy, Held, Acquiring, NoTask, Idle, ConstantsAssumption
    <2>2. OffsetInv(w, s) /\ TurnInv(w, s) /\ StreamInv(w, s) /\ PreparedInv(w, s)
      BY <2>1 DEF OffsetInv, TurnInv, StreamInv, PreparedInv, Idle, NoTask, NoOffset
    <2>3. MailboxInv(w, s)
      <3>1. Len(mailbox[w]) = 0
        OBVIOUS
      <3>2. ASSUME NEW i \in 0..1, NEW j \in 0..1, i < j PROVE After(w, s, i) <=> Before(w, s, j)
        <4>1. i = 0 /\ j = 1
          BY <3>2
        <4> QED BY <2>1, <3>1, <4>1 DEF After, Before
      <3> QED BY <3>1, <3>2 DEF MailboxInv, Successive
    <2> QED BY <2>2, <2>3 DEF ShardInv
  <1> QED BY <1>2, <1>3, <1>4, <1>5, InvariantByWorkers DEF WorkerInv

LEMMA StepInv ==
    ASSUME ConstantsAssumption, SuperStreamInv, [Next]_vars
    PROVE  SuperStreamInv'
  <1>1. ASSUME NEW w \in Worker, NEW s \in Shard,
               ShardStep(w, s) \/ OnActive(w, s) \/ OnInactive(w, s)
        PROVE  SuperStreamInv'
    BY <1>1, ShardStepInv, ListenerInv
  <1>2. ASSUME NEW w \in Worker, RuntimeStep(w) \/ ProcessEnds(w)
        PROVE  SuperStreamInv'
    BY <1>2, RuntimeStepInv
  <1>3. ASSUME (\E e \in Event : Publish(e)) \/ (\E w \in Worker : Start(w)) \/ UNCHANGED vars
        PROVE  SuperStreamInv'
    BY <1>3, OutsideInv
  <1> QED BY <1>1, <1>2, <1>3 DEF Next

\* The inductive invariant: the types, the alternation of changes in each
\* mailbox, the stretch of the log between a delivery in hand and the position,
\* and what of it all holds as long as no partition comes back or is taken from
\* a live consumer (listener, subscriber, runtime and sessions together).
THEOREM SuperStreamCorrect == Spec => []SuperStreamInv
  <1>1. Init => SuperStreamInv
    BY ConstantsAssumption, InitInv
  <1>2. SuperStreamInv /\ [Next]_vars => SuperStreamInv'
    BY ConstantsAssumption, StepInv
  <1> QED BY <1>1, <1>2, PTL DEF Spec

\* The types of the objects the variables stand for.
THEOREM SuperStreamTypes == Spec => []TypeOK
  <1>1. SuperStreamInv => TypeOK
    BY DEF SuperStreamInv
  <1> QED BY <1>1, SuperStreamCorrect, PTL

\* At least once: ack() comes after the use case, so what lies behind a stored
\* offset has its session in PostgreSQL, even when an old owner stores late,
\* as long as no process gets a partition back.
THEOREM SuperStreamAtLeastOnce == Spec => []StoredIsSaved
  <1>1. SuperStreamInv => StoredIsSaved
    BY DEF SuperStreamInv
  <1> QED BY <1>1, SuperStreamCorrect, PTL

\* The runtime holds sessions of shards with a task only, or of the one it is
\* just releasing.
THEOREM SuperStreamSessions == Spec => []SessionsFollowTasks
  <1>1. SuperStreamInv => SessionsFollowTasks
    BY DEF SuperStreamInv
  <1> QED BY <1>1, SuperStreamCorrect, PTL

\* "Shard already acquired" is never raised, and nothing is released twice, in
\* whatever order the listener of the broker's connection fills the mailbox.
THEOREM SuperStreamAlternates == Spec => []NeverAcquiredTwice
  <1>1. SuperStreamInv => NeverAcquiredTwice
    BY HeadFits DEF SuperStreamInv, NeverAcquiredTwice
  <1> QED BY <1>1, SuperStreamCorrect, PTL

\* The active consumer with a task and nothing to do for the runtime has the
\* session of every record that it will not be given any more, as long as
\* partitions change hands by the death of their owners only.
THEOREM SuperStreamPrepared == Spec => []OwnerIsPrepared
  <1>1. ASSUME SuperStreamInv PROVE OwnerIsPrepared
    <2> SUFFICES ASSUME demotions = 0, NEW w \in Worker, NEW s \in Shard, active[s] = w,
                        position[w][s] # NoOffset, HasTask(w, s),
                        NEW i \in 1..Len(log[s]), i \notin ToCome(w, s)
                 PROVE  log[s][i] \in registry[w]
      BY DEF OwnerIsPrepared
    <2> DEFINE q == queue[w][s]
               p == position[w][s]
               o == task[w][s].offset
    <2>1. /\ TypeOK /\ LogInv /\ OffsetInv(w, s) /\ StreamInv(w, s) /\ PreparedInv(w, s)
          /\ returns = 0
      BY <1>1 DEF SuperStreamInv, ConsumerInv
    <2>2. /\ log[s] \in Seq(Event) /\ q \in Seq(Nat) /\ p \in Nat /\ o \in Nat
      BY <2>1 DEF TypeOK
    <2>3. /\ ~(i \in p + 1 .. Len(log[s])) /\ o # i
          /\ \A j \in DOMAIN q : q[j] # i
      BY DEF ToCome
    <2>4. i <= p
      BY <2>2, <2>3
    <2>5. q # <<>> => i \in 1..q[1] - 1
      <3> SUFFICES ASSUME q # <<>> PROVE i \in 1..q[1] - 1
        OBVIOUS
      <3>1. /\ \A j \in DOMAIN q : q[j] = q[1] + j - 1
            /\ p = q[1] + Len(q) - 1
        BY <2>1 DEF StreamInv
      <3>2. i \in Nat \ {0} /\ i <= q[1] + Len(q) - 1
        BY <2>2, <2>4, <3>1
      <3> HIDE DEF q, p
      <3> QED BY <2>2, <2>3, <3>1, <3>2, StretchPassed
    <2>6. ShardOf[log[s][i]] = s /\ log[s][i] \in Event
      BY <2>1, <2>2 DEF LogInv
    <2>7. CASE Busy(w, s)
      <3>1. i <= o
        <4>1. q # <<>> => q[1] = o + 1
          BY <2>1, <2>7 DEF StreamInv
        <4>2. q = <<>> => p = o
          BY <2>1, <2>7 DEF StreamInv
        <4>3. CASE q = <<>>
          BY <2>4, <4>2, <4>3
        <4>4. CASE q # <<>>
          <5>1. q[1] = o + 1 /\ i \in 1..q[1] - 1
            BY <2>5, <4>1, <4>4
          <5> HIDE DEF q, p, o
          <5> QED BY <2>2, <5>1
        <4> HIDE DEF q, p, o
        <4> QED BY <4>3, <4>4
      <3>2. i \in 1..o - 1
        BY <2>2, <2>3, <3>1
      <3>3. log[s][i] \in saved
        BY <2>1, <2>7, <3>2 DEF StreamInv, SavedUpTo
      <3>4. CASE task[w][s].pc = "saved"
        BY <2>1, <3>2, <3>4 DEF PreparedInv
      <3> QED BY <2>1, <2>6, <3>3, <3>4 DEF PreparedInv, SessionsOf
    <2>8. CASE ~Busy(w, s)
      <3>1. log[s][i] \in saved
        BY <2>1, <2>4, <2>5, <2>8 DEF StreamInv, SavedUpTo, Ahead
      <3>2. task[w][s].pc # "saved"
        BY <2>8 DEF Busy
      <3> QED BY <2>1, <2>6, <3>1, <3>2 DEF PreparedInv, SessionsOf
    <2> QED BY <2>7, <2>8
  <1>2. SuperStreamInv => OwnerIsPrepared
    BY <1>1
  <1> QED BY <1>2, SuperStreamCorrect, PTL
=============================================================================

------------------------- MODULE QuorumWorker_proofs -------------------------
(* Proofs about QuorumWorker, and about the ShardLease it is built on.     *)
EXTENDS QuorumWorker, FiniteSetTheorems, TLAPS

-----------------------------------------------------------------------------
(* Type correctness.                                                       *)

\* Every step keeps LeaseTypeOK.
LEMMA LeaseTypes ==
    ASSUME LeaseAssumption, LeaseTypeOK, [LeaseNext]_leaseVars
    PROVE  LeaseTypeOK'
  <1> USE DEF LeaseTypeOK
  <1>1. ASSUME NEW w \in Worker, RenewOwned(w) PROVE LeaseTypeOK'
    BY <1>1 DEF RenewOwned
  <1>2. ASSUME NEW w \in Worker, YieldReleased(w) PROVE LeaseTypeOK'
    BY <1>2 DEF YieldReleased, tableVars, Change
  <1>3. ASSUME NEW w \in Worker, ClaimAvailable(w) PROVE LeaseTypeOK'
    BY <1>3 DEF ClaimAvailable, Claimable, LeaseAssumption
  <1>4. ASSUME NEW w \in Worker, EndLoop(w) PROVE LeaseTypeOK'
    BY <1>4 DEF EndLoop, tableVars
  <1>5. ASSUME NEW w \in Worker, YieldAcquired(w) PROVE LeaseTypeOK'
    BY <1>4, <1>5 DEF YieldAcquired, tableVars, Change
  <1>6. ASSUME NEW w \in Worker, Sleep(w) PROVE LeaseTypeOK'
    BY <1>6 DEF Sleep, tableVars
  <1>7. ASSUME NEW w \in Worker, ChangeDone(w) \/ StartLoop(w) PROVE LeaseTypeOK'
    BY <1>7 DEF ChangeDone, StartLoop, tableVars
  <1>8. ASSUME NEW s \in Shard, LapseUnheld(s) \/ LapseHeld(s) PROVE LeaseTypeOK'
    BY <1>8, LeaseAssumption DEF LapseUnheld, LapseHeld, loopVars
  <1>9. CASE UNCHANGED leaseVars
    BY <1>9 DEF leaseVars, tableVars, loopVars
  <1> QED
    BY <1>1, <1>2, <1>3, <1>4, <1>5, <1>6, <1>7, <1>8, <1>9 DEF LeaseNext, LoopStep

-----------------------------------------------------------------------------
(* The memory of a process that is off, and the owners of expired rows.    *)

\* Every step keeps LoopInv.
LEMMA LoopInvKept ==
    ASSUME LeaseAssumption, LeaseTypeOK, LoopInv, [LeaseNext]_leaseVars
    PROVE  LoopInv'
  <1> USE DEF LoopInv, Up, LeaseTypeOK
  <1>1. ASSUME NEW w \in Worker, RenewOwned(w) PROVE LoopInv'
    BY <1>1 DEF RenewOwned
  <1>2. ASSUME NEW w \in Worker, YieldReleased(w) PROVE LoopInv'
    BY <1>2 DEF YieldReleased, tableVars
  <1>3. ASSUME NEW w \in Worker, ClaimAvailable(w) PROVE LoopInv'
    BY <1>3 DEF ClaimAvailable, LeaseAssumption
  <1>4. ASSUME NEW w \in Worker, EndLoop(w) PROVE LoopInv'
    BY <1>4 DEF EndLoop, tableVars
  <1>5. ASSUME NEW w \in Worker, YieldAcquired(w) PROVE LoopInv'
    BY <1>4, <1>5 DEF YieldAcquired, tableVars
  <1>6. ASSUME NEW w \in Worker, Sleep(w) PROVE LoopInv'
    BY <1>6 DEF Sleep, tableVars
  <1>7. ASSUME NEW w \in Worker, ChangeDone(w) \/ StartLoop(w) PROVE LoopInv'
    BY <1>7 DEF ChangeDone, StartLoop, tableVars
  <1>8. ASSUME NEW s \in Shard, LapseUnheld(s) \/ LapseHeld(s) PROVE LoopInv'
    BY <1>8 DEF LapseUnheld, LapseHeld, loopVars
  <1>9. CASE UNCHANGED leaseVars
    BY <1>9 DEF leaseVars, tableVars, loopVars
  <1> QED
    BY <1>1, <1>2, <1>3, <1>4, <1>5, <1>6, <1>7, <1>8, <1>9 DEF LeaseNext, LoopStep

-----------------------------------------------------------------------------
(* Holders have leases.                                                    *)

\* What one worker may hold, and be told to release, as long as nothing lapses.
HolderHasLeases(w) ==
    /\ \A s \in Shard : Holds(w, s) => owner[s] = w /\ s \notin expired
    /\ loop[w] = "losing" => todo[w] = {}
    /\ \A s \in Shard : change[w] # Released(s)

\* A worker other than the one that steps keeps what it has, unless a row of
\* it changes.
LEMMA OthersKeepLeases ==
    ASSUME NEW v \in Worker, HolderHasLeases(v),
           loop'[v] = loop[v], owned'[v] = owned[v], todo'[v] = todo[v],
           change'[v] = change[v],
           \A s \in Shard : owner[s] = v /\ s \notin expired =>
               owner'[s] = v /\ s \notin expired'
    PROVE  HolderHasLeases(v)'
  BY DEF HolderHasLeases, Holds

\* A step of the loop of w keeps the leases of all holders.
LEMMA LoopKeepsLeases ==
    ASSUME LeaseAssumption, LeaseTypeOK, LoopInv,
           \A v \in Worker : HolderHasLeases(v),
           NEW w \in Worker,
           LoopStep(w) \/ ChangeDone(w) \/ StartLoop(w) \/ EndLoop(w),
           NEW v \in Worker
    PROVE  HolderHasLeases(v)'
  <1> USE DEF LeaseTypeOK
  <1>a. /\ v # w => loop'[v] = loop[v] /\ owned'[v] = owned[v]
        /\ v # w => todo'[v] = todo[v] /\ change'[v] = change[v]
    BY DEF LoopStep, RenewOwned, YieldReleased, ClaimAvailable, YieldAcquired,
           Sleep, ChangeDone, StartLoop, EndLoop
  <1>b. \A s \in Shard : change[w] # Released(s)
    BY DEF HolderHasLeases
  <1>c. \A s, t \in Shard : Acquired(s) # Released(t) /\ NoChange # Released(t)
    BY DEF Acquired, Released, NoChange
  <1>1. CASE RenewOwned(w)
    <2>1. \A s \in owned[w] : owner[s] = w
      BY DEF HolderHasLeases, Holds
    <2>2. todo'[w] = {} /\ owned' = owned /\ owner' = owner /\ change' = change
      BY <1>1, <2>1 DEF RenewOwned
    <2>3. expired' \subseteq expired /\ loop'[w] = "losing"
      BY <1>1 DEF RenewOwned
    <2>4. CASE v = w
      BY <2>2, <2>3, <2>4 DEF HolderHasLeases, Holds
    <2> QED BY <1>a, <2>2, <2>3, <2>4, OthersKeepLeases
  <1>2. CASE YieldReleased(w)
    BY <1>2 DEF YieldReleased, HolderHasLeases
  <1>3. CASE ClaimAvailable(w)
    <2>1. PICK rows \in SUBSET Claimable :
              /\ owner' = [s \in Shard |-> IF s \in rows THEN w ELSE owner[s]]
              /\ expired' = expired \ rows
              /\ todo' = [todo EXCEPT ![w] = rows]
      BY <1>3 DEF ClaimAvailable
    <2>2. /\ loop[w] = "losing" /\ loop'[w] = "gaining"
          /\ owned' = owned /\ change' = change
      BY <1>3 DEF ClaimAvailable
    <2>3. CASE v = w
      BY <2>1, <2>2, <2>3 DEF HolderHasLeases, Holds
    <2>4. ASSUME v # w, NEW s \in Shard, owner[s] = v, s \notin expired
          PROVE  owner'[s] = v /\ s \notin expired'
      <3>1. s \notin Claimable
        BY <2>4, LeaseAssumption DEF Claimable, LeaseAssumption
      <3> QED BY <2>1, <2>4, <3>1
    <2> QED BY <1>a, <2>3, <2>4, OthersKeepLeases
  <1>4. CASE EndLoop(w)
    <2>1. /\ owned'[w] = {} /\ todo'[w] = {} /\ change'[w] = NoChange
          /\ loop'[w] = "off" /\ UNCHANGED tableVars
      BY <1>4 DEF EndLoop
    <2>2. CASE v = w
      BY <1>c, <2>1, <2>2 DEF HolderHasLeases, Holds
    <2> QED BY <1>a, <2>1, <2>2, OthersKeepLeases DEF tableVars
  <1>5. CASE YieldAcquired(w)
    <2>1. PICK s \in todo[w] :
              IF s \in owned[w] THEN EndLoop(w)
              ELSE /\ owned' = [owned EXCEPT ![w] = @ \cup {s}]
                   /\ todo' = [todo EXCEPT ![w] = @ \ {s}]
                   /\ change' = [change EXCEPT ![w] = Acquired(s)]
                   /\ UNCHANGED <<tableVars, loop, lapses, skips>>
      BY <1>5 DEF YieldAcquired
    <2>2. CASE s \in owned[w]
      BY <1>4, <2>1, <2>2
    <2>3. CASE s \notin owned[w]
      <3>1. /\ owned'[w] = owned[w] \cup {s} /\ todo'[w] = todo[w] \ {s}
            /\ change'[w] = Acquired(s) /\ loop' = loop /\ UNCHANGED tableVars
        BY <2>1, <2>3
      <3>2. loop[w] = "gaining"
        BY <1>5 DEF YieldAcquired
      <3>3. CASE v = w
        BY <1>c, <3>1, <3>2, <3>3 DEF HolderHasLeases, Holds, tableVars
      <3> QED BY <1>a, <3>1, <3>3, OthersKeepLeases DEF tableVars
    <2> QED BY <2>2, <2>3
  <1>6. CASE Sleep(w)
    <2>1. /\ loop'[w] = "renewing"
          /\ UNCHANGED <<tableVars, owned, todo, change>>
      BY <1>6 DEF Sleep
    <2>2. CASE v = w
      BY <2>1, <2>2 DEF HolderHasLeases, Holds, tableVars
    <2> QED BY <1>a, <2>1, <2>2, OthersKeepLeases DEF tableVars
  <1>7. CASE ChangeDone(w)
    <2>1. change'[w] = NoChange /\ UNCHANGED <<tableVars, loop, owned, todo>>
      BY <1>7 DEF ChangeDone
    <2>2. CASE v = w
      BY <1>c, <2>1, <2>2 DEF HolderHasLeases, Holds, tableVars
    <2> QED BY <1>a, <2>1, <2>2, OthersKeepLeases DEF tableVars
  <1>8. CASE StartLoop(w)
    <2>1. /\ loop'[w] = "renewing" /\ loop[w] = "off"
          /\ UNCHANGED <<tableVars, owned, todo, change>>
      BY <1>8 DEF StartLoop
    <2>2. CASE v = w
      BY <2>1, <2>2 DEF HolderHasLeases, Holds, tableVars
    <2> QED BY <1>a, <2>1, <2>2, OthersKeepLeases DEF tableVars
  <1> QED
    BY <1>1, <1>2, <1>3, <1>4, <1>5, <1>6, <1>7, <1>8 DEF LoopStep

\* Every step keeps HoldersHaveLeases.
LEMMA LeasesKept ==
    ASSUME LeaseAssumption, LeaseTypeOK, LoopInv, HoldersHaveLeases,
           [LeaseNext]_leaseVars
    PROVE  HoldersHaveLeases'
  <1> SUFFICES ASSUME lapses' = 0, NEW v \in Worker PROVE HolderHasLeases(v)'
    BY DEF HoldersHaveLeases, HolderHasLeases
  <1>1. CASE \E w \in Worker : LoopStep(w) \/ ChangeDone(w) \/ StartLoop(w) \/ EndLoop(w)
    <2>1. lapses = 0
      BY <1>1 DEF LoopStep, RenewOwned, YieldReleased, ClaimAvailable, YieldAcquired,
                  Sleep, ChangeDone, StartLoop, EndLoop
    <2>2. \A u \in Worker : HolderHasLeases(u)
      BY <2>1 DEF HoldersHaveLeases, HolderHasLeases
    <2> QED BY <1>1, <2>2, LoopKeepsLeases
  <1>2. ASSUME NEW s \in Shard, LapseUnheld(s) PROVE HolderHasLeases(v)'
    <2>1. HolderHasLeases(v)
      BY <1>2 DEF LapseUnheld, HoldersHaveLeases, HolderHasLeases
    <2>2. ~Holds(v, s)
      BY <1>2, <2>1 DEF LapseUnheld, HolderHasLeases
    <2> QED BY <1>2, <2>1, <2>2 DEF LapseUnheld, HolderHasLeases, Holds, loopVars
  <1>3. ASSUME NEW s \in Shard, LapseHeld(s) PROVE HolderHasLeases(v)'
    BY <1>3 DEF LapseHeld, LeaseTypeOK
  <1>4. CASE UNCHANGED leaseVars
    BY <1>4 DEF leaseVars, tableVars, loopVars, HoldersHaveLeases, HolderHasLeases, Holds
  <1> QED BY <1>1, <1>2, <1>3, <1>4 DEF LeaseNext

-----------------------------------------------------------------------------
(* Capacity.                                                               *)

\* A set that does not grow stays within the capacity.
LEMMA SubsetFits ==
    ASSUME LeaseAssumption, NEW S \in SUBSET Shard, NEW T \in SUBSET S,
           Cardinality(S) <= MaxShards
    PROVE  Cardinality(T) <= MaxShards
  <1>1. IsFiniteSet(S)
    BY FS_Subset DEF LeaseAssumption
  <1>2. IsFiniteSet(T) /\ Cardinality(T) <= Cardinality(S)
    BY <1>1, FS_Subset
  <1>3. Cardinality(S) \in Nat /\ Cardinality(T) \in Nat
    BY <1>1, <1>2, FS_CardinalityType
  <1> QED BY <1>2, <1>3 DEF LeaseAssumption

\* A claim of at most Capacity(w) rows fits.
LEMMA ClaimFits ==
    ASSUME LeaseAssumption, LeaseTypeOK, NEW w \in Worker,
           NEW rows \in SUBSET Shard, Cardinality(rows) <= Capacity(w)
    PROVE  Cardinality(owned[w] \cup rows) <= MaxShards
  <1>1. owned[w] \in SUBSET Shard
    BY DEF LeaseTypeOK
  <1>2. IsFiniteSet(owned[w]) /\ IsFiniteSet(rows)
    BY <1>1, FS_Subset DEF LeaseAssumption
  <1>3. Cardinality(owned[w] \cup rows)
            = Cardinality(owned[w]) + Cardinality(rows)
              - Cardinality(owned[w] \cap rows)
    BY <1>2, FS_Union
  <1>4. IsFiniteSet(owned[w] \cap rows)
    BY <1>2, FS_Intersection
  <1>5. /\ Cardinality(owned[w]) \in Nat /\ Cardinality(rows) \in Nat
        /\ Cardinality(owned[w] \cap rows) \in Nat
    BY <1>2, <1>4, FS_CardinalityType
  <1> QED BY <1>3, <1>5 DEF Capacity, LeaseAssumption

HeldBy(w) == {s \in Shard : Holds(w, s)}

\* Every step keeps CapacityIsRespected: what a worker holds grows only by a
\* claim, and a claim fits.
LEMMA CapacityKept ==
    ASSUME LeaseAssumption, LeaseTypeOK, CapacityIsRespected, [LeaseNext]_leaseVars
    PROVE  CapacityIsRespected'
  <1> USE DEF LeaseTypeOK
  <1> SUFFICES ASSUME NEW v \in Worker PROVE Cardinality(HeldBy(v)') <= MaxShards
    BY DEF CapacityIsRespected, HeldBy
  <1>0. HeldBy(v) \in SUBSET Shard /\ Cardinality(HeldBy(v)) <= MaxShards
    BY DEF CapacityIsRespected, HeldBy
  <1>1. CASE HeldBy(v)' \subseteq HeldBy(v)
    BY <1>0, <1>1, SubsetFits
  <1>2. ASSUME NEW w \in Worker, EndLoop(w) PROVE HeldBy(v)' \subseteq HeldBy(v)
    BY <1>2 DEF EndLoop, HeldBy, Holds
  <1>3. ASSUME NEW w \in Worker,
               \/ RenewOwned(w) \/ YieldReleased(w) \/ YieldAcquired(w) \/ Sleep(w)
               \/ ChangeDone(w) \/ StartLoop(w)
        PROVE  HeldBy(v)' \subseteq HeldBy(v)
    <2>1. CASE YieldAcquired(w)
      BY <1>2, <2>1 DEF YieldAcquired, HeldBy, Holds
    <2>2. CASE ~YieldAcquired(w)
      BY <1>3, <2>2 DEF RenewOwned, YieldReleased, Sleep, ChangeDone, StartLoop,
                        HeldBy, Holds
    <2> QED BY <2>1, <2>2
  <1>4. ASSUME NEW w \in Worker, ClaimAvailable(w), v # w
        PROVE  HeldBy(v)' \subseteq HeldBy(v)
    BY <1>4 DEF ClaimAvailable, HeldBy, Holds
  <1>5. ASSUME ClaimAvailable(v) PROVE Cardinality(HeldBy(v)') <= MaxShards
    <2>1. PICK rows \in SUBSET Claimable :
              Cardinality(rows) <= Capacity(v) /\ todo' = [todo EXCEPT ![v] = rows]
      BY <1>5 DEF ClaimAvailable
    <2>2. rows \in SUBSET Shard
      BY <2>1 DEF Claimable
    <2>3. HeldBy(v)' = owned[v] \cup rows
      BY <1>5, <2>1, <2>2 DEF ClaimAvailable, HeldBy, Holds
    <2> QED BY <2>1, <2>2, <2>3, ClaimFits
  <1>6. ASSUME NEW s \in Shard, LapseUnheld(s) \/ LapseHeld(s)
        PROVE  HeldBy(v)' \subseteq HeldBy(v)
    BY <1>6 DEF LapseUnheld, LapseHeld, loopVars, HeldBy, Holds
  <1>7. CASE UNCHANGED leaseVars
    BY <1>0, <1>7 DEF leaseVars, loopVars, HeldBy, Holds
  <1> QED
    BY <1>1, <1>2, <1>3, <1>4, <1>5, <1>6, <1>7 DEF LeaseNext, LoopStep

-----------------------------------------------------------------------------
(* The leases: theorems.                                                   *)

\* The initial state has the inductive invariant.
LEMMA LeaseInitInv ==
    ASSUME LeaseAssumption, LeaseInit
    PROVE  LeaseInv
  <1>1. LeaseTypeOK /\ LoopInv
    BY DEF LeaseInit, LeaseTypeOK, LoopInv, Up
  <1>2. \A w \in Worker, s \in Shard : ~Holds(w, s) /\ change[w] # Released(s)
    BY DEF LeaseInit, Holds, Released, NoChange
  <1>3. HoldersHaveLeases
    BY <1>2 DEF LeaseInit, HoldersHaveLeases
  <1>4. ASSUME NEW w \in Worker PROVE Cardinality({s \in Shard : Holds(w, s)}) <= MaxShards
    <2>1. {s \in Shard : Holds(w, s)} = {}
      BY <1>2
    <2> QED BY <2>1, FS_EmptySet DEF LeaseAssumption
  <1> QED BY <1>1, <1>3, <1>4 DEF LeaseInv, CapacityIsRespected

\* Every step keeps the inductive invariant.
LEMMA LeaseStepInv ==
    ASSUME LeaseAssumption, LeaseInv, [LeaseNext]_leaseVars
    PROVE  LeaseInv'
  BY LeaseTypes, LoopInvKept, LeasesKept, CapacityKept DEF LeaseInv

\* The invariant of the lease table and of every changes() loop
\* (postgres_pricing_shared_ownership.py), for any number of workers and
\* shards: types, capacity, and that holders have leases until one lapses.
THEOREM LeaseCorrect == LeaseSpec => []LeaseInv
  <1>1. LeaseInit => LeaseInv
    BY LeaseAssumption, LeaseInitInv
  <1>2. LeaseInv /\ [LeaseNext]_leaseVars => LeaseInv'
    BY LeaseAssumption, LeaseStepInv
  <1> QED BY <1>1, <1>2, PTL DEF LeaseSpec

\* The renewal, the reports and the claim keep a shard with one process, and
\* nobody releases what another holds, as long as no lease lapses under its
\* holder (_renew_owned, _claim_available).
THEOREM LeaseExclusive == LeaseSpec => []LeaseIsExclusive
  <1>1. LeaseInv => LeaseIsExclusive
    BY DEF LeaseInv, HoldersHaveLeases, LeaseIsExclusive
  <1> QED BY <1>1, LeaseCorrect, PTL

\* No interleaving of renewals, reports, skipped rows and restarts lets a
\* process hold more than max_shards_per_worker shards, lapses or not.
THEOREM LeaseCapacity == LeaseSpec => []CapacityIsRespected
  <1>1. LeaseInv => CapacityIsRespected
    BY DEF LeaseInv
  <1> QED BY <1>1, LeaseCorrect, PTL

-----------------------------------------------------------------------------
(* The shard leases that the workers run on.                               *)

\* Every step of the workers is a step of the leases, or leaves them alone.
LEMMA StepIsLeaseStep ==
    ASSUME [Next]_vars
    PROVE  [LeaseNext]_leaseVars
  <1>1. ASSUME NEW w \in Worker, NEW s \in Shard, ShardStep(w, s)
        PROVE  UNCHANGED leaseVars \/ ChangeDone(w) \/ EndLoop(w)
    BY <1>1 DEF ShardStep, ReadSessions, FinishAcquire, CancelTask, TaskStopsInIterator,
                TaskStopsInBody, GeneratorCloses, FinishRelease, Consume, Deliver,
                TakeMessage, DeserializeFails, SaveSession, Activate, AckArrives,
                AckReturns, ProcessEnds
  <1>2. ASSUME NEW w \in Worker, WorkerStep(w) \/ Start(w) \/ ProcessEnds(w)
        PROVE  UNCHANGED leaseVars \/ LeaseNext
    BY <1>1, <1>2 DEF WorkerStep, Start, ProcessEnds, Lease, ConnectionCloses, LeaseNext
  <1> QED BY <1>2 DEF Next, Lapse, Publish, LeaseNext, vars

-----------------------------------------------------------------------------
(* Functions of workers and shards.                                        *)

\* One entry of a table is set.
LEMMA EntrySet ==
    ASSUME NEW V, NEW f \in [Worker -> [Shard -> V]],
           NEW w \in Worker, NEW s \in Shard, NEW x \in V
    PROVE  /\ [f EXCEPT ![w][s] = x] \in [Worker -> [Shard -> V]]
           /\ [f EXCEPT ![w][s] = x][w][s] = x
           /\ \A v \in Worker, t \in Shard :
                  v # w \/ t # s => [f EXCEPT ![w][s] = x][v][t] = f[v][t]
  OBVIOUS

TaskState == [pc : TaskPc, event : Event \cup {NoEvent}]
Tables == [Worker -> [Shard -> TaskState]]

\* What a step of one task does to the tasks.
TaskBecomes(w, s, x) ==
    /\ task'[w][s] = x
    /\ \A v \in Worker, t \in Shard : v # w \/ t # s => task'[v][t] = task[v][t]

\* A task gets a new state.
LEMMA TaskSet ==
    ASSUME QuorumTypeOK, NEW w \in Worker, NEW s \in Shard, NEW x \in TaskState,
           task' = [task EXCEPT ![w][s] = x]
    PROVE  task' \in Tables /\ TaskBecomes(w, s, x)
  <1>1. task \in [Worker -> [Shard -> TaskState]]
    BY DEF QuorumTypeOK, TaskState
  <1> QED BY <1>1, EntrySet DEF TaskBecomes, Tables

\* A task goes on.
LEMMA TaskAdvances ==
    ASSUME QuorumTypeOK, NEW w \in Worker, NEW s \in Shard, NEW q \in TaskPc,
           task' = [task EXCEPT ![w][s].pc = q]
    PROVE  task' \in Tables /\ TaskBecomes(w, s, [pc |-> q, event |-> task[w][s].event])
  <1>1. task[w][s] \in TaskState
    BY DEF QuorumTypeOK, TaskState
  <1>2. [task[w][s] EXCEPT !.pc = q] = [pc |-> q, event |-> task[w][s].event]
    BY <1>1 DEF TaskState
  <1>3. task' = [task EXCEPT ![w][s] = [task[w][s] EXCEPT !.pc = q]]
    BY DEF QuorumTypeOK
  <1>4. [pc |-> q, event |-> task[w][s].event] \in TaskState
    BY <1>1 DEF TaskState
  <1> QED BY <1>2, <1>3, <1>4, TaskSet

-----------------------------------------------------------------------------
(* One worker.                                                             *)

\* The invariant of one shard of one worker, and of one worker.
ShardInv(w, s) ==
    /\ HasTask(w, s) => s \in owned[w] \/ change[w] = Released(s)
    /\ buffer[w][s] \in SessionsOf(s) \cup {NoEvent}
    /\ task[w][s].event \in SessionsOf(s) \cup {NoEvent}
    /\ Handling(w, s) => task[w][s].event # NoEvent
    /\ task[w][s].pc \in {"saved", "acking"} => task[w][s].event \in saved
    /\ ~Handling(w, s) /\ task[w][s].pc # "closing" => task[w][s].event = NoEvent
Changes(w) ==
    /\ phase[w] # "idle" => change[w] # NoChange
    /\ phase[w] # "restored" => snapshot[w] = {}
    /\ \A s \in Shard : change[w] = Acquired(s) =>
           s \in owned[w] /\ (phase[w] = "restored" => task[w][s] = NoTask)
Follows(w) ==
    \A e \in registry[w] \cup snapshot[w] :
        ShardOf[e] \in owned[w] \/ change[w] = Released(ShardOf[e])
Own(w) == Changes(w) /\ Follows(w) /\ \A s \in Shard : ShardInv(w, s)
QueuesInv == \A s \in Shard : ready[s] \subseteq SessionsOf(s)

LEMMA OwnSplit ==
    ChangeInv /\ TaskInv /\ SessionsFollowShards <=>
        QueuesInv /\ \A w \in Worker : Own(w)
  BY DEF ChangeInv, TaskInv, SessionsFollowShards, QueuesInv, Own, Changes, Follows,
         ShardInv

\* What a worker remembers, but for its leases.
Memory(w) == <<task[w], buffer[w], phase[w], snapshot[w], registry[w]>>

\* A worker that does not step keeps its invariant.
LEMMA OthersKeepOwn ==
    ASSUME NEW v \in Worker, Own(v), UNCHANGED Memory(v),
           owned'[v] = owned[v], change'[v] = change[v], saved \subseteq saved'
    PROVE  Own(v)'
  BY DEF Own, Changes, Follows, ShardInv, HasTask, Handling, Memory

\* A step of one task, of a shard that the worker has or gives up, keeps the
\* invariant of the other shards.
LEMMA OtherShardsKept ==
    ASSUME NEW w \in Worker, NEW s \in Shard, Own(w),
           \A t \in Shard \ {s} : task'[w][t] = task[w][t] /\ buffer'[w][t] = buffer[w][t],
           owned'[w] = owned[w], saved \subseteq saved',
           change'[w] \in {change[w], NoChange},
           \A t \in Shard \ {s} : change[w] # Released(t) \/ change'[w] = change[w],
           NEW t \in Shard, t # s
    PROVE  ShardInv(w, t)'
  BY DEF Own, ShardInv, HasTask, Handling

\* The changes are different from each other.
LEMMA ChangesDiffer ==
    \A s, t : /\ Acquired(s) # NoChange /\ Released(s) # NoChange
              /\ Acquired(s) # Released(t)
              /\ (Acquired(s) = Acquired(t) => s = t)
              /\ (Released(s) = Released(t) => s = t)
  BY DEF Acquired, Released, NoChange

\* A process that has forgotten everything keeps the invariant.
LEMMA ForgottenIsOwn ==
    ASSUME LeaseTypeOK, QuorumTypeOK, NEW w \in Worker, EndLoop(w), ForgetMemory(w)
    PROVE  /\ Own(w)' /\ QuorumTypeOK'
           /\ \A v \in Worker \ {w} : UNCHANGED <<Memory(v), owned[v], change[v]>>
  <1>1. /\ owned'[w] = {} /\ change'[w] = NoChange /\ phase'[w] = "idle"
        /\ snapshot'[w] = {} /\ registry'[w] = {}
        /\ \A s \in Shard : task'[w][s] = NoTask /\ buffer'[w][s] = NoEvent
        /\ \A v \in Worker \ {w} : UNCHANGED <<Memory(v), owned[v], change[v]>>
    BY DEF EndLoop, ForgetMemory, LeaseTypeOK, QuorumTypeOK, Memory
  <1>2. Own(w)'
    BY <1>1, ChangesDiffer
       DEF Own, Changes, Follows, ShardInv, HasTask, Handling, NoTask
  <1>3. Unacked(w) \in SUBSET Event
    BY DEF Unacked, QuorumTypeOK
  <1>4. QuorumTypeOK'
    BY <1>3 DEF ForgetMemory, QuorumTypeOK, NoTask, TaskPc
  <1> QED BY <1>1, <1>2, <1>4

-----------------------------------------------------------------------------
(* The steps of one shard of one worker.                                   *)

\* What a step of w may do to the others.
Apart(w) ==
    /\ \A v \in Worker \ {w} : UNCHANGED <<Memory(v), owned[v], change[v]>>
    /\ saved \subseteq saved'

\* A buffer is emptied or filled.
LEMMA BufferSet ==
    ASSUME QuorumTypeOK, NEW w \in Worker, NEW s \in Shard, NEW e \in Event \cup {NoEvent},
           buffer' = [buffer EXCEPT ![w][s] = e]
    PROVE  /\ buffer' \in [Worker -> [Shard -> Event \cup {NoEvent}]]
           /\ buffer'[w][s] = e
           /\ \A t \in Shard \ {s} : buffer'[w][t] = buffer[w][t]
           /\ \A v \in Worker \ {w} : buffer'[v] = buffer[v]
  BY EntrySet DEF QuorumTypeOK

\* Another worker's tasks stay.
LEMMA TasksApart ==
    ASSUME QuorumTypeOK, NEW w \in Worker, NEW s \in Shard, NEW x \in TaskState,
           task' = [task EXCEPT ![w][s] = x]
    PROVE  \A v \in Worker \ {w} : task'[v] = task[v]
  BY DEF QuorumTypeOK

\* The runtime restores a shard.
LEMMA RestoreKept ==
    ASSUME QuorumAssumption, LeaseTypeOK, QuorumTypeOK, QueuesInv,
           NEW w \in Worker, Own(w), NEW s \in Shard,
           ReadSessions(w, s) \/ FinishAcquire(w, s) \/ CancelTask(w, s)
    PROVE  QuorumTypeOK' /\ QueuesInv' /\ Own(w)' /\ Apart(w)
  <1> USE DEF brokerVars, runtimeVars
  <1>1. CASE ReadSessions(w, s)
    <2>1. /\ change[w] = Acquired(s) /\ phase'[w] = "restored" /\ task[w][s] = NoTask
          /\ snapshot'[w] = saved \cap SessionsOf(s)
          /\ UNCHANGED <<leaseVars, brokerVars, task, registry, saved>>
          /\ \A v \in Worker \ {w} : UNCHANGED <<phase[v], snapshot[v]>>
      BY <1>1 DEF ReadSessions, QuorumTypeOK
    <2>2. QuorumTypeOK'
      BY <1>1 DEF ReadSessions, QuorumTypeOK
    <2>3. s \in owned[w]
      BY <2>1 DEF Own, Changes
    <2>4. Changes(w)'
      BY <2>1, <2>3, ChangesDiffer DEF Changes, leaseVars, loopVars
    <2>5. Follows(w)'
      BY <2>1, <2>3 DEF Own, Follows, SessionsOf, leaseVars, loopVars
    <2>6. \A t \in Shard : ShardInv(w, t)'
      BY <2>1 DEF Own, ShardInv, HasTask, Handling, leaseVars, loopVars
    <2> QED BY <2>1, <2>2, <2>4, <2>5, <2>6
            DEF Own, Apart, Memory, QueuesInv, leaseVars, loopVars
  <1>2. CASE FinishAcquire(w, s)
    <2> DEFINE x == [pc |-> "starting", event |-> NoEvent]
    <2>1. /\ change[w] = Acquired(s) /\ phase[w] = "restored"
          /\ registry' = [registry EXCEPT ![w] = @ \cup snapshot[w]]
          /\ task' = [task EXCEPT ![w][s] = x]
          /\ phase'[w] = "idle" /\ snapshot'[w] = {} /\ change'[w] = NoChange
          /\ UNCHANGED <<brokerVars, saved, owned>>
          /\ \A v \in Worker \ {w} :
                 UNCHANGED <<phase[v], snapshot[v], registry[v], change[v]>>
      BY <1>2 DEF FinishAcquire, ChangeDone, QuorumTypeOK, LeaseTypeOK
    <2>2. x \in TaskState
      BY DEF TaskState, TaskPc
    <2> HIDE DEF x
    <2>3. /\ task' \in Tables /\ TaskBecomes(w, s, x)
          /\ \A v \in Worker \ {w} : task'[v] = task[v]
      BY <2>1, <2>2, TaskSet, TasksApart
    <2>4. QuorumTypeOK'
      BY <1>2, <2>3 DEF FinishAcquire, QuorumTypeOK, Tables, TaskState
    <2>5. Changes(w)'
      BY <2>1, ChangesDiffer DEF Changes
    <2>6. Follows(w)'
      BY <2>1, ChangesDiffer DEF Own, Follows, QuorumTypeOK, QuorumAssumption
    <2>7. \A t \in Shard \ {s} : ShardInv(w, t)'
      BY <2>1, <2>3, ChangesDiffer, OtherShardsKept DEF TaskBecomes
    <2>8. ShardInv(w, s)'
      BY <2>1, <2>3
         DEF TaskBecomes, Own, Changes, ShardInv, HasTask, Handling, x
    <2> QED BY <2>1, <2>3, <2>4, <2>5, <2>6, <2>7, <2>8 DEF Own, Apart, Memory, QueuesInv
  <1>3. CASE CancelTask(w, s)
    <2>1. /\ change[w] = Released(s) /\ phase'[w] = "cancelling" /\ phase[w] = "idle"
          /\ UNCHANGED <<leaseVars, brokerVars, task, registry, snapshot, saved>>
          /\ \A v \in Worker \ {w} : UNCHANGED phase[v]
      BY <1>3 DEF CancelTask, QuorumTypeOK
    <2>2. QuorumTypeOK'
      BY <1>3 DEF CancelTask, QuorumTypeOK
    <2>3. Changes(w)'
      BY <2>1, ChangesDiffer DEF Own, Changes, leaseVars, loopVars
    <2>4. Follows(w)' /\ \A t \in Shard : ShardInv(w, t)'
      BY <2>1 DEF Own, Follows, ShardInv, HasTask, Handling, leaseVars, loopVars
    <2> QED BY <2>1, <2>2, <2>3, <2>4
            DEF Own, Apart, Memory, QueuesInv, leaseVars, loopVars
  <1> QED BY <1>1, <1>2, <1>3

\* The iterator closes its consumer.
LEMMA ConsumerClosed ==
    ASSUME QuorumTypeOK, QueuesInv, NEW w \in Worker, Own(w), NEW s \in Shard,
           CloseConsumer(w, s)
    PROVE  /\ ready' \in [Shard -> SUBSET Event] /\ QueuesInv'
           /\ buffer' \in [Worker -> [Shard -> Event \cup {NoEvent}]]
           /\ buffer'[w][s] = NoEvent
           /\ \A t \in Shard \ {s} : buffer'[w][t] = buffer[w][t]
           /\ \A v \in Worker \ {w} : buffer'[v] = buffer[v]
           /\ published' = published
  <1>1. buffer' = [buffer EXCEPT ![w][s] = NoEvent]
    BY DEF CloseConsumer
  <1>2. /\ buffer' \in [Worker -> [Shard -> Event \cup {NoEvent}]]
        /\ buffer'[w][s] = NoEvent
        /\ \A t \in Shard \ {s} : buffer'[w][t] = buffer[w][t]
        /\ \A v \in Worker \ {w} : buffer'[v] = buffer[v]
    <2>1. NoEvent \in Event \cup {NoEvent}
      OBVIOUS
    <2> QED BY <1>1, <2>1, BufferSet
  <1>3. buffer[w][s] \in SessionsOf(s) \cup {NoEvent}
    BY DEF Own, ShardInv
  <1>4. ready' = [ready EXCEPT ![s] = @ \cup ({buffer[w][s]} \ {NoEvent})]
    BY DEF CloseConsumer
  <1>5. SessionsOf(s) \subseteq Event
    BY DEF SessionsOf
  <1>6. ready' \in [Shard -> SUBSET Event]
    <2>1. ready[s] \cup ({buffer[w][s]} \ {NoEvent}) \in SUBSET Event
      BY <1>3, <1>5 DEF QuorumTypeOK
    <2> QED BY <1>4, <2>1 DEF QuorumTypeOK
  <1>7. QueuesInv'
    BY <1>3, <1>4 DEF QueuesInv, QuorumTypeOK, SessionsOf
  <1> QED BY <1>2, <1>6, <1>7 DEF CloseConsumer

\* The task of a shard goes on, and its worker's invariant with it.
LEMMA TaskStepKept ==
    ASSUME QuorumTypeOK, NEW w \in Worker, Own(w), NEW s \in Shard, NEW x \in TaskState,
           TaskBecomes(w, s, x), task[w][s].pc # "none",
           \A t \in Shard \ {s} : buffer'[w][t] = buffer[w][t],
           UNCHANGED <<owned, change, phase, snapshot>>, saved \subseteq saved',
           Follows(w)', ShardInv(w, s)'
    PROVE  Own(w)'
  <1>1. \A t \in Shard \ {s} : ShardInv(w, t)'
    BY OtherShardsKept DEF TaskBecomes
  <1>2. Changes(w)'
    <2>1. \A t \in Shard : task[w][t] = NoTask => task'[w][t] = NoTask
      BY DEF TaskBecomes, NoTask
    <2> QED BY <2>1 DEF Own, Changes
  <1> QED BY <1>1, <1>2 DEF Own

LEMMA Pcs == {"waiting", "saving", "saved", "acking", "acked", "closing"} \subseteq TaskPc
  BY DEF TaskPc

\* The state of a task that goes on, when it is a step of Advance.
LEMMA AdvanceKept ==
    ASSUME QuorumTypeOK, NEW w \in Worker, Own(w), NEW s \in Shard, NEW q \in TaskPc,
           Advance(w, s, q), task[w][s].pc # "none", q # "none",
           q # "closing" => HasTask(w, s),
           UNCHANGED <<owned, change, phase, snapshot, buffer>>, saved \subseteq saved',
           Follows(w)',
           q \in {"saving", "saved", "acking"} => task[w][s].event # NoEvent,
           q \in {"saved", "acking"} => task[w][s].event \in saved',
           q \notin {"saving", "saved", "acking", "closing"} => task[w][s].event = NoEvent
    PROVE  /\ Own(w)' /\ task' \in Tables
           /\ \A v \in Worker \ {w} : task'[v] = task[v]
  <1> DEFINE x == [pc |-> q, event |-> task[w][s].event]
  <1>1. task' \in Tables /\ TaskBecomes(w, s, x)
    BY TaskAdvances DEF Advance
  <1>2. x \in TaskState
    BY DEF QuorumTypeOK, TaskState
  <1>3. x.pc = q /\ x.event = task[w][s].event
    OBVIOUS
  <1> HIDE DEF x
  <1>4. ShardInv(w, s)'
    BY <1>1, <1>3 DEF TaskBecomes, Own, ShardInv, HasTask, Handling, TaskPc
  <1>5. Own(w)'
    BY <1>1, <1>2, <1>4, TaskStepKept
  <1>6. \A v \in Worker \ {w} : task'[v] = task[v]
    BY DEF Advance, QuorumTypeOK
  <1> QED BY <1>1, <1>5, <1>6

\* A shard is released.
LEMMA ReleaseKept ==
    ASSUME QuorumAssumption, LeaseTypeOK, QuorumTypeOK, QueuesInv,
           NEW w \in Worker, Own(w), NEW s \in Shard,
           \/ TaskStopsInIterator(w, s) \/ TaskStopsInBody(w, s)
           \/ GeneratorCloses(w, s) \/ FinishRelease(w, s)
    PROVE  QuorumTypeOK' /\ QueuesInv' /\ Own(w)' /\ Apart(w)
  <1> USE DEF brokerVars, runtimeVars
  <1>0. NoTask \in TaskState
    BY DEF NoTask, TaskState, TaskPc
  <1>1. CASE TaskStopsInIterator(w, s) \/ GeneratorCloses(w, s)
    <2>1. /\ task[w][s].pc # "none"
          /\ task' = [task EXCEPT ![w][s] = NoTask] /\ CloseConsumer(w, s)
          /\ UNCHANGED <<leaseVars, runtimeVars, registry, saved>>
          /\ \/ unreturned' = unreturned
             \/ unreturned' = [unreturned EXCEPT
                                   ![w] = @ \cup ({task[w][s].event} \ {NoEvent})]
      BY <1>1 DEF TaskStopsInIterator, GeneratorCloses
    <2>2. /\ task' \in Tables /\ TaskBecomes(w, s, NoTask)
          /\ \A v \in Worker \ {w} : task'[v] = task[v]
      BY <1>0, <2>1, TaskSet, TasksApart
    <2>3. /\ ready' \in [Shard -> SUBSET Event] /\ QueuesInv'
          /\ buffer' \in [Worker -> [Shard -> Event \cup {NoEvent}]]
          /\ buffer'[w][s] = NoEvent
          /\ \A t \in Shard \ {s} : buffer'[w][t] = buffer[w][t]
          /\ \A v \in Worker \ {w} : buffer'[v] = buffer[v]
          /\ published' = published
      BY <2>1, ConsumerClosed
    <2>4. unreturned' \in [Worker -> SUBSET Event]
      <3>1. {task[w][s].event} \ {NoEvent} \in SUBSET Event
        BY DEF QuorumTypeOK
      <3>2. unreturned[w] \cup ({task[w][s].event} \ {NoEvent}) \in SUBSET Event
        BY <3>1 DEF QuorumTypeOK
      <3> QED BY <2>1, <3>2 DEF QuorumTypeOK
    <2>5. QuorumTypeOK'
      BY <2>1, <2>2, <2>3, <2>4 DEF QuorumTypeOK, Tables, TaskState
    <2>6. Follows(w)'
      BY <2>1 DEF Own, Follows, leaseVars, loopVars
    <2>7. ShardInv(w, s)'
      BY <2>2, <2>3 DEF TaskBecomes, ShardInv, HasTask, Handling, NoTask
    <2>8. Own(w)'
      BY <1>0, <2>1, <2>2, <2>3, <2>6, <2>7, TaskStepKept DEF leaseVars, loopVars
    <2> QED BY <2>1, <2>2, <2>3, <2>5, <2>8 DEF Apart, Memory, leaseVars, loopVars
  <1>2. CASE TaskStopsInBody(w, s)
    <2>1. /\ Advance(w, s, "closing") /\ task[w][s].pc # "none"
          /\ UNCHANGED <<leaseVars, brokerVars, runtimeVars, registry, saved>>
      BY <1>2 DEF TaskStopsInBody, Advance
    <2>2. Follows(w)'
      BY <2>1 DEF Own, Follows, leaseVars, loopVars
    <2>3. /\ Own(w)' /\ task' \in Tables
          /\ \A v \in Worker \ {w} : task'[v] = task[v]
      BY <2>1, <2>2, AdvanceKept, Pcs DEF leaseVars, loopVars
    <2> QED BY <2>1, <2>3
            DEF QuorumTypeOK, Tables, TaskState, Apart, Memory, QueuesInv, leaseVars, loopVars
  <1>3. CASE FinishRelease(w, s)
    <2>1. /\ change[w] = Released(s) /\ phase[w] = "cancelling" /\ ~HasTask(w, s)
          /\ registry' = [registry EXCEPT ![w] = @ \ SessionsOf(s)]
          /\ phase'[w] = "idle" /\ change'[w] = NoChange
          /\ UNCHANGED <<brokerVars, saved, owned, task, snapshot>>
          /\ \A v \in Worker \ {w} :
                 UNCHANGED <<phase[v], registry[v], change[v]>>
      BY <1>3 DEF FinishRelease, ChangeDone, Cancelled, QuorumTypeOK, LeaseTypeOK
    <2>2. QuorumTypeOK'
      BY <1>3 DEF FinishRelease, QuorumTypeOK
    <2>3. snapshot[w] = {}
      BY <2>1 DEF Own, Changes
    <2>4. Changes(w)'
      BY <2>1, <2>3, ChangesDiffer DEF Changes
    <2>5. Follows(w)'
      <3>1. registry'[w] = registry[w] \ SessionsOf(s) /\ registry[w] \subseteq Event
        BY <2>1 DEF QuorumTypeOK
      <3>2. \A e \in registry'[w] : e \in Event /\ ShardOf[e] # s /\ ShardOf[e] \in Shard
        BY <3>1 DEF SessionsOf, QuorumAssumption
      <3> QED BY <2>1, <2>3, <3>1, <3>2, ChangesDiffer DEF Own, Follows
    <2>6. \A t \in Shard \ {s} : ShardInv(w, t)'
      BY <2>1, ChangesDiffer, OtherShardsKept
    <2>7. ShardInv(w, s)'
      BY <2>1 DEF Own, ShardInv, HasTask, Handling
    <2> QED BY <2>1, <2>2, <2>4, <2>5, <2>6, <2>7 DEF Own, Apart, Memory, QueuesInv
  <1> QED BY <1>1, <1>2, <1>3

\* The task of a shard takes messages, saves them and acknowledges them.
LEMMA TaskKept ==
    ASSUME QuorumAssumption, LeaseTypeOK, QuorumTypeOK, QueuesInv,
           NEW w \in Worker, Own(w), NEW s \in Shard,
           \/ Consume(w, s) \/ Deliver(w, s) \/ TakeMessage(w, s) \/ SaveSession(w, s)
           \/ Activate(w, s) \/ AckArrives(w, s) \/ AckReturns(w, s)
    PROVE  QuorumTypeOK' /\ QueuesInv' /\ Own(w)' /\ Apart(w)
  <1> USE DEF brokerVars, runtimeVars, leaseVars, loopVars
  <1>0. ShardInv(w, s) /\ task[w][s] \in TaskState
    BY DEF Own, QuorumTypeOK, TaskState
  <1>1. CASE Consume(w, s)
    <2>1. /\ task[w][s].pc = "starting" /\ Advance(w, s, "waiting")
          /\ UNCHANGED <<leaseVars, published, ready, unreturned, buffer, runtimeVars,
                         registry, saved>>
      BY <1>1 DEF Consume
    <2>2. Follows(w)'
      BY <2>1 DEF Own, Follows
    <2>3. task[w][s].event = NoEvent
      BY <1>0, <2>1 DEF ShardInv, Handling
    <2>4. /\ Own(w)' /\ task' \in Tables
          /\ \A v \in Worker \ {w} : task'[v] = task[v]
      <3>1. UNCHANGED <<owned, change, phase, snapshot, buffer>> /\ saved \subseteq saved'
        BY <2>1
      <3> HIDE DEF brokerVars, runtimeVars, leaseVars, loopVars
      <3> QED BY <2>1, <2>2, <2>3, <3>1, AdvanceKept, Pcs DEF HasTask
    <2> QED BY <2>1, <2>4 DEF QuorumTypeOK, Tables, TaskState, Apart, Memory, QueuesInv
  <1>2. CASE Deliver(w, s)
    <2>1. PICK e \in ready[s] :
              /\ ready' = [ready EXCEPT ![s] = @ \ {e}]
              /\ buffer' = [buffer EXCEPT ![w][s] = e]
      BY <1>2 DEF Deliver
    <2>2. /\ UNCHANGED <<leaseVars, published, unreturned, task, runtimeVars, registry,
                         saved>>
      BY <1>2 DEF Deliver
    <2>3. e \in SessionsOf(s) /\ e \in Event \cup {NoEvent}
      BY DEF QueuesInv, SessionsOf
    <2>4. /\ buffer' \in [Worker -> [Shard -> Event \cup {NoEvent}]]
          /\ buffer'[w][s] = e
          /\ \A t \in Shard \ {s} : buffer'[w][t] = buffer[w][t]
          /\ \A v \in Worker \ {w} : buffer'[v] = buffer[v]
      BY <2>1, <2>3, BufferSet
    <2>5. ready' \in [Shard -> SUBSET Event] /\ \A t \in Shard : ready'[t] \subseteq ready[t]
      BY <2>1 DEF QuorumTypeOK
    <2>6. QuorumTypeOK' /\ QueuesInv'
      BY <2>2, <2>4, <2>5 DEF QuorumTypeOK, QueuesInv, SessionsOf
    <2>7. \A t \in Shard : ShardInv(w, t)'
      BY <2>2, <2>3, <2>4 DEF Own, ShardInv, HasTask, Handling, SessionsOf
    <2>8. Changes(w)' /\ Follows(w)'
      BY <2>2 DEF Own, Changes, Follows
    <2> QED BY <2>2, <2>4, <2>6, <2>7, <2>8 DEF Own, Apart, Memory
  <1>3. CASE TakeMessage(w, s)
    <2> DEFINE x == [pc |-> "saving", event |-> buffer[w][s]]
    <2>1. /\ task[w][s].pc = "waiting" /\ buffer[w][s] # NoEvent
          /\ task' = [task EXCEPT ![w][s] = x]
          /\ buffer' = [buffer EXCEPT ![w][s] = NoEvent]
          /\ UNCHANGED <<leaseVars, published, ready, unreturned, runtimeVars, registry,
                         saved>>
      BY <1>3 DEF TakeMessage
    <2>2. buffer[w][s] \in SessionsOf(s) /\ buffer[w][s] \in Event
      BY <1>0, <2>1 DEF ShardInv, SessionsOf
    <2>3. x \in TaskState /\ x.pc = "saving" /\ x.event = buffer[w][s]
      BY <2>2 DEF TaskState, TaskPc
    <2> HIDE DEF x
    <2>4. /\ task' \in Tables /\ TaskBecomes(w, s, x)
          /\ \A v \in Worker \ {w} : task'[v] = task[v]
      BY <2>1, <2>3, TaskSet, TasksApart
    <2>5. NoEvent \in Event \cup {NoEvent}
      OBVIOUS
    <2>6. /\ buffer' \in [Worker -> [Shard -> Event \cup {NoEvent}]]
          /\ buffer'[w][s] = NoEvent
          /\ \A t \in Shard \ {s} : buffer'[w][t] = buffer[w][t]
          /\ \A v \in Worker \ {w} : buffer'[v] = buffer[v]
      BY <2>1, <2>5, BufferSet
    <2>7. Follows(w)'
      BY <2>1 DEF Own, Follows
    <2>8. ShardInv(w, s)'
      <3>1. s \in owned[w] \/ change[w] = Released(s)
        BY <1>0, <2>1 DEF ShardInv, HasTask
      <3> QED BY <2>1, <2>2, <2>3, <2>4, <2>6, <3>1
              DEF TaskBecomes, ShardInv, HasTask, Handling, SessionsOf
    <2>9. Own(w)'
      BY <2>1, <2>3, <2>4, <2>6, <2>7, <2>8, TaskStepKept
    <2> QED BY <2>1, <2>4, <2>6, <2>9
            DEF QuorumTypeOK, Tables, TaskState, Apart, Memory, QueuesInv
  <1>4. CASE SaveSession(w, s)
    <2>1. /\ task[w][s].pc = "saving" /\ Advance(w, s, "saved")
          /\ saved' = saved \cup {task[w][s].event}
          /\ UNCHANGED <<leaseVars, brokerVars, runtimeVars, registry>>
      BY <1>4 DEF SaveSession
    <2>2. Follows(w)'
      BY <2>1 DEF Own, Follows
    <2>3. task[w][s].event # NoEvent /\ task[w][s].event \in Event
      BY <1>0, <2>1 DEF ShardInv, Handling, SessionsOf
    <2>4. /\ Own(w)' /\ task' \in Tables
          /\ \A v \in Worker \ {w} : task'[v] = task[v]
      <3>1. /\ UNCHANGED <<owned, change, phase, snapshot, buffer>>
            /\ saved \subseteq saved' /\ task[w][s].event \in saved'
        BY <2>1
      <3> HIDE DEF brokerVars, runtimeVars, leaseVars, loopVars
      <3> QED BY <2>1, <2>2, <2>3, <3>1, AdvanceKept, Pcs DEF HasTask
    <2> QED BY <2>1, <2>3, <2>4 DEF QuorumTypeOK, Tables, TaskState, Apart, Memory, QueuesInv
  <1>5. CASE Activate(w, s)
    <2>1. /\ task[w][s].pc = "saved" /\ Advance(w, s, "acking")
          /\ registry' = [registry EXCEPT ![w] = @ \cup {task[w][s].event}]
          /\ UNCHANGED <<leaseVars, brokerVars, runtimeVars, saved>>
      BY <1>5 DEF Activate
    <2>2. /\ task[w][s].event # NoEvent /\ task[w][s].event \in SessionsOf(s)
          /\ task[w][s].event \in Event /\ task[w][s].event \in saved
          /\ s \in owned[w] \/ change[w] = Released(s)
      BY <1>0, <2>1 DEF ShardInv, Handling, HasTask, SessionsOf
    <2>3. Follows(w)'
      <3>1. registry'[w] = registry[w] \cup {task[w][s].event}
        BY <2>1 DEF QuorumTypeOK
      <3> QED BY <2>1, <2>2, <3>1 DEF Own, Follows, SessionsOf
    <2>4. /\ Own(w)' /\ task' \in Tables
          /\ \A v \in Worker \ {w} : task'[v] = task[v]
      <3>1. /\ UNCHANGED <<owned, change, phase, snapshot, buffer>>
            /\ saved \subseteq saved' /\ task[w][s].event \in saved'
        BY <2>1, <2>2
      <3> HIDE DEF brokerVars, runtimeVars, leaseVars, loopVars
      <3> QED BY <2>1, <2>2, <2>3, <3>1, AdvanceKept, Pcs DEF HasTask
    <2> QED BY <2>1, <2>2, <2>4 DEF QuorumTypeOK, Tables, TaskState, Apart, Memory, QueuesInv
  <1>6. CASE AckArrives(w, s)
    <2> DEFINE x == [pc |-> "acked", event |-> NoEvent]
    <2>1. /\ task[w][s].pc = "acking" /\ task' = [task EXCEPT ![w][s] = x]
          /\ UNCHANGED <<leaseVars, brokerVars, runtimeVars, registry, saved>>
      BY <1>6 DEF AckArrives
    <2>2. x \in TaskState /\ x.pc = "acked" /\ x.event = NoEvent
      BY DEF TaskState, TaskPc
    <2> HIDE DEF x
    <2>3. /\ task' \in Tables /\ TaskBecomes(w, s, x)
          /\ \A v \in Worker \ {w} : task'[v] = task[v]
      BY <2>1, <2>2, TaskSet, TasksApart
    <2>4. Follows(w)' /\ ShardInv(w, s)'
      BY <1>0, <2>1, <2>2, <2>3 DEF Own, Follows, TaskBecomes, ShardInv, HasTask, Handling
    <2>5. Own(w)'
      BY <2>1, <2>2, <2>3, <2>4, TaskStepKept
    <2> QED BY <2>1, <2>3, <2>5 DEF QuorumTypeOK, Tables, TaskState, Apart, Memory, QueuesInv
  <1>7. CASE AckReturns(w, s)
    <2>1. /\ task[w][s].pc = "acked" /\ Advance(w, s, "waiting")
          /\ UNCHANGED <<leaseVars, brokerVars, runtimeVars, registry, saved>>
      BY <1>7 DEF AckReturns
    <2>2. Follows(w)' /\ task[w][s].event = NoEvent
      BY <1>0, <2>1 DEF Own, Follows, ShardInv, Handling
    <2>3. /\ Own(w)' /\ task' \in Tables
          /\ \A v \in Worker \ {w} : task'[v] = task[v]
      <3>1. UNCHANGED <<owned, change, phase, snapshot, buffer>> /\ saved \subseteq saved'
        BY <2>1
      <3> HIDE DEF brokerVars, runtimeVars, leaseVars, loopVars
      <3> QED BY <2>1, <2>2, <3>1, AdvanceKept, Pcs DEF HasTask
    <2> QED BY <2>1, <2>3 DEF QuorumTypeOK, Tables, TaskState, Apart, Memory, QueuesInv
  <1> QED BY <1>1, <1>2, <1>3, <1>4, <1>5, <1>6, <1>7

-----------------------------------------------------------------------------
(* The other steps.                                                        *)

\* A step of changes() takes a shard away only by a change that says so, and
\* only when the runtime has no other change in work.
LEMMA LeaseKept ==
    ASSUME LeaseTypeOK, QuorumTypeOK, QueuesInv, NEW w \in Worker, Own(w), Lease(w)
    PROVE  QuorumTypeOK' /\ QueuesInv' /\ Own(w)' /\ Apart(w)
  <1>1. CASE loop'[w] = "off"
    <2>1. EndLoop(w)
      BY <1>1 DEF Lease, LoopStep, RenewOwned, YieldReleased, ClaimAvailable,
                  YieldAcquired, Sleep, LeaseTypeOK
    <2>2. ForgetMemory(w)
      BY <1>1 DEF Lease
    <2>3. QueuesInv' /\ saved' = saved
      BY <2>2 DEF ForgetMemory, QueuesInv
    <2> QED BY <2>1, <2>2, <2>3, ForgottenIsOwn DEF Apart
  <1>2. CASE loop'[w] # "off"
    <2>1. UNCHANGED quorumVars
      BY <1>2 DEF Lease
    <2>2. /\ QuorumTypeOK' /\ QueuesInv' /\ saved' = saved
          /\ \A v \in Worker : UNCHANGED Memory(v)
      BY <2>1 DEF quorumVars, brokerVars, runtimeVars, QuorumTypeOK, QueuesInv, Memory
    <2>3. \/ owned' = owned /\ change' = change
          \/ /\ change[w] = NoChange
             /\ \E s \in Shard :
                    \/ /\ owned' = [owned EXCEPT ![w] = @ \ {s}]
                       /\ change' = [change EXCEPT ![w] = Released(s)]
                    \/ /\ owned' = [owned EXCEPT ![w] = @ \cup {s}]
                       /\ change' = [change EXCEPT ![w] = Acquired(s)]
      <3>1. ~EndLoop(w)
        BY <1>2 DEF EndLoop, LeaseTypeOK
      <3>2. todo[w] \subseteq Shard
        BY DEF LeaseTypeOK
      <3> QED BY <3>1, <3>2 DEF Lease, LoopStep, RenewOwned, YieldReleased,
                 ClaimAvailable, YieldAcquired, Sleep, Resumed
    <2>4. \A v \in Worker \ {w} : UNCHANGED <<owned[v], change[v]>>
      BY <2>3 DEF LeaseTypeOK
    <2>5. ASSUME owned' = owned, change' = change
          PROVE  Own(w)'
      <3>1. /\ owned'[w] = owned[w] /\ change'[w] = change[w] /\ UNCHANGED Memory(w)
            /\ saved \subseteq saved'
        BY <2>2, <2>5
      <3> QED BY <2>5, <3>1, OthersKeepOwn
    <2>6. ASSUME NEW s \in Shard, change[w] = NoChange,
                 owned'[w] = owned[w] \ {s}, change'[w] = Released(s)
          PROVE  Own(w)'
      <3>1. phase[w] = "idle" /\ snapshot[w] = {}
        BY <2>6 DEF Own, Changes
      <3>2. Changes(w)'
        BY <2>2, <2>6, <3>1, ChangesDiffer DEF Changes, Memory
      <3>3. Follows(w)'
        BY <2>2, <2>6, <3>1, ChangesDiffer DEF Own, Follows, Memory
      <3>4. \A t \in Shard : ShardInv(w, t)'
        BY <2>2, <2>6, ChangesDiffer DEF Own, ShardInv, HasTask, Handling, Memory
      <3> QED BY <3>2, <3>3, <3>4 DEF Own
    <2>7. ASSUME NEW s \in Shard, change[w] = NoChange,
                 owned'[w] = owned[w] \cup {s}, change'[w] = Acquired(s)
          PROVE  Own(w)'
      <3>1. phase[w] = "idle" /\ snapshot[w] = {}
        BY <2>7 DEF Own, Changes
      <3>2. Changes(w)'
        BY <2>2, <2>7, <3>1, ChangesDiffer DEF Changes, Memory
      <3>3. Follows(w)'
        BY <2>2, <2>7, <3>1, ChangesDiffer DEF Own, Follows, Memory
      <3>4. \A t \in Shard : ShardInv(w, t)'
        BY <2>2, <2>7, ChangesDiffer DEF Own, ShardInv, HasTask, Handling, Memory
      <3> QED BY <3>2, <3>3, <3>4 DEF Own
    <2>8. Own(w)'
      BY <2>3, <2>5, <2>6, <2>7 DEF LeaseTypeOK
    <2> QED BY <2>2, <2>4, <2>8 DEF Apart
  <1> QED BY <1>1, <1>2

\* The broker returns what an ended process has not acknowledged.
LEMMA ConnectionCloseKept ==
    ASSUME QuorumTypeOK, QueuesInv, NEW w \in Worker, Own(w), ConnectionCloses(w)
    PROVE  QuorumTypeOK' /\ QueuesInv' /\ Own(w)' /\ Apart(w)
  <1>1. /\ ready' = [s \in Shard |-> ready[s] \cup (unreturned[w] \cap SessionsOf(s))]
        /\ unreturned' = [unreturned EXCEPT ![w] = {}]
        /\ UNCHANGED <<leaseVars, published, buffer, task, runtimeVars, registry, saved>>
    BY DEF ConnectionCloses
  <1>2. QuorumTypeOK'
    BY <1>1 DEF QuorumTypeOK, runtimeVars
  <1>3. QueuesInv'
    BY <1>1 DEF QueuesInv, SessionsOf
  <1>4. Apart(w) /\ Own(w)'
    BY <1>1, OthersKeepOwn DEF Apart, Memory, runtimeVars, leaseVars, loopVars
  <1> QED BY <1>2, <1>3, <1>4

\* Every step of a worker keeps its invariant.
LEMMA WorkerKept ==
    ASSUME QuorumAssumption, LeaseTypeOK, QuorumTypeOK, QueuesInv,
           NEW w \in Worker, Own(w), WorkerStep(w) \/ Start(w) \/ ProcessEnds(w)
    PROVE  QuorumTypeOK' /\ QueuesInv' /\ Own(w)' /\ Apart(w)
  <1>1. CASE ProcessEnds(w)
    <2>1. EndLoop(w) /\ ForgetMemory(w)
      BY <1>1 DEF ProcessEnds
    <2>2. QueuesInv' /\ saved' = saved
      BY <2>1 DEF ForgetMemory, QueuesInv
    <2> QED BY <2>1, <2>2, ForgottenIsOwn DEF Apart
  <1>2. CASE Start(w)
    <2>1. UNCHANGED <<owned, change, quorumVars>>
      BY <1>2 DEF Start, StartLoop
    <2> QED BY <2>1, OthersKeepOwn
            DEF quorumVars, brokerVars, runtimeVars, QuorumTypeOK, QueuesInv, Memory, Apart
  <1>3. ASSUME NEW s \in Shard, ShardStep(w, s)
        PROVE  QuorumTypeOK' /\ QueuesInv' /\ Own(w)' /\ Apart(w)
    <2>1. CASE DeserializeFails(w, s)
      BY <1>1, <2>1 DEF DeserializeFails
    <2> QED BY <1>3, <2>1, RestoreKept, ReleaseKept, TaskKept DEF ShardStep
  <1> QED BY <1>1, <1>2, <1>3, LeaseKept, ConnectionCloseKept DEF WorkerStep

\* Every step keeps the types and the invariants of all workers.
LEMMA OwnKept ==
    ASSUME QuorumAssumption, LeaseTypeOK, QuorumTypeOK, QueuesInv,
           \A v \in Worker : Own(v), [Next]_vars
    PROVE  QuorumTypeOK' /\ QueuesInv' /\ \A v \in Worker : Own(v)'
  <1>1. ASSUME NEW w \in Worker, WorkerStep(w) \/ Start(w) \/ ProcessEnds(w)
        PROVE  QuorumTypeOK' /\ QueuesInv' /\ \A v \in Worker : Own(v)'
    <2>1. QuorumTypeOK' /\ QueuesInv' /\ Own(w)' /\ Apart(w)
      BY <1>1, WorkerKept
    <2>2. ASSUME NEW v \in Worker, v # w PROVE Own(v)'
      BY <2>1, <2>2, OthersKeepOwn DEF Apart
    <2> QED BY <2>1, <2>2
  <1>2. ASSUME NEW s \in Shard, Lapse(s)
        PROVE  QuorumTypeOK' /\ QueuesInv' /\ \A v \in Worker : Own(v)'
    <2>1. UNCHANGED <<owned, change, quorumVars>>
      BY <1>2 DEF Lapse, LapseUnheld, LapseHeld, loopVars
    <2> QED BY <2>1, OthersKeepOwn
            DEF quorumVars, brokerVars, runtimeVars, QuorumTypeOK, QueuesInv, Memory
  <1>3. ASSUME NEW e \in Event, Publish(e)
        PROVE  QuorumTypeOK' /\ QueuesInv' /\ \A v \in Worker : Own(v)'
    <2>1. /\ published' = [published EXCEPT ![e] = @ + 1]
          /\ ready' = [ready EXCEPT ![ShardOf[e]] = @ \cup {e}]
          /\ UNCHANGED <<leaseVars, consumers, unreturned, buffer, task, runtimeVars,
                         registry, saved>>
      BY <1>3 DEF Publish
    <2>2. ready' \in [Shard -> SUBSET Event]
      BY <2>1 DEF QuorumTypeOK
    <2>3. published' \in [Event -> Nat]
      BY <2>1 DEF QuorumTypeOK
    <2>4. QuorumTypeOK'
      BY <2>1, <2>2, <2>3 DEF QuorumTypeOK, runtimeVars
    <2>5. QueuesInv'
      BY <2>1 DEF QueuesInv, SessionsOf, QuorumTypeOK
    <2> QED BY <2>1, <2>4, <2>5, OthersKeepOwn DEF Memory, runtimeVars, leaseVars, loopVars
  <1>4. CASE UNCHANGED vars
    BY <1>4, OthersKeepOwn DEF vars, quorumVars, brokerVars, runtimeVars, leaseVars,
                               loopVars, QuorumTypeOK, QueuesInv, Memory
  <1> QED BY <1>1, <1>2, <1>3, <1>4 DEF Next

-----------------------------------------------------------------------------
(* Messages.                                                               *)

\* Where a message can be.
Held(w, s, e) == task[w][s].event = e \/ buffer[w][s] = e
Kept(e) ==
    \/ e \in ready[ShardOf[e]] \/ e \in saved
    \/ \E w \in Worker : e \in unreturned[w] \/ \E s \in Shard : Held(w, s, e)

LEMMA KeptSplit ==
    ASSUME QuorumAssumption
    PROVE  GoneIsSaved <=> \A e \in Event : published[e] > 0 => Kept(e)
  <1>1. \A e \in Event, w \in Worker : e \in Unacked(w) <=>
            e \in unreturned[w] \/ \E s \in Shard : Held(w, s, e)
    BY DEF Unacked, Held, QuorumAssumption
  <1> QED BY <1>1 DEF GoneIsSaved, Kept

\* A message stays where it is, or goes where it is kept.
LEMMA KeptStays ==
    ASSUME NEW e \in Event, Kept(e),
           e \in ready[ShardOf[e]] => e \in ready'[ShardOf[e]],
           e \in saved => e \in saved',
           \A w \in Worker : e \in unreturned[w] => e \in unreturned'[w],
           \A w \in Worker, s \in Shard : Held(w, s, e) =>
               \/ Held(w, s, e)' \/ e \in unreturned'[w]
               \/ e \in ready'[ShardOf[e]] \/ e \in saved'
    PROVE  Kept(e)'
  BY DEF Kept

\* What one step of a shard task does to a message.
LEMMA ShardKeepsMessages ==
    ASSUME QuorumAssumption, QuorumTypeOK, NEW w \in Worker, NEW s \in Shard,
           Own(w), ShardStep(w, s), ~DeserializeFails(w, s),
           NEW e \in Event, Kept(e)
    PROVE  Kept(e)' /\ published' = published
  <1> USE DEF brokerVars, runtimeVars
  <1>0. /\ e # NoEvent /\ ShardInv(w, s)
        /\ Held(w, s, e) => ShardOf[e] = s
    BY DEF QuorumAssumption, Own, ShardInv, Held, SessionsOf
  <1>1. ASSUME UNCHANGED <<ready, unreturned, buffer, published>>, saved \subseteq saved',
               NEW x, TaskBecomes(w, s, x),
               task[w][s].event = e => x.event = e \/ e \in saved'
        PROVE  Kept(e)' /\ published' = published
    <2>1. \A v \in Worker, t \in Shard : Held(v, t, e) => Held(v, t, e)' \/ e \in saved'
      BY <1>1 DEF Held, TaskBecomes
    <2> QED BY <1>1, <2>1, KeptStays
  <1>2. CASE ReadSessions(w, s) \/ CancelTask(w, s) \/ FinishRelease(w, s)
    BY <1>2, KeptStays DEF ReadSessions, CancelTask, FinishRelease, Held
  <1>3. CASE FinishAcquire(w, s) \/ AckArrives(w, s)
    <2>1. PICK q \in TaskPc : task' = [task EXCEPT ![w][s] = [pc |-> q, event |-> NoEvent]]
      BY <1>3 DEF FinishAcquire, AckArrives, TaskPc
    <2>2. [pc |-> q, event |-> NoEvent] \in TaskState
      BY DEF TaskState
    <2>3. TaskBecomes(w, s, [pc |-> q, event |-> NoEvent])
      BY <2>1, <2>2, TaskSet
    <2>4. UNCHANGED <<ready, unreturned, buffer, published, saved>>
      BY <1>3 DEF FinishAcquire, AckArrives
    <2>5. task[w][s].event = e => e \in saved'
      <3>1. CASE FinishAcquire(w, s)
        BY <1>0, <3>1 DEF FinishAcquire, Own, Changes, NoTask
      <3>2. CASE AckArrives(w, s)
        BY <1>0, <2>4, <3>2 DEF AckArrives, ShardInv
      <3> QED BY <1>3, <3>1, <3>2
    <2> QED BY <1>1, <2>3, <2>4, <2>5
  <1>4. ASSUME NEW q \in TaskPc, Advance(w, s, q), saved \subseteq saved',
               UNCHANGED <<ready, unreturned, buffer, published>>
        PROVE  Kept(e)' /\ published' = published
    <2>1. TaskBecomes(w, s, [pc |-> q, event |-> task[w][s].event])
      BY <1>4, TaskAdvances DEF Advance
    <2> QED BY <1>1, <1>4, <2>1
  <1>5. CASE \/ Consume(w, s) \/ SaveSession(w, s) \/ Activate(w, s) \/ AckReturns(w, s)
             \/ TaskStopsInBody(w, s)
    <2>1. \E q \in {"waiting", "saved", "acking", "closing"} : Advance(w, s, q)
      BY <1>5 DEF Consume, SaveSession, Activate, AckReturns, TaskStopsInBody, Advance
    <2>2. saved \subseteq saved' /\ UNCHANGED <<ready, unreturned, buffer, published>>
      BY <1>5 DEF Consume, SaveSession, Activate, AckReturns, TaskStopsInBody
    <2> QED BY <1>4, <2>1, <2>2, Pcs
  <1>6. CASE TakeMessage(w, s)
    <2> DEFINE x == [pc |-> "saving", event |-> buffer[w][s]]
    <2>1. /\ task[w][s].pc = "waiting" /\ task' = [task EXCEPT ![w][s] = x]
          /\ buffer' = [buffer EXCEPT ![w][s] = NoEvent]
          /\ UNCHANGED <<ready, unreturned, published, saved>>
      BY <1>6 DEF TakeMessage
    <2>2. x \in TaskState /\ x.event = buffer[w][s]
      BY DEF TaskState, TaskPc, QuorumTypeOK
    <2>3. TaskBecomes(w, s, x)
      BY <2>1, <2>2, TaskSet
    <2> HIDE DEF x
    <2>4. task[w][s].event = NoEvent
      BY <1>0, <2>1 DEF ShardInv, Handling
    <2>5. \A v \in Worker, t \in Shard : v # w \/ t # s => buffer'[v][t] = buffer[v][t]
      BY <2>1 DEF QuorumTypeOK
    <2>6. \A v \in Worker, t \in Shard : Held(v, t, e) => Held(v, t, e)'
      BY <1>0, <2>2, <2>3, <2>4, <2>5 DEF Held, TaskBecomes
    <2> QED BY <2>1, <2>6, KeptStays
  <1>7. CASE Deliver(w, s)
    <2>1. PICK m \in ready[s] :
              /\ ready' = [ready EXCEPT ![s] = @ \ {m}]
              /\ buffer' = [buffer EXCEPT ![w][s] = m]
      BY <1>7 DEF Deliver
    <2>2. /\ buffer[w][s] = NoEvent
          /\ UNCHANGED <<task, unreturned, published, saved>>
      BY <1>7 DEF Deliver
    <2>3. CASE e = m
      <3>1. buffer'[w][s] = e
        BY <2>1, <2>3 DEF QuorumTypeOK
      <3> QED BY <2>2, <3>1 DEF Kept, Held
    <2>4. CASE e # m
      <3>1. e \in ready[ShardOf[e]] => e \in ready'[ShardOf[e]]
        BY <2>1, <2>4 DEF QuorumTypeOK
      <3>2. \A v \in Worker, t \in Shard : v # w \/ t # s => buffer'[v][t] = buffer[v][t]
        BY <2>1 DEF QuorumTypeOK
      <3>3. \A v \in Worker, t \in Shard : Held(v, t, e) => Held(v, t, e)'
        BY <1>0, <2>2, <3>2 DEF Held
      <3> QED BY <2>2, <3>1, <3>3, KeptStays
    <2> QED BY <2>3, <2>4
  <1>8. CASE TaskStopsInIterator(w, s) \/ GeneratorCloses(w, s)
    <2>1. /\ task' = [task EXCEPT ![w][s] = NoTask]
          /\ ready' = [ready EXCEPT ![s] = @ \cup ({buffer[w][s]} \ {NoEvent})]
          /\ buffer' = [buffer EXCEPT ![w][s] = NoEvent]
          /\ UNCHANGED <<published, saved>>
      BY <1>8 DEF TaskStopsInIterator, GeneratorCloses, CloseConsumer
    <2>2. /\ \A v \in Worker : unreturned[v] \subseteq unreturned'[v]
          /\ task[w][s].event = e => e \in unreturned'[w]
      <3>1. CASE TaskStopsInIterator(w, s)
        BY <1>0, <3>1 DEF TaskStopsInIterator, ShardInv, Handling
      <3>2. CASE GeneratorCloses(w, s)
        BY <1>0, <3>2 DEF GeneratorCloses, QuorumTypeOK
      <3> QED BY <1>8, <3>1, <3>2
    <2>3. /\ e \in ready[ShardOf[e]] => e \in ready'[ShardOf[e]]
          /\ buffer[w][s] = e => e \in ready'[ShardOf[e]]
      BY <1>0, <2>1 DEF QuorumTypeOK, Held
    <2>4. \A v \in Worker, t \in Shard : v # w \/ t # s =>
              buffer'[v][t] = buffer[v][t] /\ task'[v][t] = task[v][t]
      BY <2>1 DEF QuorumTypeOK
    <2>5. \A v \in Worker, t \in Shard : Held(v, t, e) =>
              Held(v, t, e)' \/ e \in unreturned'[v] \/ e \in ready'[ShardOf[e]]
      BY <2>2, <2>3, <2>4 DEF Held
    <2> QED BY <2>1, <2>2, <2>3, <2>5, KeptStays
  <1> QED BY <1>2, <1>3, <1>5, <1>6, <1>7, <1>8 DEF ShardStep

\* A process that ends leaves its messages unacknowledged.
LEMMA ForgettingKeepsMessages ==
    ASSUME QuorumAssumption, QuorumTypeOK, NEW w \in Worker, ForgetMemory(w),
           NEW e \in Event, Kept(e)
    PROVE  Kept(e)' /\ published' = published
  <1>1. /\ unreturned'[w] = Unacked(w) /\ UNCHANGED <<published, ready, saved>>
        /\ \A v \in Worker \ {w} :
               UNCHANGED <<unreturned[v], task[v], buffer[v]>>
    BY DEF ForgetMemory, QuorumTypeOK
  <1>2. e \in unreturned[w] \/ (\E s \in Shard : Held(w, s, e)) => e \in Unacked(w)
    BY DEF Unacked, Held, QuorumAssumption
  <1>3. \A v \in Worker : e \in unreturned[v] => e \in unreturned'[v]
    BY <1>1, <1>2
  <1>4. \A v \in Worker, s \in Shard : Held(v, s, e) => Held(v, s, e)' \/ e \in unreturned'[v]
    BY <1>1, <1>2 DEF Held
  <1> QED BY <1>1, <1>3, <1>4, KeptStays

\* No step loses a message whose session is not durable.
LEMMA GoneKept ==
    ASSUME QuorumAssumption, LeaseTypeOK, QuorumTypeOK, QueuesInv,
           \A w \in Worker : Own(w), GoneIsSaved, [Next]_vars
    PROVE  GoneIsSaved'
  <1> USE DEF quorumVars, brokerVars, runtimeVars
  <1>0. \A e \in Event : published[e] > 0 => Kept(e)
    BY KeptSplit
  <1> SUFFICES ASSUME NEW e \in Event, published'[e] > 0
               PROVE  Kept(e)'
    <2>1. (\A e \in Event : published'[e] > 0 => Kept(e)') => GoneIsSaved'
      <3>1. \A e \in Event, w \in Worker : e \in Unacked(w)' <=>
                e \in unreturned'[w] \/ \E s \in Shard : Held(w, s, e)'
        BY DEF Unacked, Held, QuorumAssumption
      <3> QED BY <3>1 DEF GoneIsSaved, Kept
    <2> QED BY <2>1
  <1>1. ASSUME NEW f \in Event, Publish(f) PROVE Kept(e)'
    <2>1. CASE e = f
      <3>1. e \in ready'[ShardOf[e]]
        BY <1>1, <2>1 DEF Publish, QuorumTypeOK, QuorumAssumption
      <3> QED BY <3>1 DEF Kept
    <2>2. CASE e # f
      <3>1. /\ published'[e] = published[e]
            /\ e \in ready[ShardOf[e]] => e \in ready'[ShardOf[e]]
            /\ UNCHANGED <<unreturned, buffer, task, saved>>
        BY <1>1, <2>2 DEF Publish, QuorumTypeOK
      <3>2. Kept(e)
        BY <1>0, <3>1
      <3> QED BY <3>1, <3>2, KeptStays DEF Held
    <2> QED BY <2>1, <2>2
  <1>2. CASE UNCHANGED quorumVars
    <2>1. Kept(e)
      BY <1>0, <1>2
    <2> QED BY <1>2, <2>1, KeptStays DEF Held
  <1>3. ASSUME NEW w \in Worker, ForgetMemory(w) PROVE Kept(e)'
    <2>1. published' = published
      BY <1>3 DEF ForgetMemory
    <2> QED BY <1>0, <1>3, <2>1, ForgettingKeepsMessages
  <1>4. ASSUME NEW w \in Worker, NEW s \in Shard, ShardStep(w, s) PROVE Kept(e)'
    <2>1. CASE DeserializeFails(w, s)
      BY <1>3, <2>1 DEF DeserializeFails, ProcessEnds
    <2>2. CASE ~DeserializeFails(w, s)
      <3>1. published' = published
        BY <1>4, <2>2 DEF ShardStep, ReadSessions, FinishAcquire, CancelTask,
               TaskStopsInIterator, TaskStopsInBody, GeneratorCloses, CloseConsumer,
               FinishRelease, Consume, Deliver, TakeMessage, SaveSession, Activate,
               AckArrives, AckReturns
      <3> QED BY <1>0, <1>4, <2>2, <3>1, ShardKeepsMessages
    <2> QED BY <2>1, <2>2
  <1>5. ASSUME NEW w \in Worker, ConnectionCloses(w) PROVE Kept(e)'
    <2>1. /\ ready' = [s \in Shard |-> ready[s] \cup (unreturned[w] \cap SessionsOf(s))]
          /\ unreturned' = [unreturned EXCEPT ![w] = {}]
          /\ UNCHANGED <<published, buffer, task, saved>>
      BY <1>5 DEF ConnectionCloses
    <2>2. /\ e \in ready[ShardOf[e]] \/ e \in unreturned[w] => e \in ready'[ShardOf[e]]
          /\ \A v \in Worker \ {w} : unreturned'[v] = unreturned[v]
      BY <2>1 DEF SessionsOf, QuorumAssumption, QuorumTypeOK
    <2>3. Kept(e)
      BY <1>0, <2>1
    <2> QED BY <2>1, <2>2, <2>3 DEF Kept, Held
  <1>6. ASSUME NEW w \in Worker, WorkerStep(w) \/ Start(w) \/ ProcessEnds(w)
        PROVE  Kept(e)'
    BY <1>2, <1>3, <1>4, <1>5, <1>6 DEF WorkerStep, Lease, Start, ProcessEnds
  <1> QED BY <1>1, <1>2, <1>6 DEF Next, Lapse, vars

-----------------------------------------------------------------------------
(* Consumers.                                                              *)

\* The consumers of one queue, who is among them, and who comes first.
IsQueue(q) == q \in Seq(Worker) /\ \A i, j \in DOMAIN q : q[i] = q[j] => i = j
Among(v, q) == \E i \in DOMAIN q : q[i] = v
First(v, q) == q # <<>> /\ Head(q) = v

\* A consumer that registers comes behind the others.
LEMMA AppendQueue ==
    ASSUME NEW q, IsQueue(q), NEW w \in Worker, ~Among(w, q)
    PROVE  /\ IsQueue(Append(q, w))
           /\ \A v : v # w /\ Among(v, Append(q, w)) => Among(v, q)
           /\ \A v : First(v, q) => First(v, Append(q, w))
  <1> DEFINE r == Append(q, w)
  <1>1. q \in Seq(Worker) /\ Len(q) \in Nat /\ DOMAIN q = 1 .. Len(q)
    BY DEF IsQueue
  <1>2. /\ r \in Seq(Worker) /\ Len(r) = Len(q) + 1 /\ DOMAIN r = 1 .. Len(r)
        /\ \A i \in 1 .. Len(q) : r[i] = q[i]
        /\ r[Len(q) + 1] = w
    BY <1>1
  <1>3. q # <<>> => r # <<>> /\ Head(r) = Head(q)
    BY <1>1, <1>2
  <1> HIDE DEF r
  <1>4. ASSUME NEW i \in DOMAIN r, NEW j \in DOMAIN r, r[i] = r[j] PROVE i = j
    <2>1. i \in 1 .. Len(q) \/ i = Len(q) + 1
      BY <1>1, <1>2
    <2>2. j \in 1 .. Len(q) \/ j = Len(q) + 1
      BY <1>1, <1>2
    <2> QED BY <1>1, <1>2, <1>4, <2>1, <2>2 DEF IsQueue, Among
  <1>5. ASSUME NEW v, v # w, Among(v, r) PROVE Among(v, q)
    <2>1. PICK i \in DOMAIN r : r[i] = v
      BY <1>5 DEF Among
    <2>2. i \in 1 .. Len(q)
      BY <1>1, <1>2, <1>5, <2>1
    <2> QED BY <1>1, <1>2, <2>1, <2>2 DEF Among
  <1>6. IsQueue(r)
    BY <1>2, <1>4 DEF IsQueue
  <1>7. \A v : First(v, q) => First(v, r)
    BY <1>3 DEF First
  <1> QED BY <1>5, <1>6, <1>7 DEF r

\* A consumer that leaves is gone, and the one behind it moves up.
LEMMA WithoutQueue ==
    ASSUME NEW q, IsQueue(q), NEW w \in Worker
    PROVE  /\ IsQueue(Without(q, w)) /\ ~Among(w, Without(q, w))
           /\ \A v : Among(v, Without(q, w)) => Among(v, q)
           /\ \A v : v # w /\ First(v, q) => First(v, Without(q, w))
  <1>1. q \in Seq(Worker) /\ Len(q) \in Nat /\ DOMAIN q = 1 .. Len(q)
    BY DEF IsQueue
  <1>2. CASE \A i \in DOMAIN q : q[i] # w
    <2>1. Without(q, w) = q
      BY <1>2 DEF Without
    <2> QED BY <1>2, <2>1 DEF Among
  <1>3. CASE \E i \in DOMAIN q : q[i] = w
    <2> DEFINE p == CHOOSE i \in DOMAIN q : q[i] = w
               r == [i \in 1 .. Len(q) - 1 |-> IF i < p THEN q[i] ELSE q[i + 1]]
    <2>1. Without(q, w) = r
      BY <1>3 DEF Without
    <2>2. p \in 1 .. Len(q) /\ q[p] = w
      BY <1>1, <1>3
    <2> HIDE DEF p
    <2>3. /\ DOMAIN r = 1 .. Len(q) - 1 /\ Len(q) - 1 \in Nat
          /\ \A i \in 1 .. Len(q) - 1 :
                 \/ i < p /\ i \in 1 .. Len(q) /\ r[i] = q[i]
                 \/ ~(i < p) /\ i + 1 \in 1 .. Len(q) /\ r[i] = q[i + 1]
      BY <1>1, <2>2
    <2>4. \A i \in 1 .. Len(q) - 1 : r[i] \in Worker
      BY <1>1, <2>3
    <2>5. r \in Seq(Worker) /\ Len(r) = Len(q) - 1
      <3>1. r \in [1 .. Len(q) - 1 -> Worker]
        BY <2>4
      <3> QED BY <2>3, <3>1
    <2> HIDE DEF r
    <2>6. \A i, j \in 1 .. Len(q) : q[i] = q[j] => i = j
      BY <1>1 DEF IsQueue
    <2>7. ASSUME NEW i \in DOMAIN r, NEW j \in DOMAIN r, r[i] = r[j] PROVE i = j
      <3>1. i \in 1 .. Len(q) - 1 /\ j \in 1 .. Len(q) - 1
        BY <2>3
      <3>2. PICK k \in 1 .. Len(q) : r[i] = q[k] /\ (i < p => k = i) /\ (~(i < p) => k = i + 1)
        BY <2>3, <3>1
      <3>3. PICK l \in 1 .. Len(q) : r[j] = q[l] /\ (j < p => l = j) /\ (~(j < p) => l = j + 1)
        BY <2>3, <3>1
      <3>4. k = l
        BY <2>6, <2>7, <3>2, <3>3
      <3> QED BY <2>2, <3>1, <3>2, <3>3, <3>4
    <2>8. ~Among(w, r)
      <3> SUFFICES ASSUME NEW i \in 1 .. Len(q) - 1, r[i] = w PROVE FALSE
        BY <2>3 DEF Among
      <3>1. PICK k \in 1 .. Len(q) : r[i] = q[k] /\ (i < p => k = i) /\ (~(i < p) => k = i + 1)
        BY <2>3
      <3>2. k = p
        BY <2>2, <2>6, <3>1
      <3> QED BY <1>1, <2>2, <3>1, <3>2
    <2>9. ASSUME NEW v, Among(v, r) PROVE Among(v, q)
      <3>1. PICK i \in 1 .. Len(q) - 1 : r[i] = v
        BY <2>3, <2>9 DEF Among
      <3>2. \E k \in 1 .. Len(q) : r[i] = q[k]
        BY <2>3
      <3> QED BY <1>1, <3>1, <3>2 DEF Among
    <2>10. ASSUME NEW v, v # w, First(v, q) PROVE First(v, r)
      <3>1. q # <<>> /\ q[1] = v /\ Len(q) > 0
        BY <1>1, <2>10 DEF First
      <3>2. p # 1 /\ 1 < p /\ Len(q) - 1 >= 1
        BY <1>1, <2>2, <2>10, <3>1
      <3>3. r[1] = v /\ Len(r) >= 1
        BY <1>1, <2>3, <2>5, <3>1, <3>2
      <3> QED BY <2>5, <3>3 DEF First
    <2>11. IsQueue(r)
      BY <2>5, <2>7 DEF IsQueue
    <2> QED BY <2>1, <2>8, <2>9, <2>10, <2>11
  <1> QED BY <1>2, <1>3

\* What one worker has of one queue, and the consumers of all queues.
ConsumesInv(w, s) ==
    /\ buffer[w][s] # NoEvent \/ Handling(w, s) => First(w, consumers[s])
    /\ Up(w) /\ task[w][s].pc \in {"none", "starting"} => ~Among(w, consumers[s])
    /\ ~Up(w) => task[w][s] = NoTask /\ buffer[w][s] = NoEvent
Lines == consumers \in [Shard -> Seq(Worker)] /\ \A s \in Shard : IsQueue(consumers[s])

LEMMA ConsumerSplit ==
    ConsumerInv <=> Lines /\ \A w \in Worker, s \in Shard : ConsumesInv(w, s)
  BY DEF ConsumerInv, Lines, IsQueue, ConsumesInv, Active, Registered, First, Among

\* What a step of w may do to a queue's consumers.
LineStep(w, s) ==
    \A v \in Worker \ {w} :
        /\ Among(v, consumers'[s]) => Among(v, consumers[s])
        /\ First(v, consumers[s]) => First(v, consumers'[s])

LEMMA LineSame ==
    ASSUME NEW w \in Worker, NEW s \in Shard, consumers'[s] = consumers[s]
    PROVE  LineStep(w, s)
  BY DEF LineStep

\* A worker that does not step keeps what it has of a queue.
LEMMA OthersKeepConsuming ==
    ASSUME NEW w \in Worker, NEW v \in Worker \ {w}, NEW s \in Shard, ConsumesInv(v, s),
           task'[v] = task[v], buffer'[v] = buffer[v], loop'[v] = loop[v], LineStep(w, s)
    PROVE  ConsumesInv(v, s)'
  BY DEF ConsumesInv, Handling, Up, LineStep

\* The consumer of one queue leaves.
LEMMA ClosedLine ==
    ASSUME Lines, QuorumTypeOK, NEW w \in Worker, NEW s \in Shard, CloseConsumer(w, s)
    PROVE  /\ Lines' /\ ~Among(w, consumers'[s])
           /\ \A t \in Shard : LineStep(w, t)
           /\ \A t \in Shard \ {s} : consumers'[t] = consumers[t]
           /\ buffer'[w][s] = NoEvent
           /\ \A t \in Shard \ {s} : buffer'[w][t] = buffer[w][t]
  <1>1. consumers' = [consumers EXCEPT ![s] = Without(@, w)]
    BY DEF CloseConsumer
  <1>2. consumers'[s] = Without(consumers[s], w) /\ IsQueue(consumers[s])
    BY <1>1 DEF Lines
  <1>3. /\ IsQueue(consumers'[s]) /\ ~Among(w, consumers'[s])
        /\ LineStep(w, s)
    BY <1>2, WithoutQueue DEF LineStep
  <1>4. \A t \in Shard \ {s} : consumers'[t] = consumers[t]
    BY <1>1 DEF Lines
  <1>5. consumers' \in [Shard -> Seq(Worker)]
    BY <1>1, <1>2, <1>3 DEF Lines, IsQueue
  <1>6. Lines'
    BY <1>3, <1>4, <1>5 DEF Lines
  <1>7. \A t \in Shard : LineStep(w, t)
    BY <1>3, <1>4, LineSame
  <1>8. buffer'[w][s] = NoEvent /\ \A t \in Shard \ {s} : buffer'[w][t] = buffer[w][t]
    BY DEF CloseConsumer, QuorumTypeOK
  <1> QED BY <1>3, <1>4, <1>6, <1>7, <1>8

\* What a step of w has to do to keep the invariant of its queues.
ConsumesStep(w) ==
    /\ Lines' /\ \A t \in Shard : LineStep(w, t) /\ ConsumesInv(w, t)'

\* A step of one shard of a worker whose consumers stay.
LEMMA ShardConsumes ==
    ASSUME Lines, NEW w \in Worker, NEW s \in Shard, \A t \in Shard : ConsumesInv(w, t),
           consumers' = consumers, loop'[w] = loop[w],
           \A t \in Shard \ {s} : task'[w][t] = task[w][t] /\ buffer'[w][t] = buffer[w][t],
           ConsumesInv(w, s)'
    PROVE  ConsumesStep(w)
  <1>1. ASSUME NEW t \in Shard, t # s PROVE ConsumesInv(w, t)'
    BY <1>1 DEF ConsumesInv, Handling, Up
  <1>2. Lines' /\ \A t \in Shard : LineStep(w, t)
    BY LineSame DEF Lines
  <1> QED BY <1>1, <1>2 DEF ConsumesStep

\* The steps of one shard keep what the worker has of its queues.
LEMMA ShardKeepsConsuming ==
    ASSUME LoopInv, QuorumTypeOK, Lines, NEW w \in Worker, NEW s \in Shard,
           Own(w), \A t \in Shard : ConsumesInv(w, t),
           ShardStep(w, s), ~DeserializeFails(w, s)
    PROVE  ConsumesStep(w) /\ loop' = loop
  <1>0. ConsumesInv(w, s) /\ ShardInv(w, s)
    BY DEF Own
  <1>a. task[w][s].pc # "none" => Up(w)
    BY <1>0 DEF ConsumesInv, NoTask
  <1>b. change[w] # NoChange => Up(w)
    BY DEF LoopInv
  <1>1. ASSUME UNCHANGED <<task, buffer, consumers>>, loop' = loop
        PROVE  ConsumesStep(w)
    <2>1. ConsumesInv(w, s)'
      BY <1>0, <1>1 DEF ConsumesInv, Handling, Up
    <2> QED BY <1>1, <2>1, ShardConsumes
  <1>2. CASE ReadSessions(w, s) \/ CancelTask(w, s) \/ FinishRelease(w, s)
    BY <1>1, <1>2 DEF ReadSessions, CancelTask, FinishRelease, ChangeDone, leaseVars,
                      loopVars, brokerVars
  <1>3. CASE TaskStopsInIterator(w, s) \/ GeneratorCloses(w, s)
    <2>1. /\ task' = [task EXCEPT ![w][s] = NoTask] /\ CloseConsumer(w, s)
          /\ task[w][s].pc # "none" /\ loop' = loop
      BY <1>3 DEF TaskStopsInIterator, GeneratorCloses, leaseVars, loopVars
    <2>2. task'[w][s] = NoTask /\ \A t \in Shard \ {s} : task'[w][t] = task[w][t]
      BY <2>1 DEF QuorumTypeOK
    <2>3. /\ Lines' /\ ~Among(w, consumers'[s])
          /\ \A t \in Shard : LineStep(w, t)
          /\ \A t \in Shard \ {s} : consumers'[t] = consumers[t]
          /\ buffer'[w][s] = NoEvent
          /\ \A t \in Shard \ {s} : buffer'[w][t] = buffer[w][t]
      BY <2>1, ClosedLine
    <2>4. ConsumesInv(w, s)'
      BY <1>a, <2>1, <2>2, <2>3 DEF ConsumesInv, Handling, NoTask
    <2>5. ASSUME NEW t \in Shard, t # s PROVE ConsumesInv(w, t)'
      BY <2>1, <2>2, <2>3, <2>5 DEF ConsumesInv, Handling, Up
    <2> QED BY <2>1, <2>3, <2>4, <2>5 DEF ConsumesStep
  <1>4. CASE Consume(w, s)
    <2>1. /\ task[w][s].pc = "starting" /\ buffer' = buffer /\ loop' = loop
          /\ task' = [task EXCEPT ![w][s].pc = "waiting"]
          /\ consumers' = [consumers EXCEPT ![s] = Append(@, w)]
      BY <1>4 DEF Consume, Advance, leaseVars, loopVars
    <2>2. /\ task'[w][s].pc = "waiting"
          /\ \A t \in Shard \ {s} : task'[w][t] = task[w][t]
      BY <2>1 DEF QuorumTypeOK
    <2>3. IsQueue(consumers[s]) /\ ~Among(w, consumers[s]) /\ Up(w)
      BY <1>0, <1>a, <2>1 DEF Lines, ConsumesInv
    <2>4. /\ consumers'[s] = Append(consumers[s], w)
          /\ \A t \in Shard \ {s} : consumers'[t] = consumers[t]
      BY <2>1 DEF Lines
    <2>5. /\ IsQueue(consumers'[s]) /\ LineStep(w, s)
          /\ First(w, consumers[s]) => First(w, consumers'[s])
      BY <2>3, <2>4, AppendQueue DEF LineStep
    <2>6. Lines'
      <3>1. consumers' \in [Shard -> Seq(Worker)]
        BY <2>1, <2>4, <2>5 DEF Lines, IsQueue
      <3> QED BY <2>4, <2>5, <3>1 DEF Lines
    <2>7. ConsumesInv(w, s)'
      BY <1>0, <2>1, <2>2, <2>3, <2>5 DEF ConsumesInv, Handling, Up
    <2>8. ASSUME NEW t \in Shard, t # s PROVE ConsumesInv(w, t)'
      BY <2>1, <2>2, <2>4, <2>8 DEF ConsumesInv, Handling, Up
    <2> QED BY <2>1, <2>4, <2>5, <2>6, <2>7, <2>8, LineSame DEF ConsumesStep
  <1>5. CASE FinishAcquire(w, s)
    <2>1. /\ change[w] # NoChange /\ task[w][s] = NoTask
          /\ task' = [task EXCEPT ![w][s] = [pc |-> "starting", event |-> NoEvent]]
          /\ UNCHANGED <<buffer, consumers, loop>>
      BY <1>5, ChangesDiffer
         DEF FinishAcquire, ChangeDone, Own, Changes, brokerVars
    <2>2. /\ task'[w][s].pc = "starting"
          /\ \A t \in Shard \ {s} : task'[w][t] = task[w][t]
      BY <2>1 DEF QuorumTypeOK
    <2>3. ConsumesInv(w, s)'
      BY <1>0, <1>b, <2>1, <2>2 DEF ConsumesInv, Handling, Up, NoTask
    <2> QED BY <2>1, <2>2, <2>3, ShardConsumes
  <1>6. CASE Deliver(w, s)
    <2>1. /\ Up(w) /\ First(w, consumers[s]) /\ UNCHANGED <<task, consumers, loop>>
          /\ \E e : buffer' = [buffer EXCEPT ![w][s] = e]
      BY <1>6 DEF Deliver, Active, First, leaseVars, loopVars
    <2>2. \A t \in Shard \ {s} : buffer'[w][t] = buffer[w][t]
      BY <2>1 DEF QuorumTypeOK
    <2>3. ConsumesInv(w, s)'
      BY <1>0, <2>1 DEF ConsumesInv, Handling, Up
    <2> QED BY <2>1, <2>2, <2>3, ShardConsumes
  <1>7. CASE TakeMessage(w, s)
    <2>1. /\ task[w][s].pc = "waiting" /\ buffer[w][s] # NoEvent
          /\ task' = [task EXCEPT ![w][s] = [pc |-> "saving", event |-> buffer[w][s]]]
          /\ buffer' = [buffer EXCEPT ![w][s] = NoEvent]
          /\ UNCHANGED <<consumers, loop>>
      BY <1>7 DEF TakeMessage, leaseVars, loopVars
    <2>2. /\ task'[w][s].pc = "saving" /\ buffer'[w][s] = NoEvent
          /\ \A t \in Shard \ {s} :
                 task'[w][t] = task[w][t] /\ buffer'[w][t] = buffer[w][t]
      BY <2>1 DEF QuorumTypeOK
    <2>3. ConsumesInv(w, s)'
      BY <1>0, <1>a, <2>1, <2>2 DEF ConsumesInv, Handling, Up
    <2> QED BY <2>1, <2>2, <2>3, ShardConsumes
  <1>8. CASE \/ TaskStopsInBody(w, s) \/ SaveSession(w, s) \/ Activate(w, s)
             \/ AckArrives(w, s) \/ AckReturns(w, s)
    <2>1. /\ task[w][s].pc \notin {"none", "starting"}
          /\ UNCHANGED <<buffer, consumers, loop>>
      BY <1>8 DEF TaskStopsInBody, SaveSession, Activate, AckArrives, AckReturns,
                  leaseVars, loopVars, brokerVars
    <2>2. \/ task' = [task EXCEPT ![w][s] = [pc |-> "acked", event |-> NoEvent]]
          \/ \E q \in {"closing", "waiting"} : task' = [task EXCEPT ![w][s].pc = q]
          \/ /\ Handling(w, s)
             /\ \E q \in {"saved", "acking"} : task' = [task EXCEPT ![w][s].pc = q]
      BY <1>8 DEF TaskStopsInBody, SaveSession, Activate, AckArrives, AckReturns, Advance,
                  Handling
    <2>3. /\ task'[w][s].pc \notin {"none", "starting"}
          /\ Handling(w, s)' => Handling(w, s)
          /\ \A t \in Shard \ {s} : task'[w][t] = task[w][t]
      BY <2>2 DEF QuorumTypeOK, Handling
    <2>4. ConsumesInv(w, s)'
      BY <1>0, <1>a, <2>1, <2>3 DEF ConsumesInv, Up
    <2> QED BY <2>1, <2>3, <2>4, ShardConsumes
  <1>9. loop' = loop
    BY DEF ShardStep, ReadSessions, FinishAcquire, CancelTask, TaskStopsInIterator,
           TaskStopsInBody, GeneratorCloses, FinishRelease, Consume, Deliver, TakeMessage,
           SaveSession, Activate, AckArrives, AckReturns, ChangeDone, leaseVars, loopVars
  <1> QED BY <1>2, <1>3, <1>4, <1>5, <1>6, <1>7, <1>8, <1>9 DEF ShardStep

\* The other steps of a worker keep what it has of its queues.
LEMMA WorkerKeepsConsuming ==
    ASSUME LoopInv, LeaseTypeOK, QuorumTypeOK, Lines, NEW w \in Worker,
           Own(w), \A t \in Shard : ConsumesInv(w, t),
           WorkerStep(w) \/ Start(w) \/ ProcessEnds(w)
    PROVE  ConsumesStep(w) /\ \A v \in Worker \ {w} : loop'[v] = loop[v]
  <1>1. ASSUME EndLoop(w), ForgetMemory(w)
        PROVE  ConsumesStep(w) /\ \A v \in Worker \ {w} : loop'[v] = loop[v]
    <2>1. /\ loop'[w] = "off" /\ consumers' = consumers
          /\ \A v \in Worker \ {w} : loop'[v] = loop[v]
          /\ \A t \in Shard : task'[w][t] = NoTask /\ buffer'[w][t] = NoEvent
      BY <1>1 DEF EndLoop, ForgetMemory, QuorumTypeOK, LeaseTypeOK
    <2>2. \A t \in Shard : ConsumesInv(w, t)'
      BY <2>1 DEF ConsumesInv, Handling, Up, NoTask
    <2>3. Lines' /\ \A t \in Shard : LineStep(w, t)
      BY <2>1, LineSame DEF Lines
    <2> QED BY <2>1, <2>2, <2>3 DEF ConsumesStep
  <1>2. ASSUME UNCHANGED <<task, buffer, consumers>>, Up(w) <=> Up(w)'
        PROVE  ConsumesStep(w)
    <2>1. \A t \in Shard : ConsumesInv(w, t)'
      BY <1>2 DEF ConsumesInv, Handling
    <2>2. Lines' /\ \A t \in Shard : LineStep(w, t)
      BY <1>2, LineSame DEF Lines
    <2> QED BY <2>1, <2>2 DEF ConsumesStep
  <1>3. CASE ProcessEnds(w)
    BY <1>1, <1>3 DEF ProcessEnds
  <1>4. CASE Lease(w)
    <2>1. CASE loop'[w] = "off"
      BY <1>1, <1>4, <2>1 DEF Lease, LoopStep, RenewOwned, YieldReleased, ClaimAvailable,
                  YieldAcquired, Sleep, LeaseTypeOK
    <2>2. CASE loop'[w] # "off"
      <3>1. Up(w) /\ \A v \in Worker \ {w} : loop'[v] = loop[v]
        BY <1>4, <2>2 DEF Lease, LoopStep, RenewOwned, YieldReleased, ClaimAvailable,
                  YieldAcquired, Sleep, LeaseTypeOK, Up, EndLoop
      <3>2. UNCHANGED quorumVars
        BY <1>4, <2>2 DEF Lease
      <3> QED BY <1>2, <2>2, <3>1, <3>2 DEF Up, quorumVars, brokerVars
    <2> QED BY <2>1, <2>2
  <1>5. CASE Start(w)
    <2>1. /\ ~Up(w) /\ UNCHANGED <<task, buffer, consumers>>
          /\ \A v \in Worker \ {w} : loop'[v] = loop[v]
          /\ \A t \in Shard : ~Among(w, consumers[t])
      BY <1>5 DEF Start, StartLoop, Up, quorumVars, brokerVars, Registered, Among,
                  LeaseTypeOK
    <2>2. \A t \in Shard : ConsumesInv(w, t)'
      BY <2>1 DEF ConsumesInv, Handling, NoTask
    <2>3. Lines' /\ \A t \in Shard : LineStep(w, t)
      BY <2>1, LineSame DEF Lines
    <2> QED BY <2>1, <2>2, <2>3 DEF ConsumesStep
  <1>6. CASE ConnectionCloses(w)
    <2>1. /\ ~Up(w) /\ UNCHANGED <<task, buffer, loop>>
          /\ consumers' = [s \in Shard |-> Without(consumers[s], w)]
      BY <1>6 DEF ConnectionCloses, leaseVars, loopVars
    <2>2. ASSUME NEW s \in Shard
          PROVE  /\ IsQueue(consumers'[s]) /\ consumers'[s] \in Seq(Worker)
                 /\ LineStep(w, s)
      <3>1. consumers'[s] = Without(consumers[s], w) /\ IsQueue(consumers[s])
        BY <2>1 DEF Lines
      <3> QED BY <3>1, WithoutQueue DEF LineStep, IsQueue
    <2>3. Lines'
      BY <2>1, <2>2 DEF Lines
    <2>4. \A t \in Shard : ConsumesInv(w, t)'
      BY <2>1 DEF ConsumesInv, Handling, NoTask, Up
    <2> QED BY <2>1, <2>2, <2>3, <2>4 DEF ConsumesStep
  <1>7. ASSUME NEW s \in Shard, ShardStep(w, s)
        PROVE  ConsumesStep(w) /\ \A v \in Worker \ {w} : loop'[v] = loop[v]
    <2>1. CASE DeserializeFails(w, s)
      BY <1>3, <2>1 DEF DeserializeFails
    <2> QED BY <1>7, <2>1, ShardKeepsConsuming
  <1> QED BY <1>3, <1>4, <1>5, <1>6, <1>7 DEF WorkerStep

\* No step registers a process twice, or lets a consumer that is not the active
\* one have a message.
LEMMA ConsumersKept ==
    ASSUME QuorumAssumption, LoopInv, LeaseTypeOK, QuorumTypeOK, QueuesInv,
           \A v \in Worker : Own(v), ConsumerInv, [Next]_vars
    PROVE  ConsumerInv'
  <1>0. Lines /\ \A v \in Worker, s \in Shard : ConsumesInv(v, s)
    BY ConsumerSplit
  <1>1. ASSUME NEW w \in Worker, WorkerStep(w) \/ Start(w) \/ ProcessEnds(w)
        PROVE  Lines' /\ \A v \in Worker, s \in Shard : ConsumesInv(v, s)'
    <2>1. ConsumesStep(w) /\ \A v \in Worker \ {w} : loop'[v] = loop[v]
      BY <1>0, <1>1, WorkerKeepsConsuming
    <2>2. Apart(w)
      BY <1>1, WorkerKept
    <2>3. ASSUME NEW v \in Worker \ {w}, NEW s \in Shard PROVE ConsumesInv(v, s)'
      <3>1. task'[v] = task[v] /\ buffer'[v] = buffer[v]
        BY <2>2 DEF Apart, Memory
      <3> QED BY <1>0, <2>1, <3>1, OthersKeepConsuming DEF ConsumesStep
    <2> QED BY <2>1, <2>3 DEF ConsumesStep
  <1>2. ASSUME UNCHANGED <<task, buffer, consumers, loop>>
        PROVE  Lines' /\ \A v \in Worker, s \in Shard : ConsumesInv(v, s)'
    BY <1>0, <1>2 DEF Lines, ConsumesInv, Handling, Up
  <1>3. Lines' /\ \A v \in Worker, s \in Shard : ConsumesInv(v, s)'
    <2>1. CASE \E s \in Shard : Lapse(s)
      BY <1>2, <2>1 DEF Lapse, LapseUnheld, LapseHeld, loopVars, quorumVars, brokerVars
    <2>2. CASE \E e \in Event : Publish(e)
      BY <1>2, <2>2 DEF Publish, leaseVars, loopVars
    <2>3. CASE UNCHANGED vars
      BY <1>2, <2>3 DEF vars, leaseVars, loopVars, quorumVars, brokerVars
    <2> QED BY <1>1, <2>1, <2>2, <2>3 DEF Next
  <1>4. (Lines /\ \A v \in Worker, s \in Shard : ConsumesInv(v, s))' => ConsumerInv'
    BY DEF ConsumerInv, Lines, IsQueue, ConsumesInv, Active, Registered, First, Among
  <1> QED BY <1>3, <1>4

-----------------------------------------------------------------------------
(* Prepared owners.                                                        *)

\* What one worker has of the durable sessions of one shard.
IsPrepared(w, s) ==
    /\ change[w] = Acquired(s) /\ phase[w] = "restored" =>
           saved \cap SessionsOf(s) \subseteq snapshot[w]
    /\ HasTask(w, s) => \A e \in saved \cap SessionsOf(s) :
           e \in registry[w] \/ (task[w][s].pc = "saved" /\ task[w][s].event = e)

\* As long as nothing lapses, a shard that a worker has or is told of is its row.
LEMMA ShardIsRow ==
    ASSUME HoldersHaveLeases, lapses = 0, NEW w \in Worker, Own(w), NEW s \in Shard,
           HasTask(w, s) \/ change[w] = Acquired(s)
    PROVE  owner[s] = w /\ change[w] # Released(s)
  <1>1. change[w] # Released(s) /\ (s \in owned[w] => owner[s] = w)
    BY DEF HoldersHaveLeases, Holds
  <1>2. s \in owned[w]
    BY <1>1 DEF Own, ShardInv, Changes
  <1> QED BY <1>1, <1>2

\* A worker whose memory stays is as prepared as it was, when nothing is saved.
LEMMA PreparedStays ==
    ASSUME NEW w \in Worker, NEW s \in Shard, IsPrepared(w, s), UNCHANGED Memory(w),
           phase[w] = "restored" => change'[w] = change[w],
           saved' \cap SessionsOf(s) \subseteq saved
    PROVE  IsPrepared(w, s)'
  BY DEF IsPrepared, Memory, HasTask, SessionsOf

\* The steps of one shard of w keep all workers prepared.
LEMMA ShardKeepsPrepared ==
    ASSUME QuorumAssumption, LeaseTypeOK, HoldersHaveLeases, QuorumTypeOK, lapses = 0,
           \A v \in Worker : Own(v),
           \A v \in Worker, t \in Shard : IsPrepared(v, t),
           NEW w \in Worker, NEW s \in Shard, ShardStep(w, s), ~DeserializeFails(w, s),
           Apart(w), NEW v \in Worker, NEW t \in Shard
    PROVE  IsPrepared(v, t)'
  <1> USE DEF leaseVars, loopVars, brokerVars, runtimeVars
  <1>0. /\ Own(v) /\ Own(w) /\ IsPrepared(v, t) /\ ShardInv(w, s)
        /\ change[w] # Released(s)
    BY DEF Own, HoldersHaveLeases
  <1>1. CASE saved' # saved
    <2>1. /\ task[w][s].pc = "saving" /\ saved' = saved \cup {task[w][s].event}
          /\ task' = [task EXCEPT ![w][s].pc = "saved"]
          /\ UNCHANGED <<change, phase, snapshot, registry>>
      BY <1>1 DEF ShardStep, ReadSessions, FinishAcquire, CancelTask, TaskStopsInIterator,
             TaskStopsInBody, GeneratorCloses, FinishRelease, Consume, Deliver,
             TakeMessage, SaveSession, Activate, AckArrives, AckReturns, Advance
    <2>2. owner[s] = w
      BY <1>0, <2>1, ShardIsRow DEF HasTask
    <2>3. task[w][s].event \in Event /\ ShardOf[task[w][s].event] = s
      BY <1>0, <2>1 DEF ShardInv, Handling, SessionsOf
    <2>4. CASE t # s
      <3>1. saved' \cap SessionsOf(t) \subseteq saved
        BY <2>1, <2>3, <2>4 DEF SessionsOf
      <3>2. task'[v][t] = task[v][t]
        BY <2>1, <2>4 DEF QuorumTypeOK
      <3> QED BY <1>0, <2>1, <3>1, <3>2 DEF IsPrepared, HasTask, SessionsOf
    <2>5. CASE t = s /\ v # w
      <3>1. ~HasTask(v, t) /\ change[v] # Acquired(t)
        BY <1>0, <2>2, <2>5, ShardIsRow
      <3>2. task'[v][t] = task[v][t]
        BY <2>1, <2>5 DEF QuorumTypeOK
      <3> QED BY <2>1, <3>1, <3>2 DEF IsPrepared, HasTask
    <2>6. CASE t = s /\ v = w
      <3>1. task'[w][s].pc = "saved" /\ task'[w][s].event = task[w][s].event
        BY <2>1 DEF QuorumTypeOK
      <3>2. HasTask(w, s) /\ task[w][s].pc # "saved"
        BY <2>1 DEF HasTask
      <3>3. ~(change[w] = Acquired(s) /\ phase[w] = "restored")
        BY <1>0, <2>1 DEF Own, Changes, NoTask
      <3> QED BY <1>0, <2>1, <2>6, <3>1, <3>2, <3>3 DEF IsPrepared, HasTask, SessionsOf
    <2> QED BY <2>4, <2>5, <2>6
  <1>2. CASE saved' = saved /\ v # w
    <2>1. UNCHANGED Memory(v) /\ change'[v] = change[v]
      BY <1>2 DEF Apart
    <2> QED BY <1>0, <1>2, <2>1, PreparedStays
  <1>3. CASE saved' = saved /\ v = w
    <2> USE <1>0, <1>3
    <2>1. CASE ReadSessions(w, s)
      <3>1. /\ change[w] = Acquired(s) /\ UNCHANGED <<change, task, registry>>
            /\ snapshot'[w] = saved \cap SessionsOf(s)
        BY <2>1 DEF ReadSessions, QuorumTypeOK
      <3>2. change[w] = Acquired(t) => t = s
        BY <3>1, ChangesDiffer
      <3> QED BY <3>1, <3>2 DEF IsPrepared, HasTask, SessionsOf
    <2>2. CASE FinishAcquire(w, s)
      <3>1. /\ change[w] = Acquired(s) /\ phase[w] = "restored" /\ phase'[w] = "idle"
            /\ registry'[w] = registry[w] \cup snapshot[w]
            /\ task' = [task EXCEPT ![w][s] = [pc |-> "starting", event |-> NoEvent]]
        BY <2>2 DEF FinishAcquire, QuorumTypeOK
      <3>2. CASE t = s
        BY <3>1, <3>2 DEF IsPrepared, HasTask, SessionsOf
      <3>3. CASE t # s
        <4>1. task'[w][t] = task[w][t]
          BY <3>1, <3>3 DEF QuorumTypeOK
        <4> QED BY <3>1, <4>1 DEF IsPrepared, HasTask, SessionsOf
      <3> QED BY <3>2, <3>3
    <2>3. ~ (\/ CancelTask(w, s) \/ TaskStopsInIterator(w, s) \/ TaskStopsInBody(w, s)
             \/ FinishRelease(w, s))
      BY DEF CancelTask, TaskStopsInIterator, TaskStopsInBody, FinishRelease, Cancelled
    <2>4. ASSUME UNCHANGED <<change, phase, snapshot>>, registry[w] \subseteq registry'[w],
                 \A u \in Shard \ {s} : task'[w][u] = task[w][u],
                 HasTask(w, s)' => HasTask(w, s),
                 task[w][s].pc = "saved" => task[w][s].event \in registry'[w]
          PROVE  IsPrepared(w, t)'
      <3>1. CASE t = s
        BY <2>4, <3>1 DEF IsPrepared, SessionsOf
      <3>2. CASE t # s
        BY <2>4, <3>2 DEF IsPrepared, HasTask, SessionsOf
      <3> QED BY <3>1, <3>2
    <2>5. CASE \/ Consume(w, s) \/ GeneratorCloses(w, s) \/ TakeMessage(w, s)
               \/ AckArrives(w, s) \/ AckReturns(w, s)
      <3>1. /\ UNCHANGED <<change, phase, snapshot, registry>>
            /\ task[w][s].pc \in {"starting", "closing", "waiting", "acking", "acked"}
            /\ task[w][s].pc = "closing" => task' = [task EXCEPT ![w][s] = NoTask]
            /\ \E x : task' = [task EXCEPT ![w][s] = x]
        BY <2>5 DEF Consume, GeneratorCloses, TakeMessage, AckArrives, AckReturns, Advance,
                    QuorumTypeOK
      <3>2. /\ \A u \in Shard \ {s} : task'[w][u] = task[w][u]
            /\ task[w][s].pc = "closing" => task'[w][s] = NoTask
        BY <3>1 DEF QuorumTypeOK
      <3>3. HasTask(w, s)' => HasTask(w, s)
        BY <3>1, <3>2 DEF HasTask, NoTask
      <3> QED BY <2>4, <3>1, <3>2, <3>3
    <2>6. CASE Deliver(w, s)
      BY <2>6 DEF Deliver, IsPrepared, HasTask
    <2>7. CASE Activate(w, s)
      <3>1. /\ UNCHANGED <<change, phase, snapshot>>
            /\ task[w][s].pc = "saved"
            /\ task' = [task EXCEPT ![w][s].pc = "acking"]
            /\ registry'[w] = registry[w] \cup {task[w][s].event}
        BY <2>7 DEF Activate, Advance, QuorumTypeOK
      <3>2. \A u \in Shard \ {s} : task'[w][u] = task[w][u]
        BY <3>1 DEF QuorumTypeOK
      <3>3. HasTask(w, s)
        BY <3>1 DEF HasTask
      <3> QED BY <2>4, <3>1, <3>2, <3>3
    <2>8. CASE SaveSession(w, s)
      <3>1. /\ task[w][s].pc = "saving" /\ UNCHANGED <<change, phase, snapshot, registry>>
            /\ task' = [task EXCEPT ![w][s].pc = "saved"]
        BY <2>8 DEF SaveSession, Advance
      <3>2. \A u \in Shard \ {s} : task'[w][u] = task[w][u]
        BY <3>1 DEF QuorumTypeOK
      <3>3. HasTask(w, s)
        BY <3>1 DEF HasTask
      <3> QED BY <2>4, <3>1, <3>2, <3>3
    <2> QED BY <2>1, <2>2, <2>3, <2>5, <2>6, <2>7, <2>8 DEF ShardStep
  <1> QED BY <1>1, <1>2, <1>3

\* As long as nothing lapses, no step leaves an owner without a durable session.
LEMMA PreparedKept ==
    ASSUME QuorumAssumption, LeaseInv, QuorumTypeOK, QueuesInv, \A v \in Worker : Own(v),
           PreparedInv, [Next]_vars
    PROVE  PreparedInv'
  <1>0. /\ LeaseTypeOK /\ HoldersHaveLeases
        /\ lapses = 0 => \A v \in Worker, t \in Shard : IsPrepared(v, t)
    BY DEF PreparedInv, IsPrepared, LeaseInv
  <1> SUFFICES ASSUME lapses' = 0, NEW v \in Worker, NEW t \in Shard
               PROVE  IsPrepared(v, t)'
    BY DEF PreparedInv, IsPrepared
  <1>1. ASSUME NEW w \in Worker, EndLoop(w), ForgetMemory(w) PROVE IsPrepared(v, t)'
    <2>1. /\ phase'[w] = "idle" /\ task'[w] = [s \in Shard |-> NoTask] /\ saved' = saved
          /\ lapses = 0 /\ \A u \in Worker \ {w} : UNCHANGED <<Memory(u), change[u]>>
      BY <1>1 DEF EndLoop, ForgetMemory, QuorumTypeOK, LeaseTypeOK, Memory
    <2>2. CASE v = w
      BY <2>1, <2>2 DEF IsPrepared, HasTask, NoTask
    <2>3. CASE v # w
      BY <1>0, <2>1, <2>3, PreparedStays
    <2> QED BY <2>2, <2>3
  <1>2. ASSUME UNCHANGED quorumVars, lapses = 0,
               phase[v] = "restored" => change'[v] = change[v]
        PROVE  IsPrepared(v, t)'
    <2>1. IsPrepared(v, t) /\ UNCHANGED Memory(v) /\ saved' = saved
      BY <1>0, <1>2 DEF quorumVars, brokerVars, runtimeVars, Memory
    <2> QED BY <1>2, <2>1, PreparedStays
  <1>3. ASSUME NEW w \in Worker, Lease(w) PROVE IsPrepared(v, t)'
    <2>1. CASE loop'[w] = "off"
      BY <1>0, <1>1, <1>3, <2>1 DEF Lease, LoopStep, RenewOwned, YieldReleased,
             ClaimAvailable, YieldAcquired, Sleep, LeaseTypeOK
    <2>2. CASE loop'[w] # "off"
      <3>1. UNCHANGED quorumVars /\ lapses = 0
        BY <1>3, <2>2 DEF Lease, LoopStep, RenewOwned, YieldReleased, ClaimAvailable,
               YieldAcquired, Sleep, EndLoop
      <3>2. change'[v] # change[v] => change[v] = NoChange
        BY <1>0, <1>3, <2>2 DEF Lease, LoopStep, RenewOwned, YieldReleased,
               ClaimAvailable, YieldAcquired, Sleep, EndLoop, Resumed, LeaseTypeOK
      <3>3. phase[v] = "restored" => change[v] # NoChange
        BY DEF Own, Changes
      <3> QED BY <1>2, <3>1, <3>2, <3>3
    <2> QED BY <2>1, <2>2
  <1>4. ASSUME NEW w \in Worker, NEW s \in Shard, ShardStep(w, s) PROVE IsPrepared(v, t)'
    <2>1. CASE DeserializeFails(w, s)
      BY <1>1, <2>1 DEF DeserializeFails, ProcessEnds
    <2>2. CASE ~DeserializeFails(w, s)
      <3>1. Apart(w)
        BY <1>0, <1>4, WorkerKept DEF WorkerStep
      <3>2. lapses = 0
        BY <1>4, <2>2 DEF ShardStep, ReadSessions, FinishAcquire, CancelTask,
               TaskStopsInIterator, TaskStopsInBody, GeneratorCloses, FinishRelease,
               Consume, Deliver, TakeMessage, SaveSession, Activate, AckArrives,
               AckReturns, ChangeDone, leaseVars
      <3> QED BY <1>0, <1>4, <2>2, <3>1, <3>2, ShardKeepsPrepared
    <2> QED BY <2>1, <2>2
  <1>5. ASSUME NEW w \in Worker, ConnectionCloses(w) PROVE IsPrepared(v, t)'
    <2>1. UNCHANGED <<leaseVars, task, buffer, runtimeVars, registry, saved>>
      BY <1>5 DEF ConnectionCloses
    <2>2. UNCHANGED Memory(v) /\ change' = change /\ lapses = 0 /\ saved' = saved
      BY <2>1 DEF Memory, leaseVars, loopVars, runtimeVars
    <2> QED BY <1>0, <2>2, PreparedStays
  <1>6. ASSUME NEW w \in Worker, Start(w) PROVE IsPrepared(v, t)'
    BY <1>2, <1>6 DEF Start, StartLoop
  <1>7. ASSUME NEW s \in Shard, Lapse(s) PROVE IsPrepared(v, t)'
    BY <1>0, <1>2, <1>7 DEF Lapse, LapseUnheld, LapseHeld, loopVars, LeaseTypeOK
  <1>8. ASSUME NEW e \in Event, Publish(e) PROVE IsPrepared(v, t)'
    <2>1. UNCHANGED <<leaseVars, buffer, task, runtimeVars, registry, saved>>
      BY <1>8 DEF Publish
    <2>2. UNCHANGED Memory(v) /\ change' = change /\ lapses = 0 /\ saved' = saved
      BY <2>1 DEF Memory, leaseVars, loopVars, runtimeVars
    <2> QED BY <1>0, <2>2, PreparedStays
  <1>9. CASE UNCHANGED vars
    BY <1>2, <1>9 DEF vars, leaseVars, loopVars
  <1> QED BY <1>1, <1>3, <1>4, <1>5, <1>6, <1>7, <1>8, <1>9
          DEF Next, WorkerStep, ProcessEnds

-----------------------------------------------------------------------------
(* The theorems.                                                           *)

\* The workers implement the shard leases: the runtime hands every change back
\* before changes() goes on, and a process that ends leaves the loop.
THEOREM QuorumImplementsLeases == Spec => LeaseSpec
  <1>1. Init => LeaseInit
    BY DEF Init
  <1>2. [Next]_vars => [LeaseNext]_leaseVars
    BY StepIsLeaseStep
  <1> QED BY <1>1, <1>2, PTL DEF Spec, LeaseSpec

\* QuorumInv holds in every state: types, tasks and changes, consumers, prepared
\* owners, sessions, messages.
THEOREM QuorumCorrect == Spec => []QuorumInv
  <1>1. LeaseInit /\ Init => QuorumInv
    <2> SUFFICES ASSUME LeaseInit, Init PROVE QuorumInv
      OBVIOUS
    <2>1. QuorumTypeOK
      BY DEF Init, QuorumTypeOK, NoTask, TaskPc
    <2>2. QueuesInv
      BY DEF Init, QueuesInv
    <2>3. ASSUME NEW w \in Worker PROVE Own(w)
      BY ChangesDiffer
         DEF Init, LeaseInit, Own, Changes, Follows, ShardInv, HasTask, Handling, NoTask
    <2>4. GoneIsSaved
      BY DEF Init, GoneIsSaved
    <2>5. \A s \in Shard : consumers[s] = <<>> /\ IsQueue(consumers[s])
      BY DEF Init, IsQueue
    <2>6. Lines /\ \A w \in Worker, s \in Shard : ConsumesInv(w, s)
      BY <2>5 DEF Init, Lines, ConsumesInv, Handling, NoTask, Among
    <2>7. PreparedInv
      BY DEF Init, PreparedInv, HasTask, NoTask
    <2> QED BY <2>1, <2>2, <2>3, <2>4, <2>6, <2>7, OwnSplit, ConsumerSplit DEF QuorumInv
  <1>2. LeaseInv /\ QuorumInv /\ [Next]_vars => QuorumInv'
    <2> SUFFICES ASSUME LeaseInv, QuorumInv, [Next]_vars PROVE QuorumInv'
      OBVIOUS
    <2>1. /\ LeaseTypeOK /\ LoopInv /\ ConsumerInv /\ PreparedInv
          /\ QuorumTypeOK /\ QueuesInv /\ (\A w \in Worker : Own(w)) /\ GoneIsSaved
      BY OwnSplit DEF QuorumInv, LeaseInv
    <2>2. QuorumTypeOK' /\ QueuesInv' /\ \A w \in Worker : Own(w)'
      BY <2>1, OwnKept, QuorumAssumption
    <2>3. GoneIsSaved'
      BY <2>1, GoneKept, QuorumAssumption
    <2>4. ChangeInv' /\ TaskInv' /\ SessionsFollowShards'
      BY <2>2 DEF ChangeInv, TaskInv, SessionsFollowShards, QueuesInv, Own, Changes,
                  Follows, ShardInv
    <2>5. ConsumerInv' /\ PreparedInv'
      BY <2>1, ConsumersKept, PreparedKept, QuorumAssumption
    <2> QED BY <2>2, <2>3, <2>4, <2>5 DEF QuorumInv
  <1>3. Init => LeaseInit
    BY DEF Init
  <1> QED BY <1>1, <1>2, <1>3, QuorumImplementsLeases, LeaseCorrect, PTL DEF Spec

\* Sessions stay with their shard (run_owned_pricing_shards, the restore and the
\* release use cases): whenever and wherever the task of a lost shard is
\* cancelled, its worker keeps none of the sessions.
THEOREM SessionsStayWithShards == Spec => []SessionsFollowShards
  <1>1. QuorumInv => SessionsFollowShards
    BY DEF QuorumInv
  <1> QED BY <1>1, QuorumCorrect, PTL

\* At-least-once delivery (pricing_rfq_domain_events_subscriber.py): whatever is
\* cancelled, lapses or dies, a message leaves the broker only when its session
\* is durable.
THEOREM MessagesAreKept == Spec => []GoneIsSaved
  <1>1. QuorumInv => GoneIsSaved
    BY DEF QuorumInv
  <1> QED BY <1>1, QuorumCorrect, PTL

\* As long as no lease lapses under its holder, no two workers hold sessions of
\* one event, or run tasks of one shard.
THEOREM ShardsHaveOneOwner == Spec => []OneOwner
  <1>1. LeaseInv /\ QuorumInv => OneOwner
    <2> SUFFICES ASSUME LeaseInv, QuorumInv, lapses = 0,
                        NEW v \in Worker, NEW w \in Worker, v # w
                 PROVE  /\ registry[v] \cap registry[w] = {}
                        /\ \A s \in Shard : ~(HasTask(v, s) /\ HasTask(w, s))
      BY DEF OneOwner
    <2>1. ASSUME NEW s \in Shard, NEW u \in Worker,
                 s \in owned[u] \/ change[u] = Released(s)
          PROVE  owner[s] = u
      BY <2>1 DEF LeaseInv, HoldersHaveLeases, Holds
    <2>2. ASSUME NEW e \in registry[v], e \in registry[w] PROVE FALSE
      <3>1. e \in Event /\ ShardOf[e] \in Shard
        BY QuorumAssumption DEF QuorumInv, QuorumTypeOK, QuorumAssumption
      <3>2. owner[ShardOf[e]] = v /\ owner[ShardOf[e]] = w
        BY <2>1, <2>2, <3>1 DEF QuorumInv, SessionsFollowShards
      <3> QED BY <3>2
    <2>3. ASSUME NEW s \in Shard, HasTask(v, s), HasTask(w, s) PROVE FALSE
      <3>1. owner[s] = v /\ owner[s] = w
        BY <2>1, <2>3 DEF QuorumInv, TaskInv
      <3> QED BY <3>1
    <2> QED BY <2>2, <2>3
  <1> QED BY <1>1, QuorumCorrect, QuorumImplementsLeases, LeaseCorrect, PTL
\* "A and B of one shard are not handled at the same time" (run_owned_pricing_shards):
\* every message is handled by the queue's active consumer, and the consumers of a
\* queue are distinct, so no two workers handle one shard, lapses or not.
THEOREM HandlingHasOneWorker == Spec => []HandlingIsSerial
  <1>1. QuorumInv => HandlingIsSerial
    BY DEF QuorumInv, ConsumerInv, Active, HandlingIsSerial
  <1> QED BY <1>1, QuorumCorrect, PTL

\* A worker that consumes a shard has restored it, and nobody else has saved a
\* session of it since, as long as no lease lapses under its holder.
THEOREM OwnersArePrepared == Spec => []OwnerIsPrepared
  <1>1. QuorumInv => OwnerIsPrepared
    BY DEF QuorumInv, PreparedInv, OwnerIsPrepared
  <1> QED BY <1>1, QuorumCorrect, PTL

=============================================================================

----------------------------- MODULE ShardLease -----------------------------
(***************************************************************************)
(* PostgreSQL shard leases (PostgresPricingShardOwnership): the loop of    *)
(* changes(), which renews, reports lost shards, claims free ones and      *)
(* reports those, for every worker process against one lease table.        *)
(*                                                                         *)
(* A transaction is one action: a renewal locks its rows, and a claim      *)
(* skips the rows that others have locked.  Time is not a number but an    *)
(* event: a row is in expired from the moment its lease_until has passed.  *)
(* A change is handed to the runtime by yield, and the loop goes on only   *)
(* when the runtime asks for the next one (change is NoChange again).      *)
(***************************************************************************)
EXTENDS Integers, FiniteSets

CONSTANTS
    Worker,         \* worker processes, by their configured worker_id
    Shard,          \* rows of pricing_shard_lease
    NoWorker,       \* owner_id IS NULL
    MaxShards,      \* max_shards_per_worker
    MaxLapses,      \* bound: leases that pass under a process that holds them
    MaxSkips        \* bound: claims that skip a row locked by another

ASSUME LeaseAssumption ==
    /\ NoWorker \notin Worker
    /\ IsFiniteSet(Shard)
    /\ MaxShards \in Nat /\ MaxLapses \in Nat /\ MaxSkips \in Nat

VARIABLES
    owner,          \* per row: owner_id
    expired,        \* the rows with lease_until < now
    loop,           \* per worker: where changes() is, or "off"
    owned,          \* per worker: _owned
    todo,           \* per worker: the rest of lost or acquired
    change,         \* per worker: the change the runtime is working on
    lapses,         \* counted against MaxLapses
    skips           \* counted against MaxSkips

tableVars == <<owner, expired>>
loopVars == <<loop, owned, todo, change>>
leaseVars == <<tableVars, loopVars, lapses, skips>>

-----------------------------------------------------------------------------
Acquired(s) == [kind |-> "acquired", shard |-> s]
Released(s) == [kind |-> "released", shard |-> s]
NoChange == [kind |-> "none"]
Change == {Acquired(s) : s \in Shard} \cup {Released(s) : s \in Shard}

Up(w) == loop[w] # "off"

\* What w takes for its own: shards reported as acquired, or about to be.
Holds(w, s) == s \in owned[w] \/ (loop[w] = "gaining" /\ s \in todo[w])

LeaseInit ==
    /\ owner = [s \in Shard |-> NoWorker]
    /\ expired = {}
    /\ loop = [w \in Worker |-> "off"]
    /\ owned = [w \in Worker |-> {}]
    /\ todo = [w \in Worker |-> {}]
    /\ change = [w \in Worker |-> NoChange]
    /\ lapses = 0 /\ skips = 0

-----------------------------------------------------------------------------
(* The loop of changes().                                                  *)

\* A process starts with an empty _owned, whatever its rows say.
StartLoop(w) ==
    /\ loop[w] = "off"
    /\ loop' = [loop EXCEPT ![w] = "renewing"]
    /\ UNCHANGED <<tableVars, owned, todo, change, lapses, skips>>

\* _renew_owned: rows that are still its own, even expired ones, are
\* extended; the others are lost.
RenewOwned(w) ==
    LET lost == {s \in owned[w] : owner[s] # w} IN
    /\ loop[w] = "renewing"
    /\ expired' = expired \ (owned[w] \ lost)
    /\ todo' = [todo EXCEPT ![w] = lost]
    /\ loop' = [loop EXCEPT ![w] = "losing"]
    /\ UNCHANGED <<owner, owned, change, lapses, skips>>

\* The loop can take its next step: the runtime has done the last change.
Resumed(w) == change[w] = NoChange

\* yield PricingShardReleased
YieldReleased(w) ==
    /\ loop[w] = "losing" /\ Resumed(w)
    /\ \E s \in todo[w] :
        /\ owned' = [owned EXCEPT ![w] = @ \ {s}]
        /\ todo' = [todo EXCEPT ![w] = @ \ {s}]
        /\ change' = [change EXCEPT ![w] = Released(s)]
    /\ UNCHANGED <<tableVars, loop, lapses, skips>>

\* Mutant: rows are given out whether their lease has expired or not.
ClaimableEvenValid == Shard

\* Mutant: the rows of a dead owner are never free.
ClaimableUnowned == {s \in Shard : owner[s] = NoWorker}

\* WHERE owner_id IS NULL OR lease_until < now
Claimable == {s \in Shard : owner[s] = NoWorker} \cup expired

Capacity(w) == MaxShards - Cardinality(owned[w])

\* _claim_available: as many claimable rows as the limit allows, or fewer if
\* SKIP LOCKED passes over rows another transaction has locked.
ClaimAvailable(w) ==
    /\ loop[w] = "losing" /\ todo[w] = {} /\ Resumed(w)
    /\ Capacity(w) > 0
    /\ \E rows \in SUBSET Claimable :
        /\ Cardinality(rows) <= Capacity(w)
        /\ \/ /\ rows = Claimable \/ Cardinality(rows) = Capacity(w)
              /\ UNCHANGED skips
           \/ /\ rows # Claimable /\ Cardinality(rows) < Capacity(w)
              /\ skips < MaxSkips
              /\ skips' = skips + 1
        /\ owner' = [s \in Shard |-> IF s \in rows THEN w ELSE owner[s]]
        /\ expired' = expired \ rows
        /\ todo' = [todo EXCEPT ![w] = rows]
    /\ loop' = [loop EXCEPT ![w] = "gaining"]
    /\ UNCHANGED <<owned, change, lapses>>

\* A process ends: its memory is gone, its rows keep its name.
EndLoop(w) ==
    /\ Up(w)
    /\ loop' = [loop EXCEPT ![w] = "off"]
    /\ owned' = [owned EXCEPT ![w] = {}]
    /\ todo' = [todo EXCEPT ![w] = {}]
    /\ change' = [change EXCEPT ![w] = NoChange]
    /\ UNCHANGED <<tableVars, lapses, skips>>

\* yield PricingShardAcquired; for a shard that has a task already the
\* runtime raises "Shard already acquired", and the process ends.
YieldAcquired(w) ==
    /\ loop[w] = "gaining" /\ Resumed(w)
    /\ \E s \in todo[w] :
        IF s \in owned[w] THEN EndLoop(w)
        ELSE /\ owned' = [owned EXCEPT ![w] = @ \cup {s}]
             /\ todo' = [todo EXCEPT ![w] = @ \ {s}]
             /\ change' = [change EXCEPT ![w] = Acquired(s)]
             /\ UNCHANGED <<tableVars, loop, lapses, skips>>

\* Everything is reported, or there is no capacity left: asyncio.sleep(...),
\* and from the top.
Sleep(w) ==
    /\ todo[w] = {} /\ Resumed(w)
    /\ loop[w] = "gaining" \/ (loop[w] = "losing" /\ Capacity(w) <= 0)
    /\ loop' = [loop EXCEPT ![w] = "renewing"]
    /\ UNCHANGED <<tableVars, owned, todo, change, lapses, skips>>

\* The runtime has worked off the change and asks for the next one.
ChangeDone(w) ==
    /\ change[w] # NoChange
    /\ change' = [change EXCEPT ![w] = NoChange]
    /\ UNCHANGED <<tableVars, loop, owned, todo, lapses, skips>>

\* lease_until passes for a row nobody renews any more.
LapseUnheld(s) ==
    /\ owner[s] # NoWorker /\ s \notin expired
    /\ ~Holds(owner[s], s)
    /\ expired' = expired \cup {s}
    /\ UNCHANGED <<owner, loopVars, lapses, skips>>

\* lease_until passes under its holder: a long restore or release, a busy
\* event loop or a slow database has kept it from renewing in time.
LapseHeld(s) ==
    /\ owner[s] # NoWorker /\ s \notin expired
    /\ Holds(owner[s], s)
    /\ lapses < MaxLapses
    /\ lapses' = lapses + 1
    /\ expired' = expired \cup {s}
    /\ UNCHANGED <<owner, loopVars, skips>>

-----------------------------------------------------------------------------
LoopStep(w) ==
    \/ RenewOwned(w) \/ YieldReleased(w) \/ ClaimAvailable(w)
    \/ YieldAcquired(w) \/ Sleep(w)

LeaseNext ==
    \/ \E w \in Worker :
           LoopStep(w) \/ ChangeDone(w) \/ StartLoop(w) \/ EndLoop(w)
    \/ \E s \in Shard : LapseUnheld(s) \/ LapseHeld(s)

LeaseSpec == LeaseInit /\ [][LeaseNext]_leaseVars

-----------------------------------------------------------------------------
(* Properties.                                                             *)

\* The variables have the types of the objects they stand for.
LeaseTypeOK ==
    /\ owner \in [Shard -> Worker \cup {NoWorker}]
    /\ expired \in SUBSET Shard
    /\ loop \in [Worker -> {"off", "renewing", "losing", "gaining"}]
    /\ owned \in [Worker -> SUBSET Shard]
    /\ todo \in [Worker -> SUBSET Shard]
    /\ change \in [Worker -> Change \cup {NoChange}]
    /\ lapses \in Nat /\ skips \in Nat

\* As long as every holder renews in time, no two processes hold a shard, nor
\* does one process still release what another holds: restarts under the same
\* worker_id, dead owners and skipped rows included.
LeaseIsExclusive ==
    lapses = 0 =>
        \A v, w \in Worker, s \in Shard :
            v # w /\ Holds(v, s) =>
                ~Holds(w, s) /\ change[w] # Released(s)

\* A process never holds more shards than max_shards_per_worker, also while it
\* reports lost and claimed shards one by one.
CapacityIsRespected ==
    \A w \in Worker : Cardinality({s \in Shard : Holds(w, s)}) <= MaxShards

\* Every process stays up or stays down from some time on.
Settled == \A w \in Worker : <>[]Up(w) \/ <>[]~Up(w)

-----------------------------------------------------------------------------
(* The inductive invariant.                                                *)

\* Without a lapse, whoever holds a shard has its row and a lease that is not
\* over; so nothing is ever lost or released.
HoldersHaveLeases ==
    lapses = 0 =>
        \A w \in Worker :
            /\ \A s \in Shard : Holds(w, s) => owner[s] = w /\ s \notin expired
            /\ loop[w] = "losing" => todo[w] = {}
            /\ \A s \in Shard : change[w] # Released(s)

\* A process that is off remembers nothing; an expired row has an owner.
LoopInv ==
    /\ \A w \in Worker : ~Up(w) =>
           owned[w] = {} /\ todo[w] = {} /\ change[w] = NoChange
    /\ \A s \in expired : owner[s] # NoWorker

LeaseInv == LeaseTypeOK /\ LoopInv /\ HoldersHaveLeases /\ CapacityIsRespected
=============================================================================

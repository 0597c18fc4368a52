----------------------------- MODULE OutboxRelay -----------------------------
(***************************************************************************)
(* The transactional outbox: CreateRfqUseCase stores an event with its RFQ,*)
(* outbox publisher processes (OutboxWorker, PublishOutboxEventsUseCase)   *)
(* claim batches of events in PostgreSQL, publish them to the broker and   *)
(* mark them.                                                              *)
(*                                                                         *)
(* A transaction is one action, but for the claim: its SELECT ... FOR      *)
(* UPDATE SKIP LOCKED holds row locks until the commit, and what the other *)
(* workers do meanwhile depends on them.                                   *)
(*                                                                         *)
(* A claim_id is drawn anew for every execute().  All that the code asks   *)
(* of it is whether a row still has the claim_id of the execute() that     *)
(* runs, so a claim is the worker that runs, or Orphan when the execute()  *)
(* that drew it has ended.                                                 *)
(***************************************************************************)
EXTENDS Integers, FiniteSets

CONSTANTS
    Worker,         \* outbox publisher processes
    NoClaim,        \* claim_id and claimed_until are NULL
    Orphan,         \* a claim_id of an execute() that has ended
    Event,          \* outbox events, numbered by occurred_at
    Unroutable,     \* the events publish() refuses whenever it is tried
    Limit,          \* rows of one claim
    MaxFaults,      \* bound: crashes, broker errors and database errors
    MaxLapses       \* bound: claims that lapse while they are worked on

ASSUME ConstantsAssumption ==
    /\ Event \subseteq Nat
    /\ Unroutable \subseteq Event
    /\ Limit \in Nat \ {0}
    /\ NoClaim \notin Worker /\ Orphan \notin Worker /\ NoClaim # Orphan
    /\ MaxFaults \in Nat /\ MaxLapses \in Nat

VARIABLES
    stored,         \* outbox_event: the rows
    published,      \* outbox_event: rows with a published_at
    claim,          \* outbox_event: claim_id
    lapsed,         \* outbox_event: claimed rows whose claimed_until is over
    sent,           \* broker: copies of each event
    pc,             \* per worker: where execute() is
    batch,          \* per worker: the selected events not yet done with
    faults,         \* counted against MaxFaults
    lapses          \* counted against MaxLapses

rowVars == <<stored, published, claim, lapsed>>
vars == <<rowVars, sent, pc, batch, faults, lapses>>

-----------------------------------------------------------------------------
\* for event in events: ordered by occurred_at.
Current(w) == CHOOSE e \in batch[w] : \A f \in batch[w] : e <= f

\* Rows that a claim under way has selected for update.
Locked(e) == \E w \in Worker : pc[w] = "claiming" /\ e \in batch[w]

\* Mutant: the claim does not look at claimed_until.
ClaimableOnce(e) ==
    /\ e \in stored \ published
    /\ ~Locked(e)
    /\ claim[e] = NoClaim

\* Mutant: the claim does not look at the claims of others.
ClaimableAny(e) ==
    /\ e \in stored \ published
    /\ ~Locked(e)

\* Mutant: the rows are selected without a lock.
ClaimableUnlocked(e) ==
    /\ e \in stored \ published
    /\ claim[e] = NoClaim \/ e \in lapsed

\* WHERE of claim_pending, and SKIP LOCKED.
Claimable(e) ==
    /\ e \in stored \ published
    /\ ~Locked(e)
    /\ claim[e] = NoClaim \/ e \in lapsed

\* ORDER BY occurred_at LIMIT limit.
IsSelection(S) ==
    LET rows == {e \in Event : Claimable(e)} IN
    /\ S \subseteq rows /\ Cardinality(S) <= Limit
    /\ S # rows => Cardinality(S) = Limit
    /\ \A e \in S, f \in rows \ S : e <= f

\* The claim_id of w is of no use any more.
Orphaned(w) == [e \in Event |-> IF claim[e] = w THEN Orphan ELSE claim[e]]

Init ==
    /\ stored = {} /\ published = {} /\ lapsed = {}
    /\ claim = [e \in Event |-> NoClaim]
    /\ sent = [e \in Event |-> 0]
    /\ pc = [w \in Worker |-> "down"]
    /\ batch = [w \in Worker |-> {}]
    /\ faults = 0 /\ lapses = 0

-----------------------------------------------------------------------------
\* CreateRfqUseCase: the RFQ and its event are committed together, in any
\* order of their occurred_at.
Store(e) ==
    /\ e \notin stored
    /\ stored' = stored \cup {e}
    /\ UNCHANGED <<published, claim, lapsed, sent, pc, batch, faults, lapses>>

\* The process starts; nothing restarts it.
Start(w) ==
    /\ pc[w] = "down"
    /\ pc' = [pc EXCEPT ![w] = "idle"]
    /\ UNCHANGED <<rowVars, sent, batch, faults, lapses>>

\* The select of claim_pending.  Finding no row changes nothing: the worker
\* sleeps and polls again.
SelectPending(w) ==
    /\ pc[w] = "idle"
    /\ \E S \in SUBSET Event :
        /\ IsSelection(S) /\ S # {}
        /\ batch' = [batch EXCEPT ![w] = S]
    /\ pc' = [pc EXCEPT ![w] = "claiming"]
    /\ UNCHANGED <<rowVars, sent, faults, lapses>>

\* The claim is committed, the locks are gone.
CommitClaim(w) ==
    /\ pc[w] = "claiming"
    /\ claim' = [e \in Event |-> IF e \in batch[w] THEN w ELSE claim[e]]
    /\ lapsed' = lapsed \ batch[w]
    /\ pc' = [pc EXCEPT ![w] = "sending"]
    /\ UNCHANGED <<stored, published, sent, batch, faults, lapses>>

\* publish() has put the event into the topic.
Deliver(w) ==
    /\ pc[w] = "sending"
    /\ Current(w) \notin Unroutable
    /\ sent' = [sent EXCEPT ![Current(w)] = @ + 1]
    /\ pc' = [pc EXCEPT ![w] = "sent"]
    /\ UNCHANGED <<rowVars, batch, faults, lapses>>

\* publish() raises because of the event itself (resolve_topic).
Reject(w) ==
    /\ pc[w] = "sending"
    /\ Current(w) \in Unroutable
    /\ pc' = [pc EXCEPT ![w] = "failed"]
    /\ UNCHANGED <<rowVars, sent, batch, faults, lapses>>

\* The loop goes on to the next event of the batch, or execute() returns.
NextEvent(w) ==
    /\ batch' = [batch EXCEPT ![w] = @ \ {Current(w)}]
    /\ pc' = [pc EXCEPT ![w] =
                  IF batch[w] = {Current(w)} THEN "idle" ELSE "sending"]

\* The row keeps no claim.
Unclaim(e) ==
    /\ claim' = [claim EXCEPT ![e] = NoClaim]
    /\ lapsed' = lapsed \ {e}

\* Mutant: the mark does not ask whose claim it is.
MarkPublishedAnyClaim(w) ==
    /\ pc[w] = "sent" /\ ~Locked(Current(w))
    /\ IF Current(w) \notin published
       THEN published' = published \cup {Current(w)} /\ Unclaim(Current(w))
       ELSE UNCHANGED <<published, claim, lapsed>>
    /\ NextEvent(w)
    /\ UNCHANGED <<stored, sent, faults, lapses>>

\* mark_published: waits for the row lock; a row that has another claim or is
\* published by then is left alone.
MarkPublished(w) ==
    /\ pc[w] = "sent" /\ ~Locked(Current(w))
    /\ IF claim[Current(w)] = w /\ Current(w) \notin published
       THEN published' = published \cup {Current(w)} /\ Unclaim(Current(w))
       ELSE UNCHANGED <<published, claim, lapsed>>
    /\ NextEvent(w)
    /\ UNCHANGED <<stored, sent, faults, lapses>>

\* mark_failed: the event can be claimed again at once.
MarkFailed(w) ==
    /\ pc[w] = "failed" /\ ~Locked(Current(w))
    /\ IF claim[Current(w)] = w
       THEN Unclaim(Current(w))
       ELSE UNCHANGED <<claim, lapsed>>
    /\ NextEvent(w)
    /\ UNCHANGED <<stored, published, sent, faults, lapses>>

-----------------------------------------------------------------------------
(* Time and failures.                                                      *)

\* claimed_until passes while w still works on the claim; the rows of one
\* claim have one claimed_until.
ClaimLapses(w) ==
    /\ lapses < MaxLapses
    /\ \E e \in Event : claim[e] = w /\ e \notin lapsed
    /\ lapsed' = lapsed \cup {e \in Event : claim[e] = w}
    /\ lapses' = lapses + 1
    /\ UNCHANGED <<stored, published, claim, sent, pc, batch, faults>>

\* It passes for a claim that was given up.
OrphanLapses(e) ==
    /\ claim[e] = Orphan /\ e \notin lapsed
    /\ lapsed' = lapsed \cup {e}
    /\ UNCHANGED <<stored, published, claim, sent, pc, batch, faults, lapses>>

Fault ==
    /\ faults < MaxFaults
    /\ faults' = faults + 1

\* Mutant: an error of the broker is taken for success.
PublishRaisesUnseen(w) ==
    /\ pc[w] \in {"sending", "sent"}
    /\ Fault
    /\ pc' = [pc EXCEPT ![w] = "sent"]
    /\ UNCHANGED <<rowVars, sent, batch, lapses>>

\* publish() raises; the broker may have the event none the less.
PublishRaises(w) ==
    /\ pc[w] \in {"sending", "sent"}
    /\ Fault
    /\ pc' = [pc EXCEPT ![w] = "failed"]
    /\ UNCHANGED <<rowVars, sent, batch, lapses>>

\* execute() ends early: the rest of the batch stays as it is.
LeaveBatch(w, next) ==
    /\ batch' = [batch EXCEPT ![w] = {}]
    /\ pc' = [pc EXCEPT ![w] = next]

\* The transaction of the claim raises: it is rolled back, or its commit has
\* come through and nobody knows the claim.
ClaimRaises(w) ==
    /\ pc[w] = "claiming"
    /\ Fault
    /\ LeaveBatch(w, "idle")
    /\ \/ UNCHANGED <<claim, lapsed>>
       \/ /\ claim' = [e \in Event |-> IF e \in batch[w] THEN Orphan ELSE claim[e]]
          /\ lapsed' = lapsed \ batch[w]
    /\ UNCHANGED <<stored, published, sent, lapses>>

\* The transaction of a mark raises, rolled back or not; run() catches the
\* exception and starts the next execute().
MarkRaises(w) ==
    /\ pc[w] \in {"sent", "failed"} /\ ~Locked(Current(w))
    /\ Fault
    /\ LeaveBatch(w, "idle")
    /\ \/ /\ claim' = Orphaned(w)
          /\ UNCHANGED <<published, lapsed>>
       \/ /\ claim[Current(w)] = w
          /\ pc[w] = "sent" => Current(w) \notin published
          /\ published' = IF pc[w] = "sent" THEN published \cup {Current(w)}
                          ELSE published
          /\ claim' = [Orphaned(w) EXCEPT ![Current(w)] = NoClaim]
          /\ lapsed' = lapsed \ {Current(w)}
    /\ UNCHANGED <<stored, sent, lapses>>

\* The process is gone; PostgreSQL rolls back what it had not committed.
Crash(w) ==
    /\ pc[w] # "down"
    /\ Fault
    /\ LeaveBatch(w, "down")
    /\ claim' = Orphaned(w)
    /\ UNCHANGED <<stored, published, lapsed, sent, lapses>>

-----------------------------------------------------------------------------
WorkerStep(w) ==
    \/ SelectPending(w) \/ CommitClaim(w) \/ Deliver(w) \/ Reject(w)
    \/ MarkPublished(w) \/ MarkFailed(w)

WorkerFault(w) ==
    \/ ClaimLapses(w) \/ PublishRaises(w) \/ ClaimRaises(w) \/ MarkRaises(w)
    \/ Crash(w) \/ Start(w)

Next ==
    \/ \E e \in Event : Store(e) \/ OrphanLapses(e)
    \/ \E w \in Worker : WorkerStep(w) \/ WorkerFault(w)

Spec == Init /\ [][Next]_vars

\* The loop of a worker that is up goes on, the database and the broker
\* answer, and time passes.
Fairness ==
    /\ \A w \in Worker : WF_vars(WorkerStep(w))
    /\ \A e \in Event : WF_vars(OrphanLapses(e))

FairSpec == Spec /\ Fairness

-----------------------------------------------------------------------------
(* Properties.                                                             *)

\* Only rows have claims, and only claimed rows a claimed_until.
RowTypes ==
    /\ stored \in SUBSET Event /\ published \in SUBSET stored
    /\ claim \in [Event -> Worker \cup {NoClaim, Orphan}]
    /\ \A e \in Event \ stored : claim[e] = NoClaim
    /\ lapsed \in SUBSET {e \in stored : claim[e] # NoClaim}

WorkerTypes ==
    /\ pc \in [Worker -> {"down", "idle", "claiming", "sending", "sent", "failed"}]
    /\ batch \in [Worker -> SUBSET stored]

\* The variables have the types of the objects they stand for.
TypeOK ==
    /\ RowTypes /\ WorkerTypes
    /\ sent \in [Event -> Nat]
    /\ faults \in Nat /\ lapses \in Nat

\* A published event is never in a claim again: nobody takes a row between
\* its selection and its claim.
PublishedIsUnclaimed == \A e \in published : claim[e] = NoClaim

\* Two workers work on the same event only after a claim has lapsed under the
\* one that was at it.
OneClaimant ==
    lapses = 0 => \A v, w \in Worker : v # w => batch[v] \cap batch[w] = {}

\* A claim in force is given up by its own worker only, when it is done with the
\* row: neither the claim of another worker nor the late mark of one whose own
\* claim has lapsed takes it away.
ClaimInForceIsKept ==
    [][\A w \in Worker, e \in Event :
           claim[e] = w /\ e \notin lapsed /\ claim'[e] # w => e \notin batch'[w]]_vars

\* Every copy but the first has its cause: an error, a crash, or a claim that
\* was too short.
CopiesAreExplained == \A e \in Event : sent[e] <= 1 + faults + lapses

\* The outbox keeps its promise.
Relay == INSTANCE AtLeastOnceRelay WITH Event <- Event

RelaySpec == Relay!Spec

\* While some worker stays up, every stored event that can be published is
\* published and marked in the end, past claims of dead workers and events
\* that fail again and again.
EventuallyPublished ==
    (\E w \in Worker : <>[](pc[w] # "down")) =>
        \A e \in Event \ Unroutable : e \in stored ~> e \in published

-----------------------------------------------------------------------------
(* The inductive invariant.  OneClaimant and PublishedIsUnclaimed follow   *)
(* from it, and that every step is one of the abstract relay.              *)

Active(w) == pc[w] \in {"sending", "sent", "failed"}

\* What a worker has in its batch, and which claims are its own.
BatchInv(w) ==
    /\ pc[w] \in {"down", "idle"} <=> batch[w] = {}
    /\ pc[w] = "claiming" =>
        \A e \in batch[w] : e \notin published /\ (claim[e] = NoClaim \/ e \in lapsed)
    /\ \A e \in Event : claim[e] = w => Active(w) /\ e \in batch[w]
    /\ pc[w] = "sent" => sent[Current(w)] > 0

\* No row has two locks.
LocksAreDisjoint ==
    \A v, w \in Worker : v # w /\ pc[v] = "claiming" /\ pc[w] = "claiming" =>
        batch[v] \cap batch[w] = {}

\* As long as no claim lapses under its worker, only orphans lapse, and a
\* worker has the claim of everything in its batch.
NoLapseInv ==
    lapses = 0 =>
        /\ \A e \in lapsed : claim[e] = Orphan
        /\ \A w \in Worker : Active(w) => \A e \in batch[w] : claim[e] = w

InductiveInv ==
    /\ TypeOK /\ PublishedIsUnclaimed /\ LocksAreDisjoint /\ NoLapseInv
    /\ \A w \in Worker : BatchInv(w)

\* Worker w has event e in hand and may still publish it.
Turn(w, e) == e \in batch[w] /\ ~(pc[w] = "sent" /\ e = Current(w))

Turns(e) == {w \in Worker : Turn(w, e)}

\* A worker may come to claim event e before anything else goes wrong.
Open(e) ==
    /\ e \notin published /\ ~Locked(e)
    /\ claim[e] \in {NoClaim, Orphan} \/ e \in lapsed

One(P) == IF P THEN 1 ELSE 0

\* The copies of an event, and those that may still come with no further
\* failure, are within what the failures explain.
CopiesInv ==
    \A e \in Event :
        /\ IsFiniteSet(Turns(e))
        /\ sent[e] + Cardinality(Turns(e)) + One(Open(e)) <= 1 + faults + lapses
=============================================================================

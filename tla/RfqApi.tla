-------------------------------- MODULE RfqApi --------------------------------
(***************************************************************************)
(* The RFQ endpoints of the API process: POST /rfq, PATCH /rfq/{id},       *)
(* POST /rfq/{id}:stop-pricing, GET /rfq and GET /rfq/{id}, their use      *)
(* cases, and the unit of work each of them runs in.                       *)
(*                                                                         *)
(* A call is one request.  Calls interleave between their steps; what a    *)
(* call has given to its session is seen by nobody before its commit.  The *)
(* uuid4 of a new RFQ is the call that drew it.                            *)
(***************************************************************************)
EXTENDS Integers

CONSTANTS
    Call,           \* requests to the API
    Product,        \* swaps
    NoRfq,          \* no row, no object
    MaxFaults       \* bound: database errors and crashes of the process

ASSUME RfqApiAssumption == MaxFaults \in Nat

Rfq == [id : Call, revision : Nat \ {0}, product : Product]

ASSUME NoRfqAssumption == NoRfq \notin Rfq

VARIABLES
    rfqs,           \* rfqs: the committed row of each rfq_id
    outbox,         \* outbox_event: the committed rfq.registered events
    op,             \* per call: its endpoint
    pc,             \* per call: where the use case is, or how it was answered
    target,         \* per call: the rfq_id it is about
    rfq,            \* per call: the RequestForQuote in the hands of the use case
    row,            \* per call: the row in its session
    events,         \* per call: the outbox events in its session
    seen,           \* per call: the RFQs in its answer
    faults          \* counted against MaxFaults

tableVars == <<rfqs, outbox>>
callVars == <<op, pc, target, rfq, row, events, seen>>
vars == <<tableVars, callVars, faults>>

Answers == {"idle", "ok", "error", "lost"}
Running(c) == pc[c] \notin Answers

\* register: revision 1, and one domain event recorded; change_product records
\* none.
Registered(id, p) == [id |-> id, revision |-> 1, product |-> p]
Changed(r, p) == [r EXCEPT !.product = p, !.revision = @ + 1]

Stored == {rfqs[i] : i \in {j \in Call : rfqs[j] # NoRfq}}

Init ==
    /\ rfqs = [c \in Call |-> NoRfq] /\ outbox = {}
    /\ op = [c \in Call |-> "none"] /\ pc = [c \in Call |-> "idle"]
    /\ target = [c \in Call |-> c]
    /\ rfq = [c \in Call |-> NoRfq] /\ row = [c \in Call |-> NoRfq]
    /\ events = [c \in Call |-> {}] /\ seen = [c \in Call |-> {}]
    /\ faults = 0

-----------------------------------------------------------------------------
(* The request comes in.                                                   *)

\* create draws the rfq_id and registers the RFQ.
Create(c) ==
    /\ pc[c] = "idle"
    /\ \E p \in Product : rfq' = [rfq EXCEPT ![c] = Registered(c, p)]
    /\ op' = [op EXCEPT ![c] = "create"]
    /\ pc' = [pc EXCEPT ![c] = "loaded"]
    /\ UNCHANGED <<tableVars, target, row, events, seen, faults>>

\* change, stop, get and list open a unit of work and start reading.
Open(c, kind) ==
    /\ pc[c] = "idle"
    /\ \E i \in Call : target' = [target EXCEPT ![c] = i]
    /\ op' = [op EXCEPT ![c] = kind]
    /\ pc' = [pc EXCEPT ![c] = "open"]
    /\ UNCHANGED <<tableVars, rfq, row, events, seen, faults>>

\* __aexit__ of the unit of work with an exception, and the answer 500.
RollBack(c) ==
    /\ pc' = [pc EXCEPT ![c] = "error"]
    /\ row' = [row EXCEPT ![c] = NoRfq]
    /\ events' = [events EXCEPT ![c] = {}]

-----------------------------------------------------------------------------
(* The steps of the use cases.                                             *)

\* change: get_by_id, with_change, change_product.
Load(c) ==
    /\ op[c] = "change" /\ pc[c] = "open" /\ rfqs[target[c]] # NoRfq
    /\ \E p \in Product : rfq' = [rfq EXCEPT ![c] = Changed(rfqs[target[c]], p)]
    /\ pc' = [pc EXCEPT ![c] = "loaded"]
    /\ UNCHANGED <<tableVars, op, target, row, events, seen, faults>>

\* change and get raise RuntimeError when there is no such RFQ.
NotFound(c) ==
    /\ op[c] \in {"change", "get"} /\ pc[c] = "open" /\ rfqs[target[c]] = NoRfq
    /\ RollBack(c)
    /\ UNCHANGED <<tableVars, op, target, rfq, seen, faults>>

\* Mutant: save commits by itself.
SaveCommits(c) ==
    /\ pc[c] = "loaded"
    /\ rfqs' = [rfqs EXCEPT ![rfq[c].id] = rfq[c]]
    /\ row' = [row EXCEPT ![c] = rfq[c]]
    /\ pc' = [pc EXCEPT ![c] = "saved"]
    /\ UNCHANGED <<outbox, op, target, rfq, events, seen, faults>>

\* save: the row goes into the session, with merge.
Save(c) ==
    /\ pc[c] = "loaded"
    /\ row' = [row EXCEPT ![c] = rfq[c]]
    /\ pc' = [pc EXCEPT ![c] = "saved"]
    /\ UNCHANGED <<tableVars, op, target, rfq, events, seen, faults>>

\* Mutant: the handler writes the event in a transaction of its own.
DispatchAtOnce(c) ==
    /\ op[c] = "create" /\ pc[c] = "saved"
    /\ outbox' = outbox \cup {rfq[c]}
    /\ pc' = [pc EXCEPT ![c] = "dispatched"]
    /\ UNCHANGED <<rfqs, op, target, rfq, row, events, seen, faults>>

\* create: pull_domain_events, the dispatcher, RfqRegisteredHandler, and add.
Dispatch(c) ==
    /\ op[c] = "create" /\ pc[c] = "saved"
    /\ events' = [events EXCEPT ![c] = @ \cup {rfq[c]}]
    /\ pc' = [pc EXCEPT ![c] = "dispatched"]
    /\ UNCHANGED <<tableVars, op, target, rfq, row, seen, faults>>

\* What a commit puts into the tables.
Written(c) ==
    /\ rfqs' = [rfqs EXCEPT ![row[c].id] = row[c]]
    /\ outbox' = outbox \cup events[c]

Commit(c) ==
    /\ op[c] = "create" /\ pc[c] = "dispatched"
    /\ Written(c)
    /\ row' = [row EXCEPT ![c] = NoRfq]
    /\ events' = [events EXCEPT ![c] = {}]
    /\ pc' = [pc EXCEPT ![c] = "committed"]
    /\ UNCHANGED <<op, target, rfq, seen, faults>>

\* Mutant: the answer does not wait for the commit.
RespondEarly(c) ==
    /\ op[c] = "create" /\ pc[c] = "dispatched"
    /\ seen' = [seen EXCEPT ![c] = {rfq[c]}]
    /\ pc' = [pc EXCEPT ![c] = "ok"]
    /\ UNCHANGED <<tableVars, op, target, rfq, row, events, faults>>

\* create: 201 with the rfq_id and revision 1.
Respond(c) ==
    /\ pc[c] = "committed"
    /\ seen' = [seen EXCEPT ![c] = {rfq[c]}]
    /\ pc' = [pc EXCEPT ![c] = "ok"]
    /\ UNCHANGED <<tableVars, op, target, rfq, row, events, faults>>

\* change: the unit of work has no get_pricing_request_repository.
ChangeFails(c) ==
    /\ op[c] = "change" /\ pc[c] = "saved"
    /\ RollBack(c)
    /\ UNCHANGED <<tableVars, op, target, rfq, seen, faults>>

\* stop: OutboxEvent is built without four of its fields.
StopFails(c) ==
    /\ op[c] = "stop" /\ pc[c] = "open"
    /\ RollBack(c)
    /\ UNCHANGED <<tableVars, op, target, rfq, seen, faults>>

\* get and list answer with committed rows.
Read(c) ==
    /\ pc[c] = "open"
    /\ \/ op[c] = "get" /\ rfqs[target[c]] # NoRfq
          /\ seen' = [seen EXCEPT ![c] = {rfqs[target[c]]}]
       \/ op[c] = "list" /\ seen' = [seen EXCEPT ![c] = Stored]
    /\ pc' = [pc EXCEPT ![c] = "ok"]
    /\ UNCHANGED <<tableVars, op, target, rfq, row, events, faults>>

-----------------------------------------------------------------------------
(* Faults.                                                                 *)

Fault == faults < MaxFaults /\ faults' = faults + 1

\* The database raises at the await the call is in.
DatabaseFails(c) ==
    /\ Running(c) /\ pc[c] # "committed"
    /\ Fault
    /\ RollBack(c)
    /\ UNCHANGED <<tableVars, op, target, rfq, seen>>

\* The commit came through, its confirmation did not.
CommitUnconfirmed(c) ==
    /\ op[c] = "create" /\ pc[c] = "dispatched"
    /\ Fault
    /\ Written(c)
    /\ RollBack(c)
    /\ UNCHANGED <<op, target, rfq, seen>>

\* The process is gone, with every call in it.
Crash ==
    /\ Fault
    /\ pc' = [c \in Call |-> IF Running(c) THEN "lost" ELSE pc[c]]
    /\ row' = [c \in Call |-> NoRfq]
    /\ events' = [c \in Call |-> {}]
    /\ UNCHANGED <<tableVars, op, target, rfq, seen>>

-----------------------------------------------------------------------------
CallStep(c) ==
    \/ Create(c) \/ (\E kind \in {"change", "stop", "get", "list"} : Open(c, kind))
    \/ Load(c) \/ NotFound(c) \/ Save(c) \/ Dispatch(c) \/ Commit(c)
    \/ Respond(c) \/ ChangeFails(c) \/ StopFails(c) \/ Read(c)

Next ==
    \/ \E c \in Call : CallStep(c) \/ DatabaseFails(c) \/ CommitUnconfirmed(c)
    \/ Crash

Spec == Init /\ [][Next]_vars

-----------------------------------------------------------------------------
(* Properties.                                                             *)

CallTypes ==
    /\ op \in [Call -> {"none", "create", "change", "stop", "get", "list"}]
    /\ pc \in [Call -> Answers \cup
                       {"open", "loaded", "saved", "dispatched", "committed"}]
    /\ target \in [Call -> Call]
    /\ rfq \in [Call -> Rfq \cup {NoRfq}] /\ row \in [Call -> Rfq \cup {NoRfq}]
    /\ events \in [Call -> SUBSET Rfq] /\ seen \in [Call -> SUBSET Rfq]

\* The variables have the types of the objects they stand for.
TypeOK ==
    /\ rfqs \in [Call -> Rfq \cup {NoRfq}] /\ outbox \in SUBSET Rfq
    /\ CallTypes
    /\ faults \in Nat

\* The RFQ that a call creates, from register() to its answer.
CreateInv(c) ==
    /\ pc[c] = "idle" => op[c] = "none"
    /\ pc[c] \in {"dispatched", "committed"} => op[c] = "create"
    /\ op[c] = "create" => rfq[c] # NoRfq /\ rfq[c].id = c /\ rfq[c].revision = 1
    /\ pc[c] \in {"loaded", "saved"} => rfq[c] # NoRfq
    /\ op[c] = "create" /\ pc[c] \in {"loaded", "saved", "dispatched"} => rfqs[c] = NoRfq
    /\ pc[c] = "committed" => rfqs[c] = rfq[c]
    /\ rfqs[c] # NoRfq => op[c] = "create" /\ rfqs[c] = rfq[c]

\* What is in its session.
SessionInv(c) ==
    /\ row[c] # NoRfq <=> pc[c] \in {"saved", "dispatched"}
    /\ row[c] # NoRfq => row[c] = rfq[c]
    /\ events[c] = IF pc[c] = "dispatched" THEN {rfq[c]} ELSE {}

\* The inductive invariant.  Only create ever commits.
RfqInv == TypeOK /\ \A c \in Call : CreateInv(c) /\ SessionInv(c)

\* "RFQ状態とLifecycle Messagingの整合性": whatever fails, an RFQ is stored if and
\* only if its event is in the outbox, and they agree on revision and product.
\* (Only create commits in the present code, so no event is of an older revision.)
RfqHasItsEvent == outbox = Stored

\* An answer is kept: what create has answered with, and what get and list have
\* shown, is stored and announced, now and after every crash.  (In the present
\* code it is so in the revision that was shown.)
AnswersAreKept == \A c \in Call : pc[c] = "ok" => seen[c] \subseteq Stored \cap outbox

\* The API keeps what the registry promises: in no step does a row appear, or
\* get a new revision, without the event for it, in no step an event without the
\* row, and what a request has saved when it fails is nowhere to be seen.  The
\* registry also has the change that the README describes; no request takes it.
Registry == INSTANCE RfqRegistry WITH
    Id <- Call, registered <- Stored, announced <- outbox

RegistrySpec == Registry!Spec
==============================================================================

---------------------------- MODULE RfqApi_proofs ----------------------------
(* Proofs about RfqApi.                                                    *)
EXTENDS RfqApi, TLAPS

-----------------------------------------------------------------------------
(* Type correctness.                                                       *)

\* change_product leads from an RFQ to an RFQ.
LEMMA ChangedType ==
    ASSUME NEW r \in Rfq, NEW p \in Product
    PROVE  Changed(r, p) \in Rfq
  <1>1. r.revision + 1 \in Nat \ {0}
    BY DEF Rfq
  <1>2. [r EXCEPT !.product = p] \in Rfq
    BY DEF Rfq
  <1> QED BY <1>1, <1>2 DEF Changed, Rfq

\* Every step keeps TypeOK.
LEMMA NextTypes ==
    ASSUME RfqApiAssumption, NoRfqAssumption, RfqInv, [Next]_vars
    PROVE  TypeOK'
  <1>0. TypeOK
    BY DEF RfqInv
  <1> USE <1>0 DEF TypeOK, CallTypes, Answers
  <1>1. ASSUME NEW c \in Call, Create(c) PROVE TypeOK'
    <2>1. \A p \in Product : Registered(c, p) \in Rfq
      BY DEF Registered, Rfq
    <2> QED BY <1>1, <2>1 DEF Create, tableVars
  <1>2. ASSUME NEW c \in Call, \E kind \in {"change", "stop", "get", "list"} : Open(c, kind)
        PROVE  TypeOK'
    BY <1>2 DEF Open, tableVars
  <1>3. ASSUME NEW c \in Call, Load(c) PROVE TypeOK'
    <2>1. rfqs[target[c]] \in Rfq
      BY <1>3 DEF Load
    <2>2. \A p \in Product : Changed(rfqs[target[c]], p) \in Rfq
      BY <2>1, ChangedType
    <2> QED BY <1>3, <2>2 DEF Load, tableVars
  <1>4. ASSUME NEW c \in Call, NotFound(c) \/ ChangeFails(c) \/ StopFails(c) PROVE TypeOK'
    BY <1>4 DEF NotFound, ChangeFails, StopFails, RollBack, tableVars
  <1>5. ASSUME NEW c \in Call, Save(c) PROVE TypeOK'
    BY <1>5 DEF Save, tableVars
  <1>6. ASSUME NEW c \in Call, pc[c] \in {"dispatched", "committed"} \/ Dispatch(c)
        PROVE  rfq[c] \in Rfq
    BY <1>6 DEF RfqInv, CreateInv, Dispatch
  <1>7. ASSUME NEW c \in Call, Dispatch(c) PROVE TypeOK'
    BY <1>6, <1>7 DEF Dispatch, tableVars
  <1>8. ASSUME NEW c \in Call, pc[c] = "dispatched", Written(c)
        PROVE  rfqs' \in [Call -> Rfq \cup {NoRfq}] /\ outbox' \in SUBSET Rfq
    BY <1>8 DEF Written
  <1>9. ASSUME NEW c \in Call, Commit(c) PROVE TypeOK'
    BY <1>8, <1>9 DEF Commit
  <1>10. ASSUME NEW c \in Call, Respond(c) PROVE TypeOK'
    BY <1>6, <1>10 DEF Respond, tableVars
  <1>11. ASSUME NEW c \in Call, Read(c) PROVE TypeOK'
    <2>1. Stored \in SUBSET Rfq
      BY DEF Stored
    <2>2. rfqs[target[c]] # NoRfq => rfqs[target[c]] \in Rfq
      OBVIOUS
    <2> QED BY <1>11, <2>1, <2>2 DEF Read, tableVars
  <1>12. ASSUME NEW c \in Call, DatabaseFails(c) PROVE TypeOK'
    BY <1>12 DEF DatabaseFails, Fault, RollBack, tableVars
  <1>13. ASSUME NEW c \in Call, CommitUnconfirmed(c) PROVE TypeOK'
    BY <1>8, <1>13 DEF CommitUnconfirmed, Fault, RollBack
  <1>14. CASE Crash
    BY <1>14 DEF Crash, Fault, tableVars
  <1>15. CASE UNCHANGED vars
    BY <1>15 DEF vars, tableVars, callVars
  <1> QED
    BY <1>1, <1>2, <1>3, <1>4, <1>5, <1>7, <1>9, <1>10, <1>11, <1>12, <1>13, <1>14, <1>15
    DEF Next, CallStep

-----------------------------------------------------------------------------
(* Calls and their sessions.                                               *)

CallInv(c) == CreateInv(c) /\ SessionInv(c)

\* A call that does not step keeps its invariant while others do not touch the
\* row of the RFQ that it creates.
LEMMA OtherCall ==
    ASSUME NEW d \in Call, CallInv(d),
           rfqs'[d] = rfqs[d], op'[d] = op[d], pc'[d] = pc[d], rfq'[d] = rfq[d],
           row'[d] = row[d], events'[d] = events[d]
    PROVE  CallInv(d)'
  BY DEF CallInv, CreateInv, SessionInv

\* A call rolls back without touching the tables.
LEMMA RollBackKeeps ==
    ASSUME TypeOK, NEW c \in Call, RollBack(c), Running(c), CallInv(c),
           rfqs' = rfqs, op' = op, rfq' = rfq
    PROVE  CallInv(c)'
  BY DEF TypeOK, CallTypes, RollBack, Running, Answers, CallInv, CreateInv, SessionInv

\* A commit writes the row of the RFQ that the call creates.
LEMMA WrittenRow ==
    ASSUME NoRfqAssumption, TypeOK, NEW c \in Call, CallInv(c),
           pc[c] = "dispatched", Written(c)
    PROVE  /\ rfqs' = [rfqs EXCEPT ![c] = rfq[c]] /\ rfqs[c] = NoRfq
           /\ outbox' = outbox \cup {rfq[c]}
           /\ op[c] = "create" /\ rfq[c] # NoRfq /\ rfq[c].id = c /\ rfq[c].revision = 1
  BY DEF TypeOK, CallTypes, CallInv, CreateInv, SessionInv, Written

\* A step of call c keeps the invariant of every call.
LEMMA CallStepInv ==
    ASSUME NoRfqAssumption, RfqInv, NEW c \in Call,
           CallStep(c) \/ DatabaseFails(c) \/ CommitUnconfirmed(c),
           NEW d \in Call
    PROVE  CallInv(d)'
  <1>0. TypeOK /\ CallInv(c) /\ CallInv(d)
    BY DEF RfqInv, CallInv
  <1> USE <1>0 DEF TypeOK, CallTypes
  <1>1. CASE Create(c)
    <2>1. \A p \in Product : Registered(c, p) # NoRfq /\ Registered(c, p).id = c
                             /\ Registered(c, p).revision = 1
      BY NoRfqAssumption DEF Registered, Rfq
    <2>2. /\ op'[c] = "create" /\ pc'[c] = "loaded" /\ pc[c] = "idle"
          /\ UNCHANGED <<rfqs, row, events>>
          /\ rfq'[c] # NoRfq /\ rfq'[c].id = c /\ rfq'[c].revision = 1
      BY <1>1, <2>1 DEF Create, tableVars
    <2>3. CASE d = c
      BY <2>2, <2>3 DEF CallInv, CreateInv, SessionInv
    <2>4. CASE d # c
      BY <1>1, <2>4, OtherCall DEF Create, tableVars
    <2> QED BY <2>3, <2>4
  <1>2. CASE \E kind \in {"change", "stop", "get", "list"} : Open(c, kind)
    <2>1. CASE d = c
      BY <1>2, <2>1 DEF Open, tableVars, CallInv, CreateInv, SessionInv
    <2>2. CASE d # c
      BY <1>2, <2>2, OtherCall DEF Open, tableVars
    <2> QED BY <2>1, <2>2
  <1>3. CASE Load(c)
    <2>1. \A p \in Product : Changed(rfqs[target[c]], p) # NoRfq
      <3>1. rfqs[target[c]] \in Rfq
        BY <1>3 DEF Load
      <3>2. \A p \in Product : Changed(rfqs[target[c]], p) \in Rfq
        BY <3>1, ChangedType
      <3> QED BY <3>2, NoRfqAssumption DEF NoRfqAssumption
    <2>2. CASE d = c
      BY <1>3, <2>1, <2>2 DEF Load, tableVars, CallInv, CreateInv, SessionInv
    <2>3. CASE d # c
      BY <1>3, <2>3, OtherCall DEF Load, tableVars
    <2> QED BY <2>2, <2>3
  <1>4. CASE NotFound(c) \/ ChangeFails(c) \/ StopFails(c) \/ DatabaseFails(c)
    <2>1. /\ RollBack(c) /\ Running(c)
          /\ rfqs' = rfqs /\ op' = op /\ rfq' = rfq
      BY <1>4 DEF NotFound, ChangeFails, StopFails, DatabaseFails, tableVars, Running,
                  Answers
    <2>2. CASE d = c
      BY <2>1, <2>2, RollBackKeeps
    <2>3. CASE d # c
      BY <2>1, <2>3, OtherCall DEF RollBack
    <2> QED BY <2>2, <2>3
  <1>5. CASE Save(c)
    <2>1. CASE d = c
      BY <1>5, <2>1 DEF Save, tableVars, CallInv, CreateInv, SessionInv
    <2>2. CASE d # c
      BY <1>5, <2>2, OtherCall DEF Save, tableVars
    <2> QED BY <2>1, <2>2
  <1>6. CASE Dispatch(c)
    <2>1. CASE d = c
      BY <1>6, <2>1 DEF Dispatch, tableVars, CallInv, CreateInv, SessionInv
    <2>2. CASE d # c
      BY <1>6, <2>2, OtherCall DEF Dispatch, tableVars
    <2> QED BY <2>1, <2>2
  <1>7. CASE Commit(c) \/ CommitUnconfirmed(c)
    <2>1. /\ pc[c] = "dispatched" /\ Written(c)
          /\ op' = op /\ rfq' = rfq
          /\ row' = [row EXCEPT ![c] = NoRfq] /\ events' = [events EXCEPT ![c] = {}]
          /\ pc' \in {[pc EXCEPT ![c] = "committed"], [pc EXCEPT ![c] = "error"]}
      BY <1>7 DEF Commit, CommitUnconfirmed, RollBack
    <2>2. rfqs' = [rfqs EXCEPT ![c] = rfq[c]] /\ op[c] = "create"
      BY <2>1, WrittenRow
    <2>3. CASE d = c
      BY <2>1, <2>2, <2>3 DEF CallInv, CreateInv, SessionInv
    <2>4. CASE d # c
      BY <2>1, <2>2, <2>4, OtherCall
    <2> QED BY <2>3, <2>4
  <1>8. CASE Respond(c) \/ Read(c)
    <2>1. /\ pc[c] \in {"committed", "open"} /\ pc' = [pc EXCEPT ![c] = "ok"]
          /\ UNCHANGED <<rfqs, op, rfq, row, events>>
      BY <1>8 DEF Respond, Read, tableVars
    <2>2. CASE d = c
      BY <2>1, <2>2 DEF CallInv, CreateInv, SessionInv
    <2>3. CASE d # c
      BY <2>1, <2>3, OtherCall
    <2> QED BY <2>2, <2>3
  <1> QED
    BY <1>1, <1>2, <1>3, <1>4, <1>5, <1>6, <1>7, <1>8 DEF CallStep

\* A crash keeps it, too.
LEMMA CrashInv ==
    ASSUME RfqInv, Crash, NEW d \in Call
    PROVE  CallInv(d)'
  <1>1. TypeOK /\ CallInv(d)
    BY DEF RfqInv, CallInv
  <1>2. /\ pc'[d] = IF Running(d) THEN "lost" ELSE pc[d]
        /\ row'[d] = NoRfq /\ events'[d] = {}
        /\ UNCHANGED <<rfqs, op, rfq>>
    BY DEF Crash, tableVars
  <1> QED BY <1>1, <1>2 DEF CallInv, CreateInv, SessionInv, Running, Answers

\* Every step keeps the inductive invariant.
LEMMA StepInv ==
    ASSUME RfqApiAssumption, NoRfqAssumption, RfqInv, [Next]_vars
    PROVE  RfqInv'
  <1>1. ASSUME NEW d \in Call PROVE CallInv(d)'
    <2>1. CASE UNCHANGED vars
      BY <2>1, OtherCall DEF RfqInv, CallInv, vars, tableVars, callVars
    <2> QED BY <2>1, CallStepInv, CrashInv DEF Next
  <1> QED BY <1>1, NextTypes DEF RfqInv, CallInv

\* The invariant of the RFQ endpoints, for any number of calls.
THEOREM RfqApiCorrect == Spec => []RfqInv
  <1>1. Init => RfqInv
    BY RfqApiAssumption, NoRfqAssumption
    DEF Init, RfqInv, TypeOK, CallTypes, CreateInv, SessionInv, Answers
  <1>2. RfqInv /\ [Next]_vars => RfqInv'
    BY RfqApiAssumption, NoRfqAssumption, StepInv
  <1> QED BY <1>1, <1>2, PTL DEF Spec

-----------------------------------------------------------------------------
(* The RFQs and their events.                                              *)

\* What a step does to the tables: nothing, or one RFQ and its event.
LEMMA TableStep ==
    ASSUME NoRfqAssumption, RfqInv, [Next]_vars
    PROVE  \/ UNCHANGED tableVars
           \/ \E c \in Call :
                  /\ rfqs' = [rfqs EXCEPT ![c] = rfq[c]] /\ rfqs[c] = NoRfq
                  /\ outbox' = outbox \cup {rfq[c]}
                  /\ rfq[c] # NoRfq /\ rfq[c].id = c /\ rfq[c].revision = 1
  <1>0. TypeOK /\ \A c \in Call : CallInv(c)
    BY DEF RfqInv, CallInv
  <1>1. ASSUME NEW c \in Call, Commit(c) \/ CommitUnconfirmed(c)
        PROVE  /\ rfqs' = [rfqs EXCEPT ![c] = rfq[c]] /\ rfqs[c] = NoRfq
               /\ outbox' = outbox \cup {rfq[c]}
               /\ rfq[c] # NoRfq /\ rfq[c].id = c /\ rfq[c].revision = 1
    BY <1>0, <1>1, WrittenRow DEF Commit, CommitUnconfirmed
  <1>2. ASSUME NEW c \in Call, CallStep(c) \/ DatabaseFails(c), ~Commit(c)
        PROVE  UNCHANGED tableVars
    BY <1>2 DEF CallStep, Create, Open, Load, NotFound, Save, Dispatch, Respond,
                ChangeFails, StopFails, Read, DatabaseFails
  <1>3. CASE Crash \/ UNCHANGED vars
    BY <1>3 DEF Crash, vars
  <1> QED BY <1>1, <1>2, <1>3 DEF Next

\* A new row adds one RFQ to what is stored.
LEMMA StoredGrows ==
    ASSUME TypeOK, NEW c \in Call, rfqs[c] = NoRfq, rfq[c] # NoRfq,
           rfqs' = [rfqs EXCEPT ![c] = rfq[c]]
    PROVE  Stored' = Stored \cup {rfq[c]}
  <1>1. /\ rfqs'[c] = rfq[c]
        /\ \A d \in Call : d # c => rfqs'[d] = rfqs[d]
    BY DEF TypeOK
  <1>2. ASSUME NEW r \in Stored' PROVE r \in Stored \cup {rfq[c]}
    BY <1>1 DEF Stored
  <1>3. ASSUME NEW r \in Stored PROVE r \in Stored'
    BY <1>1 DEF Stored
  <1>4. rfq[c] \in Stored'
    BY <1>1 DEF Stored
  <1> QED BY <1>2, <1>3, <1>4

\* The transactional outbox (create_rfq.py, event_handler.py and the unit of
\* work): an RFQ is stored if and only if its event is in the outbox, whatever
\* interleaves and whatever fails.
THEOREM RfqAndEventTogether == Spec => []RfqHasItsEvent
  <1>1. Init => RfqHasItsEvent
    BY DEF Init, RfqHasItsEvent, Stored
  <1>2. RfqInv /\ RfqHasItsEvent /\ [Next]_vars => RfqHasItsEvent'
    <2> SUFFICES ASSUME RfqInv, RfqHasItsEvent, [Next]_vars PROVE RfqHasItsEvent'
      OBVIOUS
    <2>1. CASE UNCHANGED tableVars
      BY <2>1 DEF RfqHasItsEvent, Stored, tableVars
    <2>2. ASSUME NEW c \in Call, rfqs[c] = NoRfq, rfq[c] # NoRfq,
                 rfqs' = [rfqs EXCEPT ![c] = rfq[c]], outbox' = outbox \cup {rfq[c]}
          PROVE  RfqHasItsEvent'
      BY <2>2, StoredGrows DEF RfqHasItsEvent, RfqInv
    <2> QED BY <2>1, <2>2, TableStep, NoRfqAssumption
  <1> QED BY <1>1, <1>2, RfqApiCorrect, PTL DEF Spec

\* What a 201 or a read has told a client is in both tables, and stays there.
THEOREM AnswersKept == Spec => []AnswersAreKept
  <1>1. Init => AnswersAreKept
    BY DEF Init, AnswersAreKept
  <1>2. RfqInv /\ RfqHasItsEvent /\ AnswersAreKept /\ [Next]_vars => AnswersAreKept'
    <2> SUFFICES ASSUME RfqInv, RfqHasItsEvent, AnswersAreKept, [Next]_vars,
                        NEW d \in Call, pc'[d] = "ok"
                 PROVE  seen'[d] \subseteq (Stored \cap outbox)'
      BY DEF AnswersAreKept
    <2>0. TypeOK /\ CreateInv(d)
      BY DEF RfqInv
    <2>1. Stored \subseteq Stored' /\ outbox \subseteq outbox'
      <3>1. CASE UNCHANGED tableVars
        BY <3>1 DEF Stored, tableVars
      <3>2. ASSUME NEW c \in Call, rfqs[c] = NoRfq, rfq[c] # NoRfq,
                   rfqs' = [rfqs EXCEPT ![c] = rfq[c]], outbox' = outbox \cup {rfq[c]}
            PROVE  Stored \subseteq Stored' /\ outbox \subseteq outbox'
        BY <2>0, <3>2, StoredGrows
      <3> QED BY <3>1, <3>2, TableStep, NoRfqAssumption
    <2>2. CASE pc[d] = "ok" /\ seen'[d] = seen[d]
      BY <2>1, <2>2 DEF AnswersAreKept
    <2>3. CASE Respond(d)
      <3>1. rfqs[d] = rfq[d] /\ rfq[d] # NoRfq /\ seen'[d] = {rfq[d]}
        BY <2>0, <2>3 DEF Respond, CreateInv, TypeOK, CallTypes
      <3>2. rfq[d] \in Stored
        BY <3>1 DEF Stored
      <3> QED BY <2>1, <3>1, <3>2 DEF RfqHasItsEvent
    <2>4. CASE Read(d)
      <3>1. target[d] \in Call
        BY <2>0 DEF TypeOK, CallTypes
      <3>2. seen'[d] \subseteq Stored
        BY <2>0, <2>4, <3>1 DEF Read, Stored, TypeOK, CallTypes
      <3> QED BY <2>1, <3>2 DEF RfqHasItsEvent
    <2>5. ASSUME NEW c \in Call, CallStep(c), c # d
          PROVE  pc[d] = "ok" /\ seen'[d] = seen[d]
      BY <2>0, <2>5 DEF CallStep, Create, Open, Load, NotFound, Save, Dispatch, Commit,
             Respond, ChangeFails, StopFails, Read, RollBack, TypeOK, CallTypes
    <2>6. ASSUME CallStep(d), ~Respond(d), ~Read(d) PROVE FALSE
      BY <2>0, <2>6 DEF CallStep, Create, Open, Load, NotFound, Save, Dispatch, Commit,
             ChangeFails, StopFails, RollBack, TypeOK, CallTypes
    <2>7. ASSUME NEW c \in Call, DatabaseFails(c) \/ CommitUnconfirmed(c)
          PROVE  pc[d] = "ok" /\ seen'[d] = seen[d]
      BY <2>0, <2>7 DEF DatabaseFails, CommitUnconfirmed, RollBack, TypeOK, CallTypes
    <2>8. CASE Crash \/ UNCHANGED vars
      BY <2>2, <2>8 DEF Crash, vars, callVars, Running, Answers
    <2> QED BY <2>2, <2>3, <2>4, <2>5, <2>6, <2>7, <2>8 DEF Next
  <1> QED BY <1>1, <1>2, RfqApiCorrect, RfqAndEventTogether, PTL DEF Spec

\* The API implements RfqRegistry: no commit, confirmed or not, rollback or
\* crash leaves a row without its event, or an event without its row.  Every
\* step is a Register, or nothing the registry sees.
THEOREM ImplementsRegistry == Spec => RegistrySpec
  <1>1. Init => Registry!Init
    BY DEF Init, Registry!Init, Stored
  <1>2. RfqInv /\ [Next]_vars => [Registry!Next]_(Registry!vars)
    <2> SUFFICES ASSUME RfqInv, [Next]_vars
                 PROVE  Registry!Next \/ UNCHANGED Registry!vars
      OBVIOUS
    <2>1. CASE UNCHANGED tableVars
      BY <2>1 DEF Registry!vars, Stored, tableVars
    <2>2. ASSUME NEW c \in Call, rfqs[c] = NoRfq, rfq[c] # NoRfq,
                 rfq[c].id = c, rfq[c].revision = 1,
                 rfqs' = [rfqs EXCEPT ![c] = rfq[c]], outbox' = outbox \cup {rfq[c]}
          PROVE  Registry!Next
      <3>1. TypeOK /\ rfq[c] \in Rfq
        BY <2>2 DEF RfqInv, TypeOK, CallTypes
      <3>2. rfq[c].product \in Product
        BY <3>1 DEF Rfq
      <3>3. rfq[c] = [id |-> c, revision |-> 1, product |-> rfq[c].product]
        BY <2>2, <3>1 DEF Rfq
      <3>4. Stored' = Stored \cup {rfq[c]}
        BY <2>2, <3>1, StoredGrows
      <3>5. \A r \in Stored : r.id # c
        BY <2>2 DEF Stored, RfqInv, CreateInv
      <3>6. Registry!Register(c, rfq[c].product)
        BY <2>2, <3>3, <3>4, <3>5 DEF Registry!Register
      <3> QED BY <3>2, <3>6 DEF Registry!Next
    <2> QED BY <2>1, <2>2, TableStep, NoRfqAssumption
  <1> QED BY <1>1, <1>2, RfqApiCorrect, PTL DEF Spec, RegistrySpec, Registry!Spec
==============================================================================

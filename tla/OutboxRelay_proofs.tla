-------------------------- MODULE OutboxRelay_proofs --------------------------
(* Proofs about OutboxRelay.                                               *)
EXTENDS OutboxRelay, WellFoundedInduction, FiniteSetTheorems, TLAPS

-----------------------------------------------------------------------------
(* The event at which a worker is.                                         *)

\* A batch that is not empty has a first event (Current picks it).
LEMMA CurrentInBatch ==
    ASSUME ConstantsAssumption, TypeOK, NEW w \in Worker, batch[w] # {}
    PROVE  Current(w) \in batch[w] /\ Current(w) \in Event /\ Current(w) \in stored
  <1>1. batch[w] \subseteq Nat /\ batch[w] \subseteq stored /\ stored \subseteq Event
    BY DEF TypeOK, RowTypes, WorkerTypes, ConstantsAssumption
  <1>2. PICK e \in batch[w] : \A f \in batch[w] : ~(<<f, e>> \in OpToRel(<, Nat))
    BY <1>1, NatLessThanWellFounded, WFMin, Zenon
  <1>3. \A f \in batch[w] : ~(f < e)
    BY <1>1, <1>2, Zenon DEF OpToRel
  <1>4. \A f \in batch[w] : e <= f
    BY <1>1, <1>3
  <1> QED BY <1>1, <1>4 DEF Current

\* A worker that sends or marks has a current event.
LEMMA ActiveHasCurrent ==
    ASSUME ConstantsAssumption, InductiveInv, NEW w \in Worker, Active(w)
    PROVE  Current(w) \in batch[w] /\ Current(w) \in Event /\ Current(w) \in stored
  <1>1. batch[w] # {}
    BY DEF InductiveInv, BatchInv, Active
  <1> QED BY <1>1, CurrentInBatch DEF InductiveInv

-----------------------------------------------------------------------------
(* Type correctness.                                                       *)

\* A mark keeps the types of the rows and of the batch.
LEMMA MarkTypes ==
    ASSUME ConstantsAssumption, InductiveInv, NEW w \in Worker,
           \/ MarkPublished(w) \/ MarkFailed(w) \/ MarkRaises(w)
    PROVE  TypeOK'
  <1> DEFINE c == Current(w)
  <1>0. TypeOK /\ Active(w)
    BY DEF InductiveInv, MarkPublished, MarkFailed, MarkRaises, Active
  <1>1. c \in batch[w] /\ c \in stored /\ c \in Event
    BY <1>0, ActiveHasCurrent
  <1> HIDE DEF c
  <1>2. ASSUME NextEvent(w), stored' = stored PROVE WorkerTypes'
    BY <1>0, <1>2 DEF NextEvent, TypeOK, WorkerTypes
  <1>3. ASSUME Unclaim(c), stored' = stored, published' \in SUBSET stored PROVE RowTypes'
    BY <1>0, <1>1, <1>3 DEF Unclaim, TypeOK, RowTypes
  <1>4. ASSUME UNCHANGED <<stored, claim, lapsed>>, published' \in SUBSET stored
        PROVE  RowTypes'
    BY <1>0, <1>4 DEF TypeOK, RowTypes
  <1>5. CASE MarkPublished(w) \/ MarkFailed(w)
    <2>1. /\ NextEvent(w) /\ UNCHANGED <<stored, sent, faults, lapses>>
          /\ Unclaim(c) \/ UNCHANGED <<claim, lapsed>>
          /\ published' \in {published, published \cup {c}}
      BY <1>5 DEF MarkPublished, MarkFailed, c
    <2>2. published' \in SUBSET stored
      BY <1>0, <1>1, <2>1 DEF TypeOK, RowTypes
    <2>3. RowTypes'
      BY <1>3, <1>4, <2>1, <2>2
    <2> QED BY <1>0, <1>2, <2>1, <2>3 DEF TypeOK
  <1>6. CASE MarkRaises(w)
    <2>1. /\ stored' = stored /\ sent' = sent /\ lapses' = lapses
          /\ LeaveBatch(w, "idle") /\ faults' = faults + 1
          /\ \/ claim' = Orphaned(w) /\ UNCHANGED <<published, lapsed>>
             \/ /\ published' \in {published, published \cup {c}}
                /\ claim' = [Orphaned(w) EXCEPT ![c] = NoClaim]
                /\ lapsed' = lapsed \ {c}
      BY <1>6 DEF MarkRaises, Fault, c
    <2>2. RowTypes'
      BY <1>0, <1>1, <2>1 DEF Orphaned, TypeOK, RowTypes, ConstantsAssumption
    <2>3. WorkerTypes'
      BY <1>0, <2>1 DEF LeaveBatch, TypeOK, WorkerTypes
    <2> QED BY <1>0, <2>1, <2>2, <2>3 DEF TypeOK
  <1> QED BY <1>5, <1>6

\* Every step keeps TypeOK.
LEMMA NextTypes ==
    ASSUME ConstantsAssumption, InductiveInv, [Next]_vars
    PROVE  TypeOK'
  <1>0. TypeOK
    BY DEF InductiveInv
  <1> USE DEF rowVars
  <1>1. ASSUME rowVars' = rowVars PROVE RowTypes'
    BY <1>0, <1>1 DEF TypeOK, RowTypes
  <1>2. CASE UNCHANGED vars
    BY <1>0, <1>1, <1>2 DEF TypeOK, WorkerTypes, vars
  <1>3. CASE \E e \in Event : Store(e) \/ OrphanLapses(e)
    <2>1. RowTypes'
      BY <1>0, <1>3 DEF TypeOK, RowTypes, Store, OrphanLapses, ConstantsAssumption
    <2>2. WorkerTypes'
      BY <1>0, <1>3 DEF TypeOK, RowTypes, WorkerTypes, Store, OrphanLapses
    <2> QED BY <1>0, <1>3, <2>1, <2>2 DEF TypeOK, Store, OrphanLapses
  <1>4. ASSUME NEW w \in Worker, WorkerStep(w) PROVE TypeOK'
    <2>1. CASE SelectPending(w)
      <3>1. PICK S \in SUBSET Event : IsSelection(S) /\ batch' = [batch EXCEPT ![w] = S]
        BY <2>1 DEF SelectPending
      <3>2. S \subseteq stored
        BY <3>1 DEF IsSelection, Claimable
      <3>3. WorkerTypes'
        BY <1>0, <2>1, <3>1, <3>2 DEF SelectPending, TypeOK, WorkerTypes
      <3> QED BY <1>0, <1>1, <2>1, <3>3 DEF SelectPending, TypeOK
    <2>2. CASE CommitClaim(w)
      <3>1. RowTypes'
        BY <1>0, <2>2 DEF CommitClaim, TypeOK, RowTypes, WorkerTypes, ConstantsAssumption
      <3>2. WorkerTypes'
        BY <1>0, <2>2 DEF CommitClaim, TypeOK, WorkerTypes
      <3> QED BY <1>0, <2>2, <3>1, <3>2 DEF CommitClaim, TypeOK
    <2>3. CASE Deliver(w)
      <3>1. Current(w) \in Event
        BY <2>3, ActiveHasCurrent DEF Deliver, Active
      <3>2. sent' \in [Event -> Nat]
        <4> DEFINE c == Current(w)
        <4>1. c \in Event /\ sent' = [sent EXCEPT ![c] = sent[c] + 1] /\ sent \in [Event -> Nat]
          BY <1>0, <2>3, <3>1 DEF Deliver, TypeOK
        <4> HIDE DEF c
        <4> QED BY <4>1
      <3>3. WorkerTypes'
        BY <1>0, <2>3 DEF Deliver, TypeOK, WorkerTypes
      <3> QED BY <1>0, <1>1, <2>3, <3>2, <3>3 DEF Deliver, TypeOK
    <2>4. CASE Reject(w)
      BY <1>0, <1>1, <2>4 DEF Reject, TypeOK, WorkerTypes
    <2> QED BY <1>4, <2>1, <2>2, <2>3, <2>4, MarkTypes DEF WorkerStep
  <1>5. ASSUME NEW w \in Worker, WorkerFault(w) PROVE TypeOK'
    <2>1. CASE ClaimLapses(w)
      <3>1. RowTypes'
        BY <1>0, <2>1 DEF ClaimLapses, TypeOK, RowTypes, ConstantsAssumption
      <3> QED BY <1>0, <2>1, <3>1 DEF ClaimLapses, TypeOK, WorkerTypes
    <2>2. CASE PublishRaises(w)
      BY <1>0, <1>1, <2>2 DEF PublishRaises, Fault, TypeOK, WorkerTypes
    <2>3. CASE ClaimRaises(w)
      <3>1. RowTypes'
        <4>1. CASE UNCHANGED <<claim, lapsed>>
          BY <1>0, <2>3, <4>1 DEF ClaimRaises, TypeOK, RowTypes
        <4>2. CASE /\ claim' = [e \in Event |-> IF e \in batch[w] THEN Orphan ELSE claim[e]]
                   /\ lapsed' = lapsed \ batch[w]
          BY <1>0, <2>3, <4>2 DEF ClaimRaises, TypeOK, RowTypes, WorkerTypes,
                                  ConstantsAssumption
        <4> QED BY <2>3, <4>1, <4>2 DEF ClaimRaises
      <3>2. WorkerTypes'
        BY <1>0, <2>3 DEF ClaimRaises, LeaveBatch, TypeOK, WorkerTypes
      <3> QED BY <1>0, <2>3, <3>1, <3>2 DEF ClaimRaises, Fault, TypeOK
    <2>4. CASE Crash(w)
      <3>1. RowTypes'
        BY <1>0, <2>4 DEF Crash, Orphaned, TypeOK, RowTypes, ConstantsAssumption
      <3>2. WorkerTypes'
        BY <1>0, <2>4 DEF Crash, LeaveBatch, TypeOK, WorkerTypes
      <3> QED BY <1>0, <2>4, <3>1, <3>2 DEF Crash, Fault, TypeOK
    <2>5. CASE Start(w)
      BY <1>0, <1>1, <2>5 DEF Start, TypeOK, WorkerTypes
    <2> QED BY <1>5, <2>1, <2>2, <2>3, <2>4, <2>5, MarkTypes DEF WorkerFault
  <1> QED BY <1>2, <1>3, <1>4, <1>5 DEF Next

-----------------------------------------------------------------------------
(* The inductive invariant: what a step of one worker leaves alone.        *)

\* The initial states satisfy the invariant.
LEMMA InitInductive ==
    ASSUME ConstantsAssumption, Init
    PROVE  InductiveInv
  <1>1. TypeOK
    BY DEF Init, TypeOK, RowTypes, WorkerTypes, ConstantsAssumption
  <1>2. PublishedIsUnclaimed /\ LocksAreDisjoint
    BY DEF Init, PublishedIsUnclaimed, LocksAreDisjoint
  <1>3. NoLapseInv
    BY DEF Init, NoLapseInv, Active
  <1>4. ASSUME NEW w \in Worker PROVE BatchInv(w)
    BY <1>4 DEF Init, BatchInv, Active, ConstantsAssumption
  <1> QED BY <1>1, <1>2, <1>3, <1>4 DEF InductiveInv

\* A worker that does not move keeps its part of the invariant when the rows
\* it has locked do not change, no other row becomes its own, and the broker
\* loses nothing.
LEMMA OthersKeepBatchInv ==
    ASSUME ConstantsAssumption, InductiveInv, TypeOK', NEW v \in Worker,
           pc'[v] = pc[v], batch'[v] = batch[v],
           \A e \in Event : claim'[e] = v => claim[e] = v,
           \A e \in Event : sent'[e] >= sent[e],
           pc[v] = "claiming" =>
               \A e \in batch[v] :
                   /\ e \notin published'
                   /\ claim'[e] = NoClaim \/ e \in lapsed'
    PROVE  BatchInv(v)'
  <1>1. Current(v)' = Current(v)
    BY DEF Current
  <1>2. BatchInv(v) /\ (Active(v)' <=> Active(v))
    BY DEF InductiveInv, Active
  <1>3. pc[v] = "sent" => sent'[Current(v)] > 0
    <2>1. SUFFICES ASSUME pc[v] = "sent" PROVE sent'[Current(v)] > 0
      OBVIOUS
    <2>2. Current(v) \in Event
      BY <2>1, ActiveHasCurrent DEF Active
    <2> DEFINE c == Current(v)
    <2>3. sent[c] \in Nat /\ sent'[c] \in Nat /\ sent[c] > 0 /\ sent'[c] >= sent[c]
      BY <1>2, <2>1, <2>2 DEF BatchInv, InductiveInv, TypeOK
    <2> HIDE DEF c
    <2>4. sent'[c] > 0
      BY <2>3
    <2> QED BY <2>4 DEF c
  <1> QED BY <1>1, <1>2, <1>3 DEF BatchInv

\* The claim's transaction: the rows it has locked get the claim, and no other
\* worker has a lock on them or, while nothing lapses, works on them.
LEMMA ClaimKeepsInductive ==
    ASSUME ConstantsAssumption, InductiveInv, TypeOK', NEW w \in Worker,
           \/ SelectPending(w) \/ CommitClaim(w) \/ ClaimRaises(w)
    PROVE  InductiveInv'
  <1>0. TypeOK /\ BatchInv(w) /\ PublishedIsUnclaimed /\ LocksAreDisjoint /\ NoLapseInv
    BY DEF InductiveInv
  <1>00. /\ claim \in [Event -> Worker \cup {NoClaim, Orphan}]
         /\ pc \in [Worker -> {"down", "idle", "claiming", "sending", "sent", "failed"}]
         /\ batch \in [Worker -> SUBSET stored] /\ stored \subseteq Event
         /\ published \subseteq Event /\ lapsed \subseteq Event
         /\ sent \in [Event -> Nat]
         /\ NoClaim \notin Worker /\ Orphan \notin Worker /\ NoClaim # Orphan
    BY <1>0 DEF TypeOK, RowTypes, WorkerTypes, ConstantsAssumption
  <1>1. CASE SelectPending(w)
    <2>1. PICK S \in SUBSET Event :
              IsSelection(S) /\ S # {} /\ batch' = [batch EXCEPT ![w] = S]
      BY <1>1 DEF SelectPending
    <2>2. /\ pc[w] = "idle" /\ pc' = [pc EXCEPT ![w] = "claiming"]
          /\ UNCHANGED <<stored, published, claim, lapsed, sent, lapses>>
      BY <1>1 DEF SelectPending, rowVars
    <2>3. \A e \in S : /\ e \notin published /\ ~Locked(e)
                       /\ claim[e] = NoClaim \/ e \in lapsed
      BY <2>1 DEF IsSelection, Claimable
    <2>4. PublishedIsUnclaimed'
      BY <1>0, <2>2 DEF PublishedIsUnclaimed
    <2>5. LocksAreDisjoint'
      BY <1>0, <1>00, <2>1, <2>2, <2>3 DEF LocksAreDisjoint, Locked
    <2>6. NoLapseInv'
      BY <1>0, <1>00, <2>1, <2>2 DEF NoLapseInv, Active
    <2>7. BatchInv(w)'
      BY <1>0, <1>00, <2>1, <2>2, <2>3 DEF BatchInv, Active
    <2>8. ASSUME NEW v \in Worker \ {w} PROVE BatchInv(v)'
      <3>1. BatchInv(v) /\ pc'[v] = pc[v] /\ batch'[v] = batch[v]
        BY <1>00, <2>1, <2>2 DEF InductiveInv
      <3>2. \A e \in Event : sent'[e] >= sent[e]
        BY <1>00, <2>2
      <3>3. pc[v] = "claiming" => \A e \in batch[v] :
                e \notin published' /\ (claim'[e] = NoClaim \/ e \in lapsed')
        BY <2>2, <3>1 DEF BatchInv
      <3> QED BY <2>2, <3>1, <3>2, <3>3, OthersKeepBatchInv
    <2> QED BY <2>4, <2>5, <2>6, <2>7, <2>8 DEF InductiveInv
  <1>2. CASE CommitClaim(w) \/ ClaimRaises(w)
    <2>1. PICK x \in {w, Orphan} :
            /\ pc[w] = "claiming"
            /\ UNCHANGED <<stored, published, sent, lapses>>
            /\ x = w => pc' = [pc EXCEPT ![w] = "sending"] /\ batch' = batch
            /\ x = Orphan => pc' = [pc EXCEPT ![w] = "idle"]
                             /\ batch' = [batch EXCEPT ![w] = {}]
            /\ \/ x = Orphan /\ UNCHANGED <<claim, lapsed>>
               \/ /\ claim' = [e \in Event |-> IF e \in batch[w] THEN x ELSE claim[e]]
                  /\ lapsed' = lapsed \ batch[w]
      BY <1>00, <1>2 DEF CommitClaim, ClaimRaises, LeaveBatch
    <2>2. \A e \in batch[w] : e \notin published /\ (claim[e] = NoClaim \/ e \in lapsed)
      BY <1>0, <2>1 DEF BatchInv
    <2>3. batch[w] # {} /\ \A e \in Event : claim[e] # w
      BY <1>0, <2>1 DEF BatchInv, Active
    <2>4. \A e \in Event \ batch[w] :
              claim'[e] = claim[e] /\ (e \in lapsed' <=> e \in lapsed)
      BY <1>00, <2>1
    <2>5. \A e \in batch[w] : claim'[e] \in {x, claim[e]} /\ (claim'[e] = claim[e] \/ claim'[e] = x)
      BY <1>00, <2>1
    <2>6. PublishedIsUnclaimed'
      BY <1>0, <1>00, <2>1, <2>2, <2>4 DEF PublishedIsUnclaimed
    <2>7. \A v \in Worker \ {w} : pc'[v] = pc[v] /\ batch'[v] = batch[v]
      BY <1>00, <2>1
    <2>8. pc'[w] \in {"sending", "idle"} /\ pc'[w] # "claiming"
      BY <1>00, <2>1
    <2>9. LocksAreDisjoint'
      BY <1>0, <2>7, <2>8 DEF LocksAreDisjoint
    <2>10. NoLapseInv'
      <3> SUFFICES ASSUME lapses = 0
                   PROVE  /\ \A e \in lapsed' : claim'[e] = Orphan
                          /\ \A v \in Worker : Active(v)' => \A e \in batch'[v] : claim'[e] = v
        BY <2>1 DEF NoLapseInv
      <3>1. \A e \in lapsed : claim[e] = Orphan
        BY <1>0 DEF NoLapseInv
      <3>2. \A e \in lapsed' : claim'[e] = Orphan
        BY <1>00, <2>1, <2>4, <3>1
      <3>3. ASSUME NEW v \in Worker \ {w}, Active(v)', NEW e \in batch'[v]
            PROVE  claim'[e] = v
        <4>1. claim[e] = v /\ e \in Event
          BY <1>0, <1>00, <2>7, <3>3 DEF NoLapseInv, Active
        <4>2. e \notin batch[w]
          BY <1>00, <2>2, <3>1, <4>1
        <4> QED BY <2>4, <4>1, <4>2
      <3>4. Active(w)' => \A e \in batch'[w] : claim'[e] = w
        BY <1>00, <2>1 DEF Active
      <3> QED BY <3>2, <3>3, <3>4
    <2>11. BatchInv(w)'
      BY <1>00, <2>1, <2>3 DEF BatchInv, Active
    <2>12. ASSUME NEW v \in Worker \ {w} PROVE BatchInv(v)'
      <3>1. BatchInv(v)
        BY DEF InductiveInv
      <3>2. \A e \in Event : claim'[e] = v => claim[e] = v
        BY <1>00, <2>1
      <3>3. \A e \in Event : sent'[e] >= sent[e]
        BY <1>00, <2>1
      <3>4. ASSUME pc[v] = "claiming", NEW e \in batch[v]
            PROVE  e \notin published' /\ (claim'[e] = NoClaim \/ e \in lapsed')
        <4>1. e \in Event \ batch[w]
          BY <1>0, <1>00, <2>1, <3>4 DEF LocksAreDisjoint
        <4> QED BY <2>1, <2>4, <3>1, <3>4, <4>1 DEF BatchInv
      <3> QED BY <2>7, <3>2, <3>3, <3>4, OthersKeepBatchInv
    <2> QED BY <2>6, <2>9, <2>10, <2>11, <2>12 DEF InductiveInv
  <1> QED BY <1>1, <1>2

\* The steps of publish() move one worker and touch no row.
LEMMA PublishKeepsInductive ==
    ASSUME ConstantsAssumption, InductiveInv, TypeOK', NEW w \in Worker,
           \/ Deliver(w) \/ Reject(w) \/ PublishRaises(w) \/ Start(w)
    PROVE  InductiveInv'
  <1>0. TypeOK /\ BatchInv(w) /\ PublishedIsUnclaimed /\ LocksAreDisjoint /\ NoLapseInv
    BY DEF InductiveInv
  <1>00. /\ pc \in [Worker -> {"down", "idle", "claiming", "sending", "sent", "failed"}]
         /\ sent \in [Event -> Nat]
    BY <1>0 DEF TypeOK, WorkerTypes
  <1>1. UNCHANGED <<stored, published, claim, lapsed, batch, lapses>>
    BY DEF Deliver, Reject, PublishRaises, Start, rowVars
  <1>2. PICK q \in {"idle", "sent", "failed"} :
          /\ pc' = [pc EXCEPT ![w] = q]
          /\ q = "idle" => pc[w] = "down"
          /\ q \in {"sent", "failed"} => Active(w)
    BY DEF Deliver, Reject, PublishRaises, Start, Active
  <1>3. Deliver(w) => Current(w) \in Event
    BY ActiveHasCurrent DEF Deliver, Active
  <1>4. \/ sent' = sent /\ q # "sent"
        \/ Current(w) \in Event /\ sent' = [sent EXCEPT ![Current(w)] = sent[Current(w)] + 1]
    BY <1>00, <1>2, <1>3 DEF Deliver, Reject, PublishRaises, Start
  <1>5. /\ \A e \in Event : sent'[e] >= sent[e]
        /\ q = "sent" => sent'[Current(w)] > 0
    <2> DEFINE c == Current(w)
    <2>1. \/ sent' = sent /\ q # "sent"
          \/ c \in Event /\ sent' = [sent EXCEPT ![c] = sent[c] + 1]
      BY <1>4
    <2> HIDE DEF c
    <2>2. /\ \A e \in Event : sent'[e] >= sent[e]
          /\ q = "sent" => sent'[c] > 0
      <3>1. \A e \in Event : sent[e] \in Nat /\ sent'[e] \in {sent[e], sent[e] + 1}
        BY <1>00, <2>1
      <3>2. q = "sent" => sent[c] \in Nat /\ sent'[c] = sent[c] + 1
        BY <1>00, <2>1
      <3>3. \A n \in Nat : n >= n /\ n + 1 >= n /\ n + 1 > 0
        OBVIOUS
      <3> QED BY <3>1, <3>2, <3>3
    <2> QED BY <2>2 DEF c
  <1>6. PublishedIsUnclaimed'
    BY <1>0, <1>1 DEF PublishedIsUnclaimed
  <1>7. LocksAreDisjoint'
    BY <1>0, <1>00, <1>1, <1>2 DEF LocksAreDisjoint
  <1>8. NoLapseInv'
    BY <1>0, <1>00, <1>1, <1>2 DEF NoLapseInv, Active
  <1>9. BatchInv(w)'
    <2>1. Current(w)' = Current(w) /\ pc'[w] = q
      BY <1>00, <1>1, <1>2 DEF Current
    <2>2. pc'[w] = "sent" => sent'[Current(w)'] > 0
      BY <1>5, <2>1
    <2> QED BY <1>0, <1>1, <1>2, <2>1, <2>2 DEF BatchInv, Active
  <1>10. ASSUME NEW v \in Worker \ {w} PROVE BatchInv(v)'
    <2>1. BatchInv(v) /\ pc'[v] = pc[v]
      BY <1>00, <1>2 DEF InductiveInv
    <2>2. pc[v] = "claiming" => \A e \in batch[v] :
              e \notin published' /\ (claim'[e] = NoClaim \/ e \in lapsed')
      BY <1>1, <2>1 DEF BatchInv
    <2> QED BY <1>1, <1>5, <2>1, <2>2, OthersKeepBatchInv
  <1> QED BY <1>6, <1>7, <1>8, <1>9, <1>10 DEF InductiveInv

\* The steps that end the work on an event or on the batch change only rows
\* that the worker has claimed and no claim under way has locked.
LEMMA ReleaseKeepsInductive ==
    ASSUME ConstantsAssumption, InductiveInv, TypeOK', NEW w \in Worker,
           \/ MarkPublished(w) \/ MarkFailed(w) \/ MarkRaises(w) \/ Crash(w)
    PROVE  InductiveInv'
  <1> DEFINE c == Current(w)
  <1>0. TypeOK /\ BatchInv(w) /\ PublishedIsUnclaimed /\ LocksAreDisjoint /\ NoLapseInv
    BY DEF InductiveInv
  <1>00. /\ claim \in [Event -> Worker \cup {NoClaim, Orphan}]
         /\ pc \in [Worker -> {"down", "idle", "claiming", "sending", "sent", "failed"}]
         /\ batch \in [Worker -> SUBSET stored] /\ stored \subseteq Event
         /\ published \subseteq Event /\ lapsed \subseteq Event
         /\ sent \in [Event -> Nat]
         /\ NoClaim \notin Worker /\ Orphan \notin Worker /\ NoClaim # Orphan
    BY <1>0 DEF TypeOK, RowTypes, WorkerTypes, ConstantsAssumption
  <1>1. Active(w) => c \in batch[w] /\ c \in Event
    BY ActiveHasCurrent
  <1>2. Active(w) \/ Crash(w)
    BY DEF MarkPublished, MarkFailed, MarkRaises, Active
  <1>3. /\ \A v \in Worker \ {w} : pc'[v] = pc[v] /\ batch'[v] = batch[v]
        /\ pc'[w] \in {"idle", "sending", "down"}
        /\ pc'[w] \in {"idle", "down"} <=> batch'[w] = {}
        /\ batch'[w] \in {{}, batch[w] \ {c}}
        /\ pc'[w] = "sending" => Active(w)
        /\ UNCHANGED <<stored, sent, lapses>>
    <2>1. CASE MarkPublished(w) \/ MarkFailed(w)
      <3>1. NextEvent(w) /\ UNCHANGED <<stored, sent, lapses>> /\ Active(w)
        BY <2>1 DEF MarkPublished, MarkFailed, Active
      <3>2. /\ batch' = [batch EXCEPT ![w] = batch[w] \ {c}]
            /\ pc' = [pc EXCEPT ![w] = IF batch[w] = {c} THEN "idle" ELSE "sending"]
        BY <3>1 DEF NextEvent
      <3>3. c \in batch[w]
        BY <1>1, <3>1
      <3> HIDE DEF c
      <3> QED BY <1>00, <3>1, <3>2, <3>3
    <2>2. CASE MarkRaises(w) \/ Crash(w)
      <3>1. UNCHANGED <<stored, sent, lapses>> /\ batch' = [batch EXCEPT ![w] = {}]
            /\ \E q \in {"idle", "down"} : pc' = [pc EXCEPT ![w] = q]
        BY <2>2 DEF MarkRaises, Crash, LeaveBatch
      <3> HIDE DEF c
      <3> QED BY <1>00, <3>1
    <2> QED BY <2>1, <2>2
  <1>4. /\ \A e \in Event : \/ claim'[e] = claim[e]
                            \/ claim[e] = w /\ claim'[e] \in {NoClaim, Orphan}
        /\ \A e \in Event : claim'[e] = w => e \in batch'[w]
        /\ \A e \in batch'[w] : claim'[e] = claim[e]
        /\ lapsed' \subseteq lapsed
        /\ \A e \in lapsed \ lapsed' : claim[e] = w /\ ~Locked(e)
        /\ \A e \in published' \ published :
               claim[e] = w /\ ~Locked(e) /\ claim'[e] = NoClaim
    <2>1. \A e \in Event : claim[e] = w => e \in batch[w] /\ Active(w)
      BY <1>0 DEF BatchInv
    <2>2. CASE MarkPublished(w) \/ MarkFailed(w)
      <3>1. /\ \/ UNCHANGED <<published, claim, lapsed>> /\ claim[c] # w
               \/ /\ claim[c] = w /\ published' \in {published, published \cup {c}}
                  /\ claim' = [claim EXCEPT ![c] = NoClaim] /\ lapsed' = lapsed \ {c}
            /\ batch' = [batch EXCEPT ![w] = batch[w] \ {c}]
            /\ ~Locked(c) /\ Active(w)
        <4>1. c \in published => claim[c] # w
          BY <1>0, <1>00 DEF PublishedIsUnclaimed
        <4> QED BY <2>2, <4>1 DEF MarkPublished, MarkFailed, Unclaim, NextEvent, Active
      <3>2. c \in Event
        BY <1>1, <3>1
      <3> HIDE DEF c
      <3> QED BY <1>00, <2>1, <3>1, <3>2
    <2>3. CASE MarkRaises(w)
      <3>1. /\ \/ claim' = Orphaned(w) /\ UNCHANGED <<published, lapsed>>
               \/ /\ claim[c] = w /\ published' \in {published, published \cup {c}}
                  /\ claim' = [Orphaned(w) EXCEPT ![c] = NoClaim] /\ lapsed' = lapsed \ {c}
            /\ batch' = [batch EXCEPT ![w] = {}]
            /\ ~Locked(c) /\ Active(w)
        BY <2>3 DEF MarkRaises, LeaveBatch, Active
      <3>2. c \in Event
        BY <1>1, <3>1
      <3> HIDE DEF c
      <3> QED BY <1>00, <3>1, <3>2 DEF Orphaned
    <2>4. CASE Crash(w)
      BY <1>00, <2>4 DEF Crash, LeaveBatch, Orphaned
    <2> QED BY <2>2, <2>3, <2>4
  <1> HIDE DEF c
  <1>5. PublishedIsUnclaimed'
    <2>1. published' \subseteq Event
      BY DEF TypeOK, RowTypes
    <2> QED BY <1>0, <1>00, <1>4, <2>1 DEF PublishedIsUnclaimed
  <1>6. LocksAreDisjoint'
    BY <1>0, <1>3 DEF LocksAreDisjoint
  <1>7. NoLapseInv'
    <2> SUFFICES ASSUME lapses = 0
                 PROVE  /\ \A e \in lapsed' : claim'[e] = Orphan
                        /\ \A v \in Worker : Active(v)' => \A e \in batch'[v] : claim'[e] = v
      BY <1>3 DEF NoLapseInv
    <2>1. /\ \A e \in lapsed : claim[e] = Orphan
          /\ \A v \in Worker : Active(v) => \A e \in batch[v] : claim[e] = v
      BY <1>0 DEF NoLapseInv
    <2>2. \A e \in lapsed' : claim'[e] = Orphan
      BY <1>00, <1>4, <2>1
    <2>3. Active(w)' => \A e \in batch'[w] : claim'[e] = w
      BY <1>3, <1>4, <2>1 DEF Active
    <2>4. ASSUME NEW v \in Worker \ {w}, Active(v)', NEW e \in batch'[v] PROVE claim'[e] = v
      <3>1. claim[e] = v /\ e \in Event
        BY <1>00, <1>3, <2>1, <2>4 DEF Active
      <3> QED BY <1>4, <3>1
    <2> QED BY <2>2, <2>3, <2>4
  <1>8. BatchInv(w)'
    BY <1>3, <1>4 DEF BatchInv, Active
  <1>9. ASSUME NEW v \in Worker \ {w} PROVE BatchInv(v)'
    <2>1. BatchInv(v)
      BY DEF InductiveInv
    <2>2. \A e \in Event : claim'[e] = v => claim[e] = v
      BY <1>00, <1>4
    <2>3. \A e \in Event : sent'[e] >= sent[e]
      BY <1>00, <1>3
    <2>4. ASSUME pc[v] = "claiming", NEW e \in batch[v]
          PROVE  e \notin published' /\ (claim'[e] = NoClaim \/ e \in lapsed')
      <3>1. Locked(e) /\ e \in Event
        BY <1>00, <2>4 DEF Locked
      <3>2. e \notin published /\ (claim[e] = NoClaim \/ e \in lapsed)
        BY <2>1, <2>4 DEF BatchInv
      <3> QED BY <1>00, <1>4, <3>1, <3>2
    <2> QED BY <1>3, <2>2, <2>3, <2>4, OthersKeepBatchInv
  <1> QED BY <1>5, <1>6, <1>7, <1>8, <1>9 DEF InductiveInv

\* A step without a worker, and time, leave the batches alone.
LEMMA TimeKeepsInductive ==
    ASSUME ConstantsAssumption, InductiveInv, TypeOK',
           \/ \E e \in Event : Store(e) \/ OrphanLapses(e)
           \/ \E w \in Worker : ClaimLapses(w)
    PROVE  InductiveInv'
  <1>0. TypeOK /\ PublishedIsUnclaimed /\ LocksAreDisjoint /\ NoLapseInv
    BY DEF InductiveInv
  <1>1. /\ UNCHANGED <<published, claim, sent, pc, batch>> /\ lapsed \subseteq lapsed'
        /\ lapses' = 0 => lapses = 0 /\ \A e \in lapsed' \ lapsed : claim[e] = Orphan
    BY <1>0 DEF Store, OrphanLapses, ClaimLapses, TypeOK
  <1>2. PublishedIsUnclaimed' /\ LocksAreDisjoint' /\ NoLapseInv'
    BY <1>0, <1>1 DEF PublishedIsUnclaimed, LocksAreDisjoint, NoLapseInv, Active
  <1>3. ASSUME NEW v \in Worker PROVE BatchInv(v)'
    <2>1. BatchInv(v) /\ Current(v)' = Current(v)
      BY <1>1 DEF InductiveInv, Current
    <2> QED BY <1>1, <2>1 DEF BatchInv, Active
  <1> QED BY <1>2, <1>3 DEF InductiveInv

\* Every step keeps the invariant.
LEMMA NextInductive ==
    ASSUME ConstantsAssumption, InductiveInv, [Next]_vars
    PROVE  InductiveInv'
  <1>1. TypeOK'
    BY NextTypes
  <1>2. CASE UNCHANGED vars
    <2>1. UNCHANGED <<stored, published, claim, lapsed, sent, pc, batch, lapses>>
      BY <1>2 DEF vars, rowVars
    <2>2. ASSUME NEW v \in Worker PROVE BatchInv(v)'
      BY <2>1 DEF InductiveInv, BatchInv, Active, Current
    <2>3. PublishedIsUnclaimed' /\ LocksAreDisjoint' /\ NoLapseInv'
      BY <2>1 DEF InductiveInv, PublishedIsUnclaimed, LocksAreDisjoint, NoLapseInv, Active
    <2> QED BY <1>1, <2>2, <2>3 DEF InductiveInv
  <1>3. CASE \E e \in Event : Store(e) \/ OrphanLapses(e)
    BY <1>1, <1>3, TimeKeepsInductive
  <1>4. ASSUME NEW w \in Worker, WorkerStep(w) PROVE InductiveInv'
    BY <1>1, <1>4, ClaimKeepsInductive, PublishKeepsInductive, ReleaseKeepsInductive
       DEF WorkerStep
  <1>5. ASSUME NEW w \in Worker, WorkerFault(w) PROVE InductiveInv'
    BY <1>1, <1>5, TimeKeepsInductive, ClaimKeepsInductive, PublishKeepsInductive,
       ReleaseKeepsInductive DEF WorkerFault
  <1> QED BY <1>2, <1>3, <1>4, <1>5 DEF Next

-----------------------------------------------------------------------------
(* Theorems.                                                               *)

\* The invariant on which the other theorems rest: rows, claims, locks and
\* batches agree in every reachable state of OutboxWorker processes.
THEOREM OutboxInductive == Spec => []InductiveInv
  <1>1. Init => InductiveInv
    BY InitInductive, ConstantsAssumption
  <1>2. InductiveInv /\ [Next]_vars => InductiveInv'
    BY NextInductive, ConstantsAssumption
  <1> QED BY <1>1, <1>2, PTL DEF Spec

\* The rows and the workers' variables have their types.
THEOREM OutboxTypeCorrect == Spec => []TypeOK
  <1>1. InductiveInv => TypeOK
    BY DEF InductiveInv
  <1> QED BY <1>1, OutboxInductive, PTL

\* No published row is ever in a claim again: claim_pending selects under
\* FOR UPDATE and the marks wait for the row lock.
THEOREM PublishedStaysUnclaimed == Spec => []PublishedIsUnclaimed
  <1>1. InductiveInv => PublishedIsUnclaimed
    BY DEF InductiveInv
  <1> QED BY <1>1, OutboxInductive, PTL

\* Two workers never work on one event unless claimed_until passed under one
\* of them.
THEOREM ClaimIsExclusive == Spec => []OneClaimant
  <1>1. InductiveInv => OneClaimant
    <2> SUFFICES ASSUME InductiveInv, lapses = 0, NEW v \in Worker, NEW w \in Worker,
                        v # w, NEW e \in batch[v], e \in batch[w]
                 PROVE  FALSE
      BY DEF OneClaimant
    <2>1. /\ e \in Event /\ NoClaim \notin Worker /\ Orphan \notin Worker
          /\ pc \in [Worker -> {"down", "idle", "claiming", "sending", "sent", "failed"}]
      BY ConstantsAssumption DEF InductiveInv, TypeOK, RowTypes, WorkerTypes
    <2>2. BatchInv(v) /\ BatchInv(w) /\ NoLapseInv /\ LocksAreDisjoint
      BY DEF InductiveInv
    <2>3. \A u \in Worker : e \in batch[u] /\ BatchInv(u) =>
              \/ pc[u] = "claiming" /\ claim[e] \in {NoClaim, Orphan}
              \/ Active(u) /\ claim[e] = u
      BY <2>1, <2>2 DEF BatchInv, NoLapseInv, Active
    <2> QED BY <2>1, <2>2, <2>3 DEF LocksAreDisjoint, Active
  <1> QED BY <1>1, OutboxInductive, PTL

\* What a step does to a claim in force: nothing, or its worker has given it up.
LEMMA ClaimStep ==
    ASSUME ConstantsAssumption, InductiveInv, [Next]_vars,
           NEW w \in Worker, NEW e \in Event,
           claim[e] = w, e \notin lapsed, claim'[e] # w
    PROVE  e \notin batch'[w]
  <1>0. /\ claim \in [Event -> Worker \cup {NoClaim, Orphan}]
        /\ batch \in [Worker -> SUBSET stored]
        /\ NoClaim \notin Worker
    BY ConstantsAssumption DEF InductiveInv, TypeOK, RowTypes, WorkerTypes,
                               ConstantsAssumption
  <1>1. ASSUME NEW v \in Worker, CommitClaim(v) \/ ClaimRaises(v) PROVE FALSE
    <2>1. \A f \in batch[v] : claim[f] = NoClaim \/ f \in lapsed
      BY <1>1 DEF InductiveInv, BatchInv, CommitClaim, ClaimRaises
    <2>2. e \in batch[v]
      BY <1>1 DEF CommitClaim, ClaimRaises
    <2> QED BY <1>0, <2>1, <2>2
  <1>2. ASSUME NEW v \in Worker, MarkPublished(v) \/ MarkFailed(v)
        PROVE  e \notin batch'[w]
    <2> DEFINE c == Current(v)
    <2>1. /\ claim[c] = v /\ claim' = [claim EXCEPT ![c] = NoClaim]
          /\ batch' = [batch EXCEPT ![v] = @ \ {c}]
      BY <1>2 DEF MarkPublished, MarkFailed, Unclaim, NextEvent
    <2> HIDE DEF c
    <2>2. e = c /\ v = w
      BY <1>0, <2>1
    <2> QED BY <1>0, <2>1, <2>2
  <1>3. ASSUME NEW v \in Worker, MarkRaises(v) \/ Crash(v)
        PROVE  e \notin batch'[w]
    <2> DEFINE c == Current(v)
    <2>1. /\ \/ claim' = Orphaned(v)
             \/ claim[c] = v /\ claim' = [Orphaned(v) EXCEPT ![c] = NoClaim]
          /\ batch' = [batch EXCEPT ![v] = {}]
      BY <1>3 DEF MarkRaises, Crash, LeaveBatch
    <2> HIDE DEF c
    <2>2. v = w
      BY <1>0, <2>1 DEF Orphaned
    <2> QED BY <1>0, <2>1, <2>2
  <1>4. ASSUME NEW v \in Worker,
               \/ SelectPending(v) \/ Deliver(v) \/ Reject(v) \/ ClaimLapses(v)
               \/ PublishRaises(v) \/ Start(v)
        PROVE  FALSE
    BY <1>4 DEF SelectPending, Deliver, Reject, ClaimLapses, PublishRaises, Start, rowVars
  <1>5. CASE UNCHANGED vars \/ \E f \in Event : Store(f) \/ OrphanLapses(f)
    BY <1>5 DEF vars, rowVars, Store, OrphanLapses
  <1> QED BY <1>1, <1>2, <1>3, <1>4, <1>5 DEF Next, WorkerStep, WorkerFault

\* The marks and claim_pending's WHERE: a claim that has not lapsed is ended by
\* the execute() that drew it and by no other, whose mark may come too late.
THEOREM ClaimsInForceStay == Spec => ClaimInForceIsKept
  <1>1. InductiveInv /\ [Next]_vars =>
            [\A w \in Worker, e \in Event :
                claim[e] = w /\ e \notin lapsed /\ claim'[e] # w => e \notin batch'[w]]_vars
    BY ConstantsAssumption, ClaimStep
  <1> QED BY <1>1, OutboxInductive, PTL DEF Spec, ClaimInForceIsKept

\* A step of the outbox is one of the abstract relay or leaves what it sees
\* alone: an event is marked only by a worker whose publish() returned.
LEMMA NextRefines ==
    ASSUME ConstantsAssumption, InductiveInv, [Next]_vars
    PROVE  [Relay!Next]_(Relay!vars)
  <1> USE DEF Relay!vars
  <1>0. TypeOK /\ \A w \in Worker : BatchInv(w)
    BY DEF InductiveInv
  <1>1. CASE UNCHANGED vars
    BY <1>1 DEF vars, rowVars
  <1>2. ASSUME NEW e \in Event, Store(e) \/ OrphanLapses(e)
        PROVE  [Relay!Next]_(Relay!vars)
    <2>1. CASE Store(e)
      BY <2>1 DEF Store, Relay!Next, Relay!Store
    <2>2. CASE OrphanLapses(e)
      BY <2>2 DEF OrphanLapses
    <2> QED BY <1>2, <2>1, <2>2
  <1>3. ASSUME NEW w \in Worker, WorkerStep(w) \/ WorkerFault(w)
        PROVE  [Relay!Next]_(Relay!vars)
    <2>1. CASE Deliver(w)
      <3>1. Current(w) \in Event /\ Current(w) \in stored
        BY <2>1, ActiveHasCurrent DEF Deliver, Active
      <3>2. Relay!Deliver(Current(w))
        BY <2>1, <3>1 DEF Deliver, Relay!Deliver, rowVars
      <3> QED BY <3>1, <3>2 DEF Relay!Next
    <2>2. CASE MarkPublished(w) \/ MarkRaises(w)
      <3> DEFINE c == Current(w)
      <3>1. /\ UNCHANGED <<stored, sent>>
            /\ \/ published' = published
               \/ pc[w] = "sent" /\ claim[c] = w /\ published' = published \cup {c}
        BY <2>2 DEF MarkPublished, MarkRaises
      <3>2. Active(w)
        BY <2>2 DEF MarkPublished, MarkRaises, Active
      <3>3. c \in Event /\ c \in stored
        BY <3>2, ActiveHasCurrent
      <3>4. pc[w] = "sent" => sent[c] > 0
        BY <1>0 DEF BatchInv
      <3>5. claim[c] = w => c \notin published
        BY ConstantsAssumption DEF InductiveInv, PublishedIsUnclaimed, ConstantsAssumption
      <3> HIDE DEF c
      <3> QED BY <3>1, <3>3, <3>4, <3>5 DEF Relay!Next, Relay!Confirm
    <2>3. CASE \/ SelectPending(w) \/ CommitClaim(w) \/ Reject(w) \/ MarkFailed(w)
               \/ ClaimLapses(w) \/ PublishRaises(w) \/ ClaimRaises(w) \/ Crash(w)
               \/ Start(w)
      BY <2>3 DEF SelectPending, CommitClaim, Reject, MarkFailed, ClaimLapses,
                  PublishRaises, ClaimRaises, Crash, Start, rowVars
    <2> QED BY <1>3, <2>1, <2>2, <2>3 DEF WorkerStep, WorkerFault
  <1> QED BY <1>1, <1>2, <1>3 DEF Next

\* What counts as published has been sent, and a step leaves that so.
LEMMA PublishedStaysSent ==
    ASSUME ConstantsAssumption, InductiveInv, [Next]_vars,
           \A e \in published : sent[e] > 0
    PROVE  \A e \in published' : sent'[e] > 0
  <1>1. [Relay!Next]_(Relay!vars)
    BY NextRefines
  <1>2. published \subseteq Event /\ sent \in [Event -> Nat]
    BY DEF InductiveInv, TypeOK, RowTypes
  <1>3. CASE UNCHANGED Relay!vars
    BY <1>3 DEF Relay!vars
  <1>4. CASE \E e \in Event : Relay!Store(e) \/ Relay!Confirm(e)
    BY <1>4 DEF Relay!Store, Relay!Confirm
  <1>5. CASE \E e \in Event : Relay!Deliver(e)
    <2>1. PICK e \in Event : Relay!Deliver(e)
      BY <1>5
    <2>2. published' = published /\ sent' = [sent EXCEPT ![e] = sent[e] + 1]
      BY <2>1 DEF Relay!Deliver
    <2> QED BY <1>2, <2>2
  <1> QED BY <1>1, <1>3, <1>4, <1>5 DEF Relay!Next

\* The outbox keeps the promise of AtLeastOnceRelay: an event is confirmed
\* only after the broker has it, whatever fails.
THEOREM OutboxRefines == Spec => RelaySpec
  <1>1. Init => Relay!Init
    BY DEF Init, Relay!Init
  <1>2. InductiveInv /\ [Next]_vars => [Relay!Next]_(Relay!vars)
    BY NextRefines, ConstantsAssumption
  <1> QED BY <1>1, <1>2, OutboxInductive, PTL DEF Spec, RelaySpec, Relay!Spec

-----------------------------------------------------------------------------
(* The copies of an event: CopiesInv is inductive besides InductiveInv.    *)

\* What event e has cost, as far as worker w can change it.
Load(w, e) == sent[e] + One(Turn(w, e)) + One(Open(e))

\* The other workers stay where they are.
OthersStay(w) ==
    \A v \in Worker \ {w} : pc'[v] = pc[v] /\ batch'[v] = batch[v]

\* The turns at an event change by that of the worker that moves.
LEMMA TurnsOfOne ==
    ASSUME NEW w \in Worker, NEW e, OthersStay(w), IsFiniteSet(Turns(e))
    PROVE  /\ IsFiniteSet(Turns(e)')
           /\ Cardinality(Turns(e)) \in Nat /\ Cardinality(Turns(e)') \in Nat
           /\ Cardinality(Turns(e)') =
                  Cardinality(Turns(e)) - One(Turn(w, e)) + One(Turn(w, e)')
  <1>1. \A v \in Worker \ {w} : Turn(v, e)' <=> Turn(v, e)
    BY DEF OthersStay, Turn, Current
  <1>2. Cardinality(Turns(e)) \in Nat
    BY FS_CardinalityType
  <1>3. CASE Turn(w, e) <=> Turn(w, e)'
    <2>1. Turns(e)' = Turns(e)
      BY <1>1, <1>3 DEF Turns
    <2> QED BY <1>2, <1>3, <2>1 DEF One
  <1>4. CASE Turn(w, e) /\ ~Turn(w, e)'
    <2>1. Turns(e)' = Turns(e) \ {w} /\ w \in Turns(e)
      BY <1>1, <1>4 DEF Turns
    <2>2. /\ IsFiniteSet(Turns(e) \ {w})
          /\ Cardinality(Turns(e) \ {w}) = Cardinality(Turns(e)) - 1
      BY <2>1, FS_RemoveElement
    <2>3. Cardinality(Turns(e)') \in Nat
      BY <2>1, <2>2, FS_CardinalityType
    <2> QED BY <1>2, <1>4, <2>1, <2>2, <2>3 DEF One
  <1>5. CASE ~Turn(w, e) /\ Turn(w, e)'
    <2>1. Turns(e)' = Turns(e) \cup {w} /\ w \notin Turns(e)
      BY <1>1, <1>5 DEF Turns
    <2>2. /\ IsFiniteSet(Turns(e) \cup {w})
          /\ Cardinality(Turns(e) \cup {w}) = Cardinality(Turns(e)) + 1
      BY <2>1, FS_AddElement
    <2> QED BY <1>2, <1>5, <2>1, <2>2 DEF One
  <1> QED BY <1>3, <1>4, <1>5

\* A step of w that makes an event cost no more than the failures it counts
\* keeps CopiesInv.
LEMMA CopiesStep ==
    ASSUME TypeOK, TypeOK', CopiesInv, NEW w \in Worker,
           \A e \in Event :
               /\ OthersStay(w)
               /\ Load(w, e)' <= Load(w, e) + (faults' + lapses' - faults - lapses)
    PROVE  CopiesInv'
  <1> SUFFICES ASSUME NEW e \in Event
               PROVE  /\ IsFiniteSet(Turns(e)')
                      /\ sent'[e] + Cardinality(Turns(e)') + One(Open(e)')
                             <= 1 + faults' + lapses'
    BY DEF CopiesInv, One
  <1>0. OthersStay(w)
    OBVIOUS
  <1>1. /\ IsFiniteSet(Turns(e))
        /\ sent[e] + Cardinality(Turns(e)) + One(Open(e)) <= 1 + faults + lapses
    BY DEF CopiesInv
  <1>2. /\ sent[e] \in Nat /\ sent'[e] \in Nat /\ faults \in Nat /\ faults' \in Nat
        /\ lapses \in Nat /\ lapses' \in Nat
    BY DEF TypeOK
  <1>3. /\ One(Turn(w, e)) \in Nat /\ One(Turn(w, e)') \in Nat
        /\ One(Open(e)) \in Nat /\ One(Open(e)') \in Nat
    BY DEF One
  <1>4. /\ IsFiniteSet(Turns(e)')
        /\ Cardinality(Turns(e)) \in Nat /\ Cardinality(Turns(e)') \in Nat
        /\ Cardinality(Turns(e)') =
               Cardinality(Turns(e)) - One(Turn(w, e)) + One(Turn(w, e)')
    BY <1>0, <1>1, TurnsOfOne
  <1>5. sent'[e] + One(Turn(w, e)') + One(Open(e)')
            <= sent[e] + One(Turn(w, e)) + One(Open(e)) + (faults' + lapses' - faults - lapses)
    BY DEF Load, One
  <1> QED BY <1>1, <1>2, <1>3, <1>4, <1>5

\* A worker that takes no new turn at an event, and opens it to nobody, costs
\* nothing.
LEMMA NoMoreLoad ==
    ASSUME NEW w \in Worker, NEW e \in Event, sent[e] \in Nat, sent'[e] = sent[e],
           Turn(w, e)' => Turn(w, e), Open(e)' => Open(e)
    PROVE  Load(w, e)' <= Load(w, e)
  <1>1. One(Turn(w, e)') <= One(Turn(w, e)) /\ One(Open(e)') <= One(Open(e))
    BY DEF One
  <1>2. /\ One(Turn(w, e)') \in Nat /\ One(Turn(w, e)) \in Nat
        /\ One(Open(e)') \in Nat /\ One(Open(e)) \in Nat
    BY DEF One
  <1>3. Load(w, e)' = sent[e] + One(Turn(w, e)') + One(Open(e)')
    BY DEF Load, One
  <1> QED BY <1>1, <1>2, <1>3 DEF Load

\* Nor one that opens an event in whose turn it was, or takes its turn at one
\* that was open.
LEMMA TurnAndOpen ==
    ASSUME NEW w \in Worker, NEW e \in Event, sent[e] \in Nat, sent'[e] = sent[e],
           \/ Turn(w, e) /\ ~Turn(w, e)'
           \/ Open(e) /\ ~Open(e)'
    PROVE  Load(w, e)' <= Load(w, e)
  <1>1. /\ One(Turn(w, e)') \in Nat /\ One(Turn(w, e)) \in Nat
        /\ One(Open(e)') \in Nat /\ One(Open(e)) \in Nat
    BY DEF One
  <1>2. One(Turn(w, e)') + One(Open(e)') <= One(Turn(w, e)) + One(Open(e))
    BY DEF One
  <1>3. Load(w, e)' = sent[e] + One(Turn(w, e)') + One(Open(e)')
    BY DEF Load, One
  <1> QED BY <1>1, <1>2, <1>3 DEF Load

\* A failure pays for one turn, or for one opening.
LEMMA FailureLoad ==
    ASSUME NEW w \in Worker, NEW e \in Event, sent[e] \in Nat, sent'[e] = sent[e],
           \/ Turn(w, e)' => Turn(w, e)
           \/ Open(e)' => Open(e)
    PROVE  Load(w, e)' <= Load(w, e) + 1
  <1>1. /\ One(Turn(w, e)') \in Nat /\ One(Turn(w, e)) \in Nat
        /\ One(Open(e)') \in Nat /\ One(Open(e)) \in Nat
    BY DEF One
  <1>2. One(Turn(w, e)') + One(Open(e)') <= One(Turn(w, e)) + One(Open(e)) + 1
    BY DEF One
  <1>3. Load(w, e)' = sent[e] + One(Turn(w, e)') + One(Open(e)')
    BY DEF Load, One
  <1> QED BY <1>1, <1>2, <1>3 DEF Load

\* The rows as the steps need them, without their names.
LEMMA RowFacts ==
    ASSUME ConstantsAssumption, TypeOK
    PROVE  /\ claim \in [Event -> Worker \cup {NoClaim, Orphan}]
           /\ pc \in [Worker -> {"down", "idle", "claiming", "sending", "sent", "failed"}]
           /\ batch \in [Worker -> SUBSET stored] /\ stored \subseteq Event
           /\ sent \in [Event -> Nat] /\ faults \in Nat /\ lapses \in Nat
           /\ NoClaim \notin Worker /\ Orphan \notin Worker /\ NoClaim # Orphan
  BY DEF TypeOK, RowTypes, WorkerTypes, ConstantsAssumption

\* An event that another step leaves alone is open afterwards only if it was.
LEMMA OpenStays ==
    ASSUME NEW w \in Worker, NEW e \in Event, OthersStay(w),
           pc[w] = "claiming" => e \notin batch[w],
           e \in published => e \in published',
           claim'[e] = claim[e], e \in lapsed' => e \in lapsed
    PROVE  Open(e)' => Open(e)
  <1>1. Locked(e) => Locked(e)'
    BY DEF Locked, OthersStay
  <1> QED BY <1>1 DEF Open

\* The claim: the turn of the worker is in place of the opening.
LEMMA ClaimLoad ==
    ASSUME ConstantsAssumption, InductiveInv, TypeOK', NEW w \in Worker, NEW e \in Event,
           SelectPending(w) \/ CommitClaim(w)
    PROVE  OthersStay(w) /\ Load(w, e)' <= Load(w, e)
  <1>0. TypeOK /\ BatchInv(w)
    BY DEF InductiveInv
  <1>1. CASE SelectPending(w)
    <2>1. PICK S \in SUBSET Event :
              IsSelection(S) /\ S # {} /\ batch' = [batch EXCEPT ![w] = S]
      BY <1>1 DEF SelectPending
    <2>2. /\ pc[w] = "idle" /\ pc' = [pc EXCEPT ![w] = "claiming"]
          /\ UNCHANGED <<published, claim, lapsed, sent>> /\ batch[w] = {}
      BY <1>0, <1>1 DEF SelectPending, rowVars, BatchInv
    <2>3. OthersStay(w) /\ sent[e] \in Nat /\ pc'[w] = "claiming" /\ batch'[w] = S
      BY <1>0, <2>1, <2>2, RowFacts DEF OthersStay
    <2>4. CASE e \in S
      <3>1. Open(e)
        BY <2>1, <2>4 DEF IsSelection, Claimable, Open
      <3>2. ~Open(e)'
        BY <2>3, <2>4 DEF Open, Locked
      <3> QED BY <2>2, <2>3, <3>1, <3>2, TurnAndOpen
    <2>5. CASE e \notin S
      <3>1. ~Turn(w, e)'
        BY <2>3, <2>5 DEF Turn
      <3>2. Open(e)' => Open(e)
        BY <2>2, <2>3, OpenStays
      <3> QED BY <2>2, <2>3, <3>1, <3>2, NoMoreLoad
    <2> QED BY <2>4, <2>5
  <1>2. CASE CommitClaim(w)
    <2>1. /\ pc[w] = "claiming" /\ pc' = [pc EXCEPT ![w] = "sending"] /\ batch' = batch
          /\ UNCHANGED <<published, sent>> /\ lapsed' = lapsed \ batch[w]
          /\ claim' = [x \in Event |-> IF x \in batch[w] THEN w ELSE claim[x]]
      BY <1>2 DEF CommitClaim
    <2>2. OthersStay(w) /\ sent[e] \in Nat
      BY <1>0, <2>1, RowFacts DEF OthersStay
    <2>3. Turn(w, e)' => Turn(w, e)
      BY <2>1 DEF Turn
    <2>4. Open(e)' => Open(e)
      <3>1. CASE e \in batch[w]
        BY <1>0, <2>1, <3>1, RowFacts DEF Open
      <3>2. CASE e \notin batch[w]
        BY <2>1, <2>2, <3>2, OpenStays
      <3> QED BY <3>1, <3>2
    <2> QED BY <2>1, <2>2, <2>3, <2>4, NoMoreLoad
  <1> QED BY <1>1, <1>2

\* publish(): the copy is in place of the turn.
LEMMA PublishLoad ==
    ASSUME ConstantsAssumption, InductiveInv, TypeOK', NEW w \in Worker, NEW e \in Event,
           Deliver(w) \/ Reject(w) \/ Start(w)
    PROVE  OthersStay(w) /\ Load(w, e)' <= Load(w, e)
  <1>0. TypeOK /\ BatchInv(w)
    BY DEF InductiveInv
  <1>1. /\ UNCHANGED <<published, claim, lapsed, batch>>
        /\ \E q \in {"idle", "sent", "failed"} : pc' = [pc EXCEPT ![w] = q]
        /\ pc[w] \in {"down", "sending"}
    BY DEF Deliver, Reject, Start, rowVars
  <1>2. /\ OthersStay(w) /\ sent[e] \in Nat /\ Current(w)' = Current(w)
        /\ Open(e)' => Open(e)
    <2>1. OthersStay(w) /\ sent[e] \in Nat
      BY <1>0, <1>1, RowFacts DEF OthersStay
    <2> QED BY <1>1, <2>1, OpenStays DEF Current
  <1>3. CASE Deliver(w)
    <2>1. /\ pc[w] = "sending" /\ pc'[w] = "sent" /\ Current(w) \in batch[w]
          /\ Current(w) \in Event
      BY <1>0, <1>3, RowFacts, ActiveHasCurrent DEF Deliver, Active
    <2>2. CASE e = Current(w)
      <3>1. Turn(w, e) /\ ~Turn(w, e)'
        BY <1>2, <2>1, <2>2 DEF Turn
      <3>2. sent'[e] = sent[e] + 1
        BY <1>0, <1>3, <2>1, <2>2, RowFacts DEF Deliver
      <3>3. One(Open(e)') <= One(Open(e)) /\ One(Open(e)') \in Nat /\ One(Open(e)) \in Nat
        BY <1>2 DEF One
      <3>4. Load(w, e)' = (sent[e] + 1) + 0 + One(Open(e)')
        BY <3>1, <3>2 DEF Load, One
      <3>5. Load(w, e) = sent[e] + 1 + One(Open(e))
        BY <3>1 DEF Load, One
      <3> QED BY <1>2, <3>3, <3>4, <3>5
    <2>3. CASE e # Current(w)
      <3>1. sent'[e] = sent[e]
        BY <1>0, <1>3, <2>3, RowFacts DEF Deliver
      <3>2. Turn(w, e)' => Turn(w, e)
        BY <1>1, <2>1 DEF Turn
      <3> QED BY <1>2, <3>1, <3>2, NoMoreLoad
    <2> QED BY <2>2, <2>3
  <1>4. CASE Reject(w) \/ Start(w)
    <2>1. sent' = sent /\ pc[w] # "sent"
      BY <1>4 DEF Reject, Start
    <2>2. Turn(w, e)' => Turn(w, e)
      BY <1>1, <2>1 DEF Turn
    <2> QED BY <1>2, <2>1, <2>2, NoMoreLoad
  <1> QED BY <1>3, <1>4

\* The marks: an event that is marked failed is open again, in place of the
\* turn that failed.
LEMMA MarkLoad ==
    ASSUME ConstantsAssumption, InductiveInv, TypeOK', NEW w \in Worker, NEW e \in Event,
           MarkPublished(w) \/ MarkFailed(w)
    PROVE  OthersStay(w) /\ Load(w, e)' <= Load(w, e)
  <1> DEFINE c == Current(w)
  <1>0. TypeOK /\ Active(w) /\ pc[w] \in {"sent", "failed"}
    BY DEF InductiveInv, MarkPublished, MarkFailed, Active
  <1>1. /\ sent' = sent /\ batch' = [batch EXCEPT ![w] = batch[w] \ {c}]
        /\ \E q \in {"idle", "sending"} : pc' = [pc EXCEPT ![w] = q]
        /\ \/ UNCHANGED <<published, claim, lapsed>>
           \/ /\ published' = published \/ (pc[w] = "sent" /\ published' = published \cup {c})
              /\ claim' = [claim EXCEPT ![c] = NoClaim] /\ lapsed' = lapsed \ {c}
              /\ pc[w] = "sent" => c \in published'
    BY DEF MarkPublished, MarkFailed, NextEvent, Unclaim
  <1>2. c \in batch[w] /\ c \in Event
    BY <1>0, ActiveHasCurrent
  <1>3. Turn(w, e) <=> e \in batch[w] /\ ~(pc[w] = "sent" /\ e = c)
    BY DEF Turn
  <1> HIDE DEF c
  <1>4. /\ OthersStay(w) /\ sent[e] \in Nat
        /\ batch'[w] = batch[w] \ {c}
    BY <1>0, <1>1, RowFacts DEF OthersStay
  <1>5. CASE e # c
    <2>1. Turn(w, e)' => Turn(w, e)
      BY <1>3, <1>4, <1>5 DEF Turn
    <2>2. claim'[e] = claim[e] /\ (e \in lapsed' => e \in lapsed)
          /\ (e \in published => e \in published')
      BY <1>0, <1>1, <1>5, RowFacts
    <2>3. Open(e)' => Open(e)
      BY <1>0, <1>4, <2>2, OpenStays
    <2> QED BY <1>1, <1>4, <2>1, <2>3, NoMoreLoad
  <1>6. CASE e = c
    <2>1. ~Turn(w, e)'
      BY <1>4, <1>6 DEF Turn
    <2>2. CASE pc[w] = "failed"
      BY <1>1, <1>2, <1>3, <1>4, <1>6, <2>1, <2>2, TurnAndOpen
    <2>3. CASE pc[w] = "sent"
      <3>1. Open(e)' => Open(e)
        <4>1. CASE UNCHANGED <<published, claim, lapsed>>
          BY <1>4, <2>3, <4>1, OpenStays
        <4>2. CASE c \in published'
          BY <1>6, <4>2 DEF Open
        <4> QED BY <1>1, <2>3, <4>1, <4>2
      <3> QED BY <1>1, <1>4, <2>1, <3>1, NoMoreLoad
    <2> QED BY <1>0, <2>2, <2>3
  <1> QED BY <1>4, <1>5, <1>6

\* The failures, and the claim that lapses under its worker.
LEMMA FaultLoad ==
    ASSUME ConstantsAssumption, InductiveInv, TypeOK', NEW w \in Worker, NEW e \in Event,
           \/ ClaimLapses(w) \/ PublishRaises(w) \/ ClaimRaises(w) \/ MarkRaises(w)
           \/ Crash(w)
    PROVE  OthersStay(w) /\ Load(w, e)' <= Load(w, e) + 1
  <1>0. TypeOK /\ BatchInv(w)
    BY DEF InductiveInv
  <1>1. CASE ClaimLapses(w)
    <2>1. UNCHANGED <<sent, pc, batch>>
      BY <1>1 DEF ClaimLapses
    <2>2. Turn(w, e)' => Turn(w, e)
      BY <2>1 DEF Turn, Current
    <2> QED BY <1>0, <2>1, <2>2, RowFacts, FailureLoad DEF OthersStay
  <1>2. CASE PublishRaises(w)
    <2>1. /\ UNCHANGED <<published, claim, lapsed, sent, batch>>
          /\ pc[w] \in {"sending", "sent"} /\ pc' = [pc EXCEPT ![w] = "failed"]
      BY <1>2 DEF PublishRaises, rowVars
    <2>2. OthersStay(w) /\ sent[e] \in Nat
      BY <1>0, <2>1, RowFacts DEF OthersStay
    <2>3. Open(e)' => Open(e)
      BY <2>1, <2>2, OpenStays
    <2> QED BY <2>1, <2>2, <2>3, FailureLoad
  <1>3. CASE ClaimRaises(w) \/ MarkRaises(w) \/ Crash(w)
    <2>1. /\ sent' = sent /\ batch' = [batch EXCEPT ![w] = {}]
          /\ \E q \in {"idle", "down"} : pc' = [pc EXCEPT ![w] = q]
      BY <1>3 DEF ClaimRaises, MarkRaises, Crash, LeaveBatch
    <2>2. OthersStay(w) /\ sent[e] \in Nat /\ batch'[w] = {}
      BY <1>0, <2>1, RowFacts DEF OthersStay
    <2>3. ~Turn(w, e)'
      BY <2>2 DEF Turn
    <2> QED BY <2>1, <2>2, <2>3, FailureLoad
  <1> QED BY <1>1, <1>2, <1>3

\* Every step keeps CopiesInv.
LEMMA NextCopies ==
    ASSUME ConstantsAssumption, InductiveInv, CopiesInv, [Next]_vars
    PROVE  CopiesInv'
  <1>0. TypeOK /\ TypeOK'
    BY NextInductive DEF InductiveInv
  <1>1. /\ faults \in Nat /\ lapses \in Nat
        /\ \A w \in Worker, e \in Event : Load(w, e) \in Nat /\ Load(w, e)' \in Nat
    BY <1>0 DEF TypeOK, Load, One
  <1>2. ASSUME UNCHANGED <<published, sent, pc, batch, faults, lapses, claim>>,
               \A e \in lapsed' \ lapsed : claim[e] = Orphan
        PROVE  CopiesInv'
    <2> SUFFICES ASSUME NEW e \in Event
                 PROVE  /\ IsFiniteSet(Turns(e)')
                        /\ sent[e] + Cardinality(Turns(e)') + One(Open(e)')
                               <= 1 + faults + lapses
      BY <1>2 DEF CopiesInv, One
    <2>1. Turns(e)' = Turns(e)
      BY <1>2 DEF Turns, Turn, Current
    <2>2. Open(e)' => Open(e)
      BY <1>2 DEF Open, Locked
    <2>3. /\ One(Open(e)') <= One(Open(e)) /\ One(Open(e)') \in Nat /\ One(Open(e)) \in Nat
      BY <2>2 DEF One
    <2>4. /\ IsFiniteSet(Turns(e)) /\ Cardinality(Turns(e)) \in Nat /\ sent[e] \in Nat
          /\ sent[e] + Cardinality(Turns(e)) + One(Open(e)) <= 1 + faults + lapses
      BY <1>0, FS_CardinalityType DEF CopiesInv, TypeOK
    <2> QED BY <1>1, <2>1, <2>3, <2>4
  <1>3. CASE UNCHANGED vars
    BY <1>2, <1>3 DEF vars, rowVars
  <1>4. CASE \E e \in Event : Store(e) \/ OrphanLapses(e)
    BY <1>2, <1>4 DEF Store, OrphanLapses
  <1>5. ASSUME NEW w \in Worker, WorkerStep(w) \/ Start(w) PROVE CopiesInv'
    <2>1. faults' = faults /\ lapses' = lapses
      BY <1>5 DEF WorkerStep, Start, SelectPending, CommitClaim, Deliver, Reject,
                  MarkPublished, MarkFailed
    <2>2. \A e \in Event : OthersStay(w) /\ Load(w, e)' <= Load(w, e)
      BY <1>0, <1>5, ClaimLoad, PublishLoad, MarkLoad DEF WorkerStep
    <2>3. \A e \in Event :
              /\ OthersStay(w)
              /\ Load(w, e)' <= Load(w, e) + (faults' + lapses' - faults - lapses)
      BY <1>1, <2>1, <2>2
    <2> QED BY <1>0, <2>2, <2>3, CopiesStep
  <1>6. ASSUME NEW w \in Worker, WorkerFault(w), ~Start(w) PROVE CopiesInv'
    <2>1. \/ faults' = faults + 1 /\ lapses' = lapses
          \/ faults' = faults /\ lapses' = lapses + 1
      BY <1>6 DEF WorkerFault, ClaimLapses, PublishRaises, ClaimRaises, MarkRaises, Crash, Fault
    <2>2. \A e \in Event : OthersStay(w) /\ Load(w, e)' <= Load(w, e) + 1
      BY <1>0, <1>6, FaultLoad DEF WorkerFault
    <2>3. faults' + lapses' - faults - lapses = 1
      BY <1>1, <2>1
    <2> QED BY <1>0, <2>2, <2>3, CopiesStep
  <1> QED BY <1>3, <1>4, <1>5, <1>6 DEF Next

\* Every copy of an event but the first has its cause: a broker or database
\* error, a crash, or a claim that lapsed under its worker.
THEOREM CopiesHaveCauses == Spec => []CopiesAreExplained
  <1>1. Init => CopiesInv
    <2> SUFFICES ASSUME Init, NEW e \in Event
                 PROVE  /\ IsFiniteSet(Turns(e))
                        /\ sent[e] + Cardinality(Turns(e)) + One(Open(e)) <= 1 + faults + lapses
      BY DEF CopiesInv
    <2>1. Turns(e) = {}
      BY DEF Init, Turns, Turn
    <2>2. IsFiniteSet(Turns(e)) /\ Cardinality(Turns(e)) = 0
      BY <2>1, FS_EmptySet
    <2>3. sent[e] = 0 /\ faults = 0 /\ lapses = 0 /\ One(Open(e)) \in {0, 1}
      BY DEF Init, One
    <2> QED BY <2>2, <2>3
  <1>2. InductiveInv /\ CopiesInv /\ [Next]_vars => CopiesInv'
    BY NextCopies, ConstantsAssumption
  <1>3. InductiveInv /\ CopiesInv => CopiesAreExplained
    <2> SUFFICES ASSUME InductiveInv, CopiesInv, NEW e \in Event
                 PROVE  sent[e] <= 1 + faults + lapses
      BY DEF CopiesAreExplained
    <2>1. /\ IsFiniteSet(Turns(e)) /\ One(Open(e)) \in Nat
          /\ sent[e] + Cardinality(Turns(e)) + One(Open(e)) <= 1 + faults + lapses
      BY DEF CopiesInv, One
    <2>2. Cardinality(Turns(e)) \in Nat
      BY <2>1, FS_CardinalityType
    <2>3. sent[e] \in Nat /\ faults \in Nat /\ lapses \in Nat
      BY DEF InductiveInv, TypeOK
    <2> QED BY <2>1, <2>2, <2>3
  <1> QED BY <1>1, <1>2, <1>3, OutboxInductive, PTL DEF Spec
=============================================================================

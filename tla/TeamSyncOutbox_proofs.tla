----------------------- MODULE TeamSyncOutbox_proofs -----------------------
(***************************************************************************)
(* Proofs about TeamSyncOutbox: its types, then the retry budget, the      *)
(* single pending entry per state key and "the outbox tracks only what     *)
(* went out", by one inductive invariant that carries what the scan loop   *)
(* knows between its decision to retry an object and its last record; and  *)
(* that a scan never skips what was written while the runtime runs.        *)
(***************************************************************************)
EXTENDS TeamSyncOutbox, TLAPS

-----------------------------------------------------------------------------
(* The operators on entries of the outbox.                                 *)

\* Writing a status and restarting the clock of an entry.
LEMMA MarkedType ==
  ASSUME NEW p \in PendingState, NEW s \in {"none", "pending"} \cup Settled
  PROVE  /\ Marked(p, s) \in PendingState
         /\ Marked(p, s).status = s
         /\ Marked(p, s).retry = p.retry
  BY DEF PendingState, Marked, Fresh, Stale

LEMMA NoPendingType == NoPending \in PendingState
  BY DEF PendingState, NoPending, Settled, Fresh, Stale

LEMMA CompactItemType ==
  ASSUME NEW p \in PendingState
  PROVE  CompactItem(p) \in PendingState
  BY MarkedType, NoPendingType DEF CompactItem, Settled

LEMMA CompactType ==
  ASSUME NEW f \in [Key -> PendingState]
  PROVE  Compact(f) \in [Key -> PendingState]
  BY CompactItemType DEF Compact

\* A compacted entry is unchanged, settled by expiry, or removed.
LEMMA CompactItemCases ==
  ASSUME NEW p \in PendingState
  PROVE  \/ CompactItem(p) = p
         \/ CompactItem(p).status = "expired" /\ p.status = "pending" /\ CompactItem(p).retry = p.retry
         \/ CompactItem(p) = NoPending /\ p.status # "none"
  BY BoundsAssumption DEF PendingState, CompactItem, Marked, OverBudget, NoPending, Settled, Fresh, Resolved, Stale

\* Compaction leaves no pending entry without budget.
LEMMA CompactItemBudget ==
  ASSUME NEW p \in PendingState, CompactItem(p).status = "pending"
  PROVE  p = CompactItem(p) /\ p.retry < PendingMaxRetry
  BY BoundsAssumption DEF PendingState, CompactItem, Marked, OverBudget, NoPending, Settled, Fresh, Resolved, Stale

LEMMA BumpedType ==
  ASSUME NEW p \in PendingState
  PROVE  Bumped(p) \in PendingState
  BY DEF PendingState, Bumped, Settled, Fresh, Stale

LEMMA EnqueuedType ==
  ASSUME NEW k \in Key, pending \in [Key -> PendingState]
  PROVE  Enqueued(k) \in [Key -> PendingState]
<1> SUFFICES ASSUME NEW j \in Key PROVE Enqueued(k)[j] \in PendingState
  BY DEF Enqueued
<1>1. Marked(pending[k], "pending") \in PendingState
  BY MarkedType DEF Settled
<1>2. Marked(pending[j], "superseded") \in PendingState
  BY MarkedType DEF Settled
<1> QED BY <1>1, <1>2 DEF Enqueued

LEMMA AckedType ==
  ASSUME NEW k \in Key, pending \in [Key -> PendingState]
  PROVE  Acked(k) \in [Key -> PendingState]
<1> SUFFICES ASSUME NEW j \in Key PROVE Acked(k)[j] \in PendingState
  BY DEF Acked
<1>1. Marked(pending[j], "acked") \in PendingState
  BY MarkedType DEF Settled
<1> QED BY <1>1 DEF Acked

LEMMA ExpireType ==
  ASSUME NEW k \in Key, pending \in [Key -> PendingState], ExpireIfOverBudget(k)
  PROVE  pending' \in [Key -> PendingState]
<1> DEFINE e == [pending EXCEPT ![k] = Marked(@, "expired")]
<1>1. e \in [Key -> PendingState]
  BY MarkedType DEF Settled
<1>2. Compact(e) \in [Key -> PendingState]
  BY <1>1, CompactType
<1> QED BY <1>2 DEF ExpireIfOverBudget, stateVars

LEMMA ExpireKeepsCp == ASSUME NEW k \in Key, ExpireIfOverBudget(k) PROVE cp' = cp /\ acks' = acks
BY DEF ExpireIfOverBudget, stateVars

LEMMA OlderType ==
  ASSUME NEW p \in PendingState
  PROVE  Older(p) \in PendingState /\ Older(p).status = p.status /\ Older(p).retry = p.retry
  BY DEF Older, PendingState, Fresh, Stale

\* The file holds the state as it was at some write.
LEMMA FileStep ==
  ASSUME [Next]_vars
  PROVE  \/ file' = file /\ faults' \in {faults, faults + 1}
         \/ file' = InMemory' /\ faults' = faults
         \/ \E k \in Key : AgePending(k)
<1> DEFINE Goal == \/ file' = file /\ faults' \in {faults, faults + 1}
                   \/ file' = InMemory' /\ faults' = faults
<1>1. Written => Goal
  BY DEF Written, Saved, NotSaved
<1>2. ASSUME NEW k \in Key, ExpireIfOverBudget(k) PROVE Goal
  BY <1>1, <1>2 DEF ExpireIfOverBudget, fileVars
<1> USE DEF fileVars
<1>3. UNCHANGED fileVars => Goal
  OBVIOUS
<1>4. ASSUME NEW k \in Key,
             LocalWrite(k) \/ RemoteStore(k) \/ RemoteRecord(k) \/ PruneSeen(k) \/ AckClear(k)
      PROVE  Goal
  BY <1>1, <1>3, <1>4 DEF LocalWrite, RemoteStore, RemoteRecord, PruneSeen, AckClear
<1>5. ASSUME NEW k \in Key, ScanSkip(k) \/ ScanSelect(k) PROVE Goal
  BY <1>2, <1>5 DEF ScanSkip, ScanSelect
<1>6. CASE PublishFail \/ PublishOk \/ RecordPublished \/ PersistPending \/ ScanEnd
  BY <1>1, <1>3, <1>6 DEF PublishFail, PublishOk, RecordPublished, PersistPending, ScanEnd
<1>7. CASE PersistCheckpoint
  BY <1>7 DEF PersistCheckpoint, Saved, NotSaved
<1>8. ASSUME NEW b \in Bucket, ScanStart(b) PROVE Goal
  BY <1>3, <1>8 DEF ScanStart
<1>9. ASSUME NEW p \in Peer, NEW k \in Key, PeerApply(p, k) \/ AckRecord(k, p) PROVE Goal
  BY <1>3, <1>9 DEF PeerApply, AckRecord, Saved, NotSaved
<1>10. CASE Restart
  BY <1>3, <1>10 DEF Restart
<1>11. CASE UNCHANGED vars
  BY <1>3, <1>11 DEF vars
<1> QED BY <1>4, <1>5, <1>6, <1>7, <1>8, <1>9, <1>10, <1>11 DEF Next, ScanStep

-----------------------------------------------------------------------------
LEMMA InitType == Init => TypeOK
<1> SUFFICES ASSUME Init PROVE TypeOK
  OBVIOUS
<1>1. store \subseteq Key /\ born \subseteq Key /\ seen \subseteq Key /\ primed \subseteq Bucket
  BY DEF Init
<1>2. acking \subseteq Key /\ applying \subseteq Key /\ acks \subseteq Key \X Peer /\ todo \subseteq Key
  BY DEF Init
<1>3. cp \in [StateKey -> Nat] /\ pending \in [Key -> PendingState]
  BY NoPendingType DEF Init
<1>4. sent \subseteq Key /\ acksSent \subseteq Key \X Peer /\ has \in [Peer -> SUBSET Key]
  BY DEF Init
<1>5. file \in StateType
  BY <1>2, <1>3 DEF Init, InMemory, StateType
<1> QED BY <1>1, <1>2, <1>3, <1>4, <1>5 DEF Init, TypeOK

\* All but the file.
TypeOfRuntime ==
  /\ store \subseteq Key /\ born \subseteq Key /\ seen \subseteq Key
  /\ primed \subseteq Bucket /\ acking \subseteq Key /\ applying \subseteq Key
  /\ cp \in [StateKey -> Nat]
  /\ pending \in [Key -> PendingState]
  /\ acks \subseteq Key \X Peer
  /\ pc \in {"idle", "scan", "publish", "sent", "recorded", "checkpointed"}
  /\ bucket \in (IF pc = "idle" THEN {None} ELSE Bucket)
  /\ first \in BOOLEAN /\ todo \subseteq Key
  /\ cur \in (IF pc \in {"idle", "scan"} THEN {None} ELSE Key) /\ retrying \in BOOLEAN
  /\ sent \subseteq Key /\ has \in [Peer -> SUBSET Key] /\ acksSent \subseteq Key \X Peer
  /\ restarts \in Nat

LEMMA NextTypeOfRuntime == TypeOK /\ [Next]_vars => TypeOfRuntime'
<1> SUFFICES ASSUME TypeOK, [Next]_vars PROVE TypeOfRuntime'
  OBVIOUS
<1> USE KeysAssumption, BoundsAssumption DEF TypeOK, TypeOfRuntime, scanVars, stateVars, wireVars
<1>1. CASE UNCHANGED vars
  BY <1>1 DEF vars
<1>2. ASSUME NEW k \in Key, LocalWrite(k) PROVE TypeOfRuntime'
  BY <1>2 DEF LocalWrite
<1>3. ASSUME NEW k \in Key, RemoteStore(k) PROVE TypeOfRuntime'
  BY <1>3 DEF RemoteStore
<1>4. ASSUME NEW k \in Key, RemoteRecord(k) PROVE TypeOfRuntime'
  BY <1>4, CompactType DEF RemoteRecord
<1>5. ASSUME NEW k \in Key, PruneSeen(k) PROVE TypeOfRuntime'
  BY <1>5 DEF PruneSeen
<1>6. ASSUME NEW k \in Key, AckClear(k) PROVE TypeOfRuntime'
  BY <1>6, CompactType, AckedType DEF AckClear
<1>7. ASSUME NEW k \in Key, AgePending(k) PROVE TypeOfRuntime'
  <2>1. pending' \in [Key -> PendingState]
    BY <1>7, OlderType DEF AgePending
  <2> QED BY <1>7, <2>1 DEF AgePending
<1>8. ASSUME NEW b \in Bucket, ScanStart(b) PROVE TypeOfRuntime'
  BY <1>8 DEF ScanStart, InBucket, Current
<1>9. ASSUME NEW k \in Key, ScanSkip(k) PROVE TypeOfRuntime'
  BY <1>9, ExpireType, ExpireKeepsCp DEF ScanSkip
<1>10. ASSUME NEW k \in Key, ScanSelect(k) PROVE TypeOfRuntime'
  <2>1. retrying' \in BOOLEAN
    BY <1>10 DEF ScanSelect, ShouldRetry
  <2> QED BY <1>10, <2>1, ExpireType, ExpireKeepsCp DEF ScanSelect
<1>11. CASE PublishFail
  BY <1>11 DEF PublishFail
<1>12. CASE PublishOk
  BY <1>12 DEF PublishOk
<1>13. CASE RecordPublished
  <2>1. [pending EXCEPT ![cur] = Bumped(@)] \in [Key -> PendingState]
    BY <1>13, BumpedType DEF RecordPublished
  <2> QED BY <1>13, <2>1, CompactType DEF RecordPublished
<1>14. CASE PersistCheckpoint
  <2>1. cp' \in [StateKey -> Nat]
    BY <1>14 DEF PersistCheckpoint
  <2>2. CASE UNCHANGED <<todo, cur, retrying>> /\ pc' = "checkpointed"
    BY <1>14, <2>1, <2>2, CompactType DEF PersistCheckpoint
  <2>3. CASE pc' = "scan" /\ todo' = todo \ {cur} /\ cur' = None /\ retrying' = FALSE
    BY <1>14, <2>1, <2>3, CompactType DEF PersistCheckpoint
  <2> QED BY <1>14, <2>2, <2>3 DEF PersistCheckpoint
<1>15. CASE PersistPending
  <2>1. Enqueued(cur) \in [Key -> PendingState]
    BY <1>15, EnqueuedType DEF PersistPending
  <2> QED BY <1>15, <2>1, CompactType DEF PersistPending
<1>16. CASE ScanEnd
  BY <1>16 DEF ScanEnd
<1>17. ASSUME NEW p \in Peer, NEW k \in Key, PeerApply(p, k) PROVE TypeOfRuntime'
  BY <1>17 DEF PeerApply
<1>18. ASSUME NEW p \in Peer, NEW k \in Key, AckRecord(k, p) PROVE TypeOfRuntime'
  BY <1>18, CompactType DEF AckRecord
<1>19. CASE Restart
  <2>1. /\ born' \subseteq Key /\ seen' \subseteq Key /\ primed' \subseteq Bucket
        /\ acking' \subseteq Key /\ applying' \subseteq Key /\ todo' \subseteq Key
    BY <1>19 DEF Restart
  <2>2. /\ pc' = "idle" /\ bucket' = None /\ first' = FALSE /\ cur' = None /\ retrying' = FALSE
        /\ restarts' \in Nat
    BY <1>19 DEF Restart
  <2>3. UNCHANGED <<store, wireVars>>
    BY <1>19 DEF Restart
  <2>4. cp' \in [StateKey -> Nat] /\ pending' \in [Key -> PendingState] /\ acks' \subseteq Key \X Peer
    BY <1>19 DEF Restart, StateType
  <2> QED BY <2>1, <2>2, <2>3, <2>4
<1> QED
  BY <1>1, <1>2, <1>3, <1>4, <1>5, <1>6, <1>7, <1>8, <1>9, <1>10, <1>11, <1>12, <1>13,
     <1>14, <1>15, <1>16, <1>17, <1>18, <1>19 DEF Next, ScanStep

LEMMA NextType == TypeOK /\ [Next]_vars => TypeOK'
<1> SUFFICES ASSUME TypeOK, [Next]_vars PROVE TypeOK'
  OBVIOUS
<1>1. TypeOfRuntime'
  BY NextTypeOfRuntime
<1>2. file \in StateType /\ faults \in Nat
  BY DEF TypeOK
<1>3. file' \in StateType /\ faults' \in Nat
  <2>1. CASE file' = file /\ faults' \in {faults, faults + 1}
    BY <1>2, <2>1
  <2>2. CASE file' = InMemory' /\ faults' = faults
    BY <1>1, <1>2, <2>2 DEF TypeOfRuntime, InMemory, StateType
  <2>3. ASSUME NEW k \in Key, AgePending(k) PROVE file' \in StateType /\ faults' \in Nat
    <3>1. [file.pending EXCEPT ![k] = Older(@)] \in [Key -> PendingState]
      BY <1>2, OlderType DEF StateType
    <3> QED BY <1>2, <2>3, <3>1 DEF AgePending, StateType
  <2> QED BY <2>1, <2>2, <2>3, FileStep
<1> QED BY <1>1, <1>3 DEF TypeOfRuntime, TypeOK

\* The types of the runtime's state hold throughout, for any keys, peers and bounds.
THEOREM TypeCorrect == Spec => []TypeOK
  BY InitType, NextType, PTL DEF Spec

-----------------------------------------------------------------------------
(* The inductive invariant.                                                *)

\* While a retry is under way, its entry still has budget and nothing else of its state
\* key is pending: what shouldRetryPending read stays true until the bump, because
\* acks, expiries and compaction only settle entries.
RetryInFlight ==
  (retrying /\ pc \in {"publish", "sent"}) =>
    /\ pending[cur].retry < PendingMaxRetry
    /\ \A j \in Key : (j # cur /\ StateKeyOf[j] = StateKeyOf[cur]) => pending[j].status # "pending"

PublishedIsSent == pc \in {"sent", "recorded", "checkpointed"} => cur \in sent

Inv ==
  /\ TypeOK /\ RetryBudget /\ OnePendingPerStateKey /\ OutboxHoldsOnlySent
  /\ RetryInFlight /\ PublishedIsSent

\* The same of what is on disk, where a failed write leaves an older state.
FileSound ==
  /\ \A k \in Key : /\ file.pending[k].retry <= PendingMaxRetry
                    /\ file.pending[k].status = "pending" => file.pending[k].retry < PendingMaxRetry
                    /\ file.pending[k].status # "none" => k \in sent
  /\ \A j, k \in Key :
        (/\ StateKeyOf[j] = StateKeyOf[k]
         /\ file.pending[j].status = "pending" /\ file.pending[k].status = "pending") => j = k
  /\ \A s \in StateKey : file.cp[s] # 0 =>
        \E k \in sent : StateKeyOf[k] = s /\ VersionOf[k] = file.cp[s]

\* What acks, expiries, compaction and time do to an entry p, leaving q.
Quiet(p, q) ==
  /\ q.retry <= p.retry
  /\ q.status = "pending" => p.status = "pending"
  /\ q.status # "none" => p.status # "none"

LEMMA CompactItemQuiet ==
  ASSUME NEW p \in PendingState
  PROVE  Quiet(p, CompactItem(p))
<1>1. CASE CompactItem(p) = p
  BY <1>1 DEF Quiet, PendingState
<1>2. CASE CompactItem(p).status = "expired" /\ p.status = "pending" /\ CompactItem(p).retry = p.retry
  BY <1>2 DEF Quiet, PendingState
<1>3. CASE CompactItem(p) = NoPending /\ p.status # "none"
  BY <1>3 DEF Quiet, PendingState, NoPending
<1> QED BY <1>1, <1>2, <1>3, CompactItemCases

LEMMA MarkedCompactQuiet ==
  ASSUME NEW p \in PendingState, NEW s \in Settled, p.status # "none"
  PROVE  Quiet(p, CompactItem(Marked(p, s)))
<1>1. Marked(p, s) \in PendingState /\ Marked(p, s).status = s /\ Marked(p, s).retry = p.retry
  BY MarkedType
<1>2. Quiet(Marked(p, s), CompactItem(Marked(p, s)))
  BY <1>1, CompactItemQuiet
<1>3. CompactItem(Marked(p, s)) \in PendingState
  BY <1>1, CompactItemType
<1> QED BY <1>1, <1>2, <1>3 DEF Quiet, Settled, PendingState

\* A step that only quiets entries, while the loop stands still or drops its retry,
\* keeps the invariant.
LEMMA QuietStep ==
  ASSUME Inv, TypeOK', cp' = cp, sent \subseteq sent',
         \A k \in Key : Quiet(pending[k], pending'[k]),
         \/ UNCHANGED <<pc, cur, retrying>>
         \/ pc' \in {"idle", "scan"}
  PROVE  Inv'
<1> USE DEF Inv
<1>1. \A k \in Key : pending[k] \in PendingState /\ pending'[k] \in PendingState
  BY DEF TypeOK
<1>2. \A k \in Key : /\ pending[k].retry \in Nat /\ pending'[k].retry \in Nat
                     /\ pending'[k].retry <= pending[k].retry
  BY <1>1 DEF PendingState, Quiet
<1>3. RetryBudget'
  BY <1>2, BoundsAssumption DEF RetryBudget, Quiet
<1>4. OnePendingPerStateKey'
  BY DEF OnePendingPerStateKey, Quiet
<1>5. OutboxHoldsOnlySent'
  BY DEF OutboxHoldsOnlySent, Quiet
<1>6. RetryInFlight' /\ PublishedIsSent'
  <2>1. CASE UNCHANGED <<pc, cur, retrying>>
    <3>1. (retrying /\ pc \in {"publish", "sent"}) => cur \in Key
      BY DEF TypeOK
    <3> QED BY <2>1, <3>1, <1>2, BoundsAssumption DEF RetryInFlight, PublishedIsSent, Quiet
  <2>2. CASE pc' \in {"idle", "scan"}
    BY <2>2 DEF RetryInFlight, PublishedIsSent
  <2> QED BY <2>1, <2>2
<1> QED BY <1>3, <1>4, <1>5, <1>6

LEMMA SameIsQuiet == ASSUME TypeOK, pending' = pending PROVE \A k \in Key : Quiet(pending[k], pending'[k])
  BY DEF TypeOK, PendingState, Quiet

LEMMA CompactIsQuiet ==
  ASSUME TypeOK, pending' = Compact(pending)
  PROVE  \A k \in Key : Quiet(pending[k], pending'[k])
  BY CompactItemQuiet DEF TypeOK, Compact

LEMMA ExpireIsQuiet ==
  ASSUME TypeOK, NEW k \in Key, ExpireIfOverBudget(k)
  PROVE  \A j \in Key : Quiet(pending[j], pending'[j])
<1>1. CASE pending[k].status = "pending" /\ OverBudget(pending[k])
  <2>1. SUFFICES ASSUME NEW j \in Key PROVE Quiet(pending[j], pending'[j])
    OBVIOUS
  <2>2. pending'[j] = CompactItem(IF j = k THEN Marked(pending[k], "expired") ELSE pending[j])
    BY <1>1 DEF ExpireIfOverBudget, Compact, TypeOK
  <2>3. CASE j = k
    BY <1>1, <2>2, <2>3, MarkedCompactQuiet DEF TypeOK, Settled
  <2>4. CASE j # k
    BY <2>2, <2>4, CompactItemQuiet DEF TypeOK
  <2> QED BY <2>3, <2>4
<1>2. CASE ~(pending[k].status = "pending" /\ OverBudget(pending[k]))
  BY <1>2, SameIsQuiet DEF ExpireIfOverBudget, stateVars
<1> QED BY <1>1, <1>2

LEMMA AckClearIsQuiet ==
  ASSUME TypeOK, NEW k \in Key, AckClear(k)
  PROVE  \A j \in Key : Quiet(pending[j], pending'[j])
<1>1. CASE pending[k].status = "none"
  BY <1>1, SameIsQuiet DEF AckClear
<1>2. CASE pending[k].status # "none"
  <2>1. SUFFICES ASSUME NEW j \in Key PROVE Quiet(pending[j], pending'[j])
    OBVIOUS
  <2>2. pending'[j] = CompactItem(IF j = k THEN Marked(pending[j], "acked") ELSE pending[j])
    BY <1>2 DEF AckClear, Compact, Acked, AckedBy
  <2>3. CASE j = k
    BY <1>2, <2>2, <2>3, MarkedCompactQuiet DEF TypeOK, Settled
  <2>4. CASE j # k
    BY <2>2, <2>4, CompactItemQuiet DEF TypeOK
  <2> QED BY <2>3, <2>4
<1> QED BY <1>1, <1>2

-----------------------------------------------------------------------------
(* The two steps that make an entry pending.                               *)

LEMMA RecordPublishedInv == ASSUME Inv, TypeOK', RecordPublished PROVE Inv'
<1> DEFINE b == [pending EXCEPT ![cur] = Bumped(@)]
<1> USE DEF Inv
<1>1. cur \in Key /\ cur \in sent /\ cp' = cp /\ sent' = sent /\ cur' = cur
  BY DEF RecordPublished, TypeOK, PublishedIsSent, wireVars
<1>2. RetryInFlight' /\ PublishedIsSent'
  BY <1>1 DEF RecordPublished, RetryInFlight, PublishedIsSent
<1>3. CASE ~retrying
  <2>1. \A k \in Key : Quiet(pending[k], pending'[k])
    BY <1>3, SameIsQuiet DEF RecordPublished
  <2>2. RetryBudget' /\ OnePendingPerStateKey' /\ OutboxHoldsOnlySent'
    <3>1. pending' = pending
      BY <1>3 DEF RecordPublished
    <3> QED BY <1>1, <3>1 DEF RetryBudget, OnePendingPerStateKey, OutboxHoldsOnlySent
  <2> QED BY <1>2, <2>2
<1>4. CASE retrying
  <2>1. /\ pending[cur].retry < PendingMaxRetry
        /\ \A j \in Key : (j # cur /\ StateKeyOf[j] = StateKeyOf[cur]) => pending[j].status # "pending"
    BY <1>4 DEF RecordPublished, RetryInFlight
  <2>2. \A k \in Key : pending'[k] = CompactItem(IF k = cur THEN Bumped(pending[k]) ELSE pending[k])
    BY <1>4, <1>1 DEF RecordPublished, Compact, TypeOK
  <2>3. \A k \in Key : k # cur => Quiet(pending[k], pending'[k])
    BY <2>2, CompactItemQuiet DEF TypeOK
  <2>4. Bumped(pending[cur]) \in PendingState /\ pending[cur] \in PendingState
    BY <1>1, BumpedType DEF TypeOK
  <2>5. Quiet(Bumped(pending[cur]), pending'[cur])
    BY <1>1, <2>2, <2>4, CompactItemQuiet
  <2>6. /\ pending'[cur].retry <= PendingMaxRetry
        /\ pending'[cur].status = "pending" => pending'[cur].retry < PendingMaxRetry
    <3>1. Bumped(pending[cur]).retry <= PendingMaxRetry
      BY <2>1, <2>4, BoundsAssumption DEF Bumped, PendingState
    <3>2. pending'[cur] \in PendingState
      BY <1>1 DEF TypeOK
    <3>3. pending'[cur].retry <= PendingMaxRetry
      BY <3>1, <3>2, <2>4, <2>5, BoundsAssumption DEF Quiet, PendingState
    <3>4. pending'[cur].status = "pending" => pending'[cur].retry < PendingMaxRetry
      BY <1>1, <2>2, <2>4, CompactItemBudget
    <3> QED BY <3>3, <3>4
  <2>7. RetryBudget'
    <3>1. ASSUME NEW k \in Key, k # cur
          PROVE  /\ pending'[k].retry <= PendingMaxRetry
                 /\ pending'[k].status = "pending" => pending'[k].retry < PendingMaxRetry
      <4>1. pending[k] \in PendingState /\ pending'[k] \in PendingState
        BY DEF TypeOK
      <4> QED BY <3>1, <2>3, <4>1, BoundsAssumption DEF RetryBudget, Quiet, PendingState
    <3> QED BY <2>6, <3>1 DEF RetryBudget
  <2>8. OnePendingPerStateKey'
    BY <1>1, <2>1, <2>3 DEF OnePendingPerStateKey, Quiet
  <2>9. OutboxHoldsOnlySent'
    BY <1>1, <2>3 DEF OutboxHoldsOnlySent, Quiet
  <2> QED BY <1>2, <2>7, <2>8, <2>9
<1> QED BY <1>3, <1>4

LEMMA PersistPendingInv == ASSUME Inv, TypeOK', PersistPending PROVE Inv'
<1> USE DEF Inv
<1>1. cur \in Key /\ cur \in sent /\ cp' = cp /\ sent' = sent
  BY DEF PersistPending, TypeOK, PublishedIsSent, wireVars
<1>2. RetryInFlight' /\ PublishedIsSent'
  BY DEF PersistPending, RetryInFlight, PublishedIsSent
<1>3. \A k \in Key : pending[k] \in PendingState /\ pending'[k] \in PendingState
  BY DEF TypeOK
<1>4. \A k \in Key : Enqueued(cur)[k] \in PendingState /\ pending'[k] = CompactItem(Enqueued(cur)[k])
  BY <1>1, EnqueuedType DEF PersistPending, Compact, TypeOK
<1>5. \A k \in Key : Quiet(Enqueued(cur)[k], pending'[k])
  BY <1>4, CompactItemQuiet
<1>6. \A k \in Key : Enqueued(cur)[k].retry = pending[k].retry
  BY DEF Enqueued, Marked
<1>7. \A k \in Key : (k # cur /\ Enqueued(cur)[k].status = "pending")
        => StateKeyOf[k] # StateKeyOf[cur] /\ pending[k].status = "pending"
  BY DEF Enqueued, Marked
<1>8. RetryBudget'
  <2>1. SUFFICES ASSUME NEW k \in Key
        PROVE  /\ pending'[k].retry <= PendingMaxRetry
               /\ pending'[k].status = "pending" => pending'[k].retry < PendingMaxRetry
    BY DEF RetryBudget
  <2>2. pending'[k].retry <= pending[k].retry /\ pending[k].retry <= PendingMaxRetry
    BY <1>5, <1>6 DEF Quiet, RetryBudget
  <2>3. pending'[k].retry <= PendingMaxRetry
    BY <2>2, <1>3, BoundsAssumption DEF PendingState
  <2>4. pending'[k].status = "pending" => pending'[k].retry < PendingMaxRetry
    BY <1>4, CompactItemBudget
  <2> QED BY <2>3, <2>4
<1>9. OnePendingPerStateKey'
  BY <1>1, <1>5, <1>7 DEF OnePendingPerStateKey, Quiet
<1>10. OutboxHoldsOnlySent'
  <2>1. \A k \in Key : pending'[k].status # "none" => k = cur \/ pending[k].status # "none"
    BY <1>5 DEF Quiet, Enqueued, Marked
  <2> QED BY <1>1, <2>1 DEF OutboxHoldsOnlySent
<1> QED BY <1>2, <1>8, <1>9, <1>10

LEMMA InitInv == Init => Inv
<1> SUFFICES ASSUME Init PROVE Inv
  OBVIOUS
<1>1. \A k \in Key : pending[k] = NoPending
  BY DEF Init
<1>2. RetryBudget /\ OnePendingPerStateKey
  BY <1>1, BoundsAssumption DEF RetryBudget, OnePendingPerStateKey, NoPending
<1>3. OutboxHoldsOnlySent
  BY <1>1 DEF Init, OutboxHoldsOnlySent, NoPending
<1>4. RetryInFlight /\ PublishedIsSent
  BY DEF Init, RetryInFlight, PublishedIsSent
<1> QED BY <1>2, <1>3, <1>4, InitType DEF Inv

LEMMA NextInv == Inv /\ FileSound /\ [Next]_vars => Inv'
<1> SUFFICES ASSUME Inv, FileSound, [Next]_vars PROVE Inv'
  OBVIOUS
<1>0. TypeOK /\ TypeOK'
  BY NextType DEF Inv
<1> USE DEF scanVars, stateVars, fileVars, wireVars
<1>1. CASE UNCHANGED vars
  BY <1>0, <1>1, SameIsQuiet, QuietStep DEF vars
<1>2. ASSUME NEW k \in Key, LocalWrite(k) PROVE Inv'
  BY <1>0, <1>2, SameIsQuiet, QuietStep DEF LocalWrite
<1>3. ASSUME NEW k \in Key, RemoteStore(k) PROVE Inv'
  BY <1>0, <1>3, SameIsQuiet, QuietStep DEF RemoteStore
<1>4. ASSUME NEW k \in Key, RemoteRecord(k) PROVE Inv'
  BY <1>0, <1>4, CompactIsQuiet, QuietStep DEF RemoteRecord
<1>5. ASSUME NEW k \in Key, PruneSeen(k) PROVE Inv'
  BY <1>0, <1>5, SameIsQuiet, QuietStep DEF PruneSeen
<1>6. ASSUME NEW k \in Key, AckClear(k) PROVE Inv'
  <2>1. \A j \in Key : Quiet(pending[j], pending'[j])
    BY <1>0, <1>6, AckClearIsQuiet
  <2> QED BY <1>0, <1>6, <2>1, QuietStep DEF AckClear
<1>7. ASSUME NEW k \in Key, AgePending(k) PROVE Inv'
  <2>1. \A j \in Key : pending'[j].status = pending[j].status /\ pending'[j].retry = pending[j].retry
    BY <1>0, <1>7, OlderType DEF AgePending, TypeOK
  <2>2. \A j \in Key : Quiet(pending[j], pending'[j])
    BY <1>0, <2>1 DEF Quiet, TypeOK, PendingState
  <2> QED BY <1>0, <1>7, <2>2, QuietStep DEF AgePending
<1>8. ASSUME NEW b \in Bucket, ScanStart(b) PROVE Inv'
  <2>1. pc' = "scan"
    BY <1>8 DEF ScanStart
  <2> QED BY <1>0, <1>8, <2>1, SameIsQuiet, QuietStep DEF ScanStart
<1>9. ASSUME NEW k \in Key, ScanSkip(k) PROVE Inv'
  <2>1. \A j \in Key : Quiet(pending[j], pending'[j])
    BY <1>0, <1>9, ExpireIsQuiet DEF ScanSkip
  <2> QED BY <1>0, <1>9, <2>1, ExpireKeepsCp, QuietStep DEF ScanSkip
<1>10. ASSUME NEW k \in Key, ScanSelect(k) PROVE Inv'
  <2>1. \A j \in Key : Quiet(pending[j], pending'[j])
    BY <1>0, <1>10, ExpireIsQuiet DEF ScanSelect
  <2>2. RetryBudget' /\ OnePendingPerStateKey' /\ OutboxHoldsOnlySent'
    <3>1. \A j \in Key : /\ pending[j].retry \in Nat /\ pending'[j].retry \in Nat
                         /\ pending'[j].retry <= pending[j].retry
      BY <1>0, <2>1 DEF TypeOK, PendingState, Quiet
    <3>2. RetryBudget'
      BY <2>1, <3>1, BoundsAssumption DEF Inv, RetryBudget, Quiet
    <3>3. OnePendingPerStateKey'
      BY <2>1 DEF Inv, OnePendingPerStateKey, Quiet
    <3>4. OutboxHoldsOnlySent'
      BY <1>10, <2>1, ExpireKeepsCp DEF Inv, OutboxHoldsOnlySent, Quiet, ScanSelect
    <3> QED BY <3>2, <3>3, <3>4
  <2>3. RetryInFlight'
    <3>1. SUFFICES ASSUME ShouldRetry(k)
          PROVE  /\ pending'[k].retry < PendingMaxRetry
                 /\ \A j \in Key : (j # k /\ StateKeyOf[j] = StateKeyOf[k]) => pending'[j].status # "pending"
      BY <1>10 DEF ScanSelect, RetryInFlight
    <3>2. pending' = pending
      BY <1>10, <3>1 DEF ScanSelect, ExpireIfOverBudget, ShouldRetry
    <3>3. pending[k].status = "pending"
      BY <3>1 DEF ShouldRetry
    <3> QED BY <3>2, <3>3 DEF Inv, RetryBudget, OnePendingPerStateKey
  <2>4. PublishedIsSent'
    BY <1>10 DEF ScanSelect, PublishedIsSent
  <2> QED BY <1>0, <2>2, <2>3, <2>4 DEF Inv
<1>11. CASE PublishFail
  BY <1>0, <1>11, SameIsQuiet, QuietStep DEF PublishFail
<1>12. CASE PublishOk
  <2>1. pending' = pending /\ cp' = cp /\ cur' = cur /\ retrying' = retrying
    BY <1>12 DEF PublishOk
  <2>2. RetryBudget' /\ OnePendingPerStateKey' /\ OutboxHoldsOnlySent'
    BY <1>12, <2>1 DEF Inv, PublishOk, RetryBudget, OnePendingPerStateKey, OutboxHoldsOnlySent
  <2>3. RetryInFlight' /\ PublishedIsSent'
    BY <1>12, <2>1 DEF Inv, PublishOk, RetryInFlight, PublishedIsSent
  <2> QED BY <1>0, <2>2, <2>3 DEF Inv
<1>13. CASE RecordPublished
  BY <1>0, <1>13, RecordPublishedInv
<1>14. CASE PersistCheckpoint
  <2>1. \A j \in Key : Quiet(pending[j], pending'[j])
    BY <1>0, <1>14, CompactIsQuiet DEF PersistCheckpoint
  <2>2. RetryBudget' /\ OnePendingPerStateKey'
    <3>1. \A j \in Key : /\ pending[j].retry \in Nat /\ pending'[j].retry \in Nat
                         /\ pending'[j].retry <= pending[j].retry
      BY <1>0, <2>1 DEF TypeOK, PendingState, Quiet
    <3>2. RetryBudget'
      BY <2>1, <3>1, BoundsAssumption DEF Inv, RetryBudget, Quiet
    <3> QED BY <2>1, <3>2 DEF Inv, OnePendingPerStateKey, Quiet
  <2>3. OutboxHoldsOnlySent'
    <3>1. cur \in Key /\ cur \in sent /\ sent' = sent
      BY <1>0, <1>14 DEF Inv, PersistCheckpoint, PublishedIsSent, TypeOK
    <3>2. ASSUME NEW s \in StateKey, cp'[s] # 0
          PROVE  \E k \in sent' : StateKeyOf[k] = s /\ VersionOf[k] = cp'[s]
      BY <1>0, <1>14, <3>1, <3>2 DEF Inv, PersistCheckpoint, OutboxHoldsOnlySent, TypeOK
    <3> QED BY <2>1, <3>1, <3>2 DEF Inv, OutboxHoldsOnlySent, Quiet
  <2>4. RetryInFlight' /\ PublishedIsSent'
    BY <1>14 DEF Inv, PersistCheckpoint, RetryInFlight, PublishedIsSent
  <2> QED BY <1>0, <2>2, <2>3, <2>4 DEF Inv
<1>15. CASE PersistPending
  BY <1>0, <1>15, PersistPendingInv
<1>16. CASE ScanEnd
  BY <1>0, <1>16, SameIsQuiet, QuietStep DEF ScanEnd
<1>17. ASSUME NEW p \in Peer, NEW k \in Key, PeerApply(p, k) PROVE Inv'
  BY <1>0, <1>17, SameIsQuiet, QuietStep DEF PeerApply
<1>18. ASSUME NEW p \in Peer, NEW k \in Key, AckRecord(k, p) PROVE Inv'
  BY <1>0, <1>18, CompactIsQuiet, QuietStep DEF AckRecord
<1>19. CASE Restart
  <2>1. pending' = file.pending /\ cp' = file.cp /\ sent' = sent /\ pc' = "idle"
    BY <1>19 DEF Restart
  <2> QED BY <1>0, <2>1 DEF Inv, FileSound, RetryBudget, OnePendingPerStateKey, OutboxHoldsOnlySent,
        RetryInFlight, PublishedIsSent
<1> QED
  BY <1>1, <1>2, <1>3, <1>4, <1>5, <1>6, <1>7, <1>8, <1>9, <1>10, <1>11, <1>12, <1>13,
     <1>14, <1>15, <1>16, <1>17, <1>18, <1>19 DEF Next, ScanStep

LEMMA InitFile == Init => FileSound
<1> SUFFICES ASSUME Init PROVE FileSound
  OBVIOUS
<1>1. \A k \in Key : file.pending[k] = NoPending
  BY DEF Init, InMemory
<1>2. \A s \in StateKey : file.cp[s] = 0
  BY DEF Init, InMemory
<1> QED BY <1>1, <1>2, BoundsAssumption DEF FileSound, NoPending

LEMMA SentGrows == [Next]_vars => sent \subseteq sent'
BY DEF Next, ScanStep, vars, scanVars, stateVars, fileVars, wireVars, LocalWrite, RemoteStore, RemoteRecord,
   PruneSeen, AckClear, AgePending, ScanStart, ScanSkip, ScanSelect, PublishFail, PublishOk, RecordPublished,
   PersistCheckpoint, PersistPending, ScanEnd, PeerApply, AckRecord, Restart

LEMMA NextFile == Inv /\ Inv' /\ FileSound /\ [Next]_vars => FileSound'
<1> SUFFICES ASSUME Inv, Inv', FileSound, [Next]_vars PROVE FileSound'
  OBVIOUS
<1>1. sent \subseteq sent'
  BY SentGrows
<1>2. CASE file' = file
  BY <1>1, <1>2 DEF FileSound
<1>3. CASE file' = InMemory'
  <2>1. file'.cp = cp' /\ file'.pending = pending'
    BY <1>3 DEF InMemory
  <2> QED BY <2>1 DEF FileSound, Inv, RetryBudget, OnePendingPerStateKey, OutboxHoldsOnlySent
<1>4. ASSUME NEW k \in Key, AgePending(k) PROVE FileSound'
  <2>1. file'.cp = file.cp /\ file'.pending = [file.pending EXCEPT ![k] = Older(@)]
    BY <1>4 DEF AgePending
  <2>2. file.pending \in [Key -> PendingState]
    BY DEF Inv, TypeOK, StateType
  <2>3. \A j \in Key : /\ file'.pending[j].status = file.pending[j].status
                       /\ file'.pending[j].retry = file.pending[j].retry
    BY <2>1, <2>2, OlderType
  <2> QED BY <1>1, <2>1, <2>3 DEF FileSound
<1> QED BY <1>2, <1>3, <1>4, FileStep

LEMMA Invariance == Spec => [](Inv /\ FileSound)
  BY InitInv, InitFile, NextInv, NextFile, PTL DEF Spec

\* No key is ever retried more than teamSyncPendingMaxRetry times, and what is pending
\* has budget left, whatever acks, crashes and compactions do.
THEOREM RetryBudgetHolds == Spec => []RetryBudget
  BY Invariance, PTL DEF Inv

\* persistPending's supersession and bumpPendingRetry's revival never leave two pending
\* entries under one state key.
THEOREM OnePendingHolds == Spec => []OnePendingPerStateKey
  BY Invariance, PTL DEF Inv

\* Every entry and every checkpoint of the state file stands for an object that was
\* handed to the topic.
THEOREM OutboxHoldsOnlySentHolds == Spec => []OutboxHoldsOnlySent
  BY Invariance, PTL DEF Inv

-----------------------------------------------------------------------------
(* Acks.                                                                   *)

Applied(k) == \E p \in Peer : k \in has[p]

\* An ack on the wire, in the handler or in an entry stands for an application.
AckInv ==
  /\ TypeOK
  /\ \A k \in Key, p \in Peer : <<k, p>> \in acksSent => k \in has[p]
  /\ \A k \in acking : Applied(k)
  /\ AckedWasApplied

LEMMA CompactItemAcked ==
  ASSUME NEW p \in PendingState, CompactItem(p).status = "acked"
  PROVE  p.status = "acked"
  BY CompactItemCases DEF NoPending

\* A step that makes no entry acked and adds nothing to the handler.
LEMMA UnackedStep ==
  ASSUME AckInv, TypeOK', UNCHANGED wireVars, acking' \subseteq acking,
         \A k \in Key : pending'[k].status = "acked" => pending[k].status = "acked"
  PROVE  AckInv'
  BY DEF AckInv, AckedWasApplied, Applied, wireVars

\* Nor is an entry acked on disk that was not applied.
FileAcked == \A k \in Key : file.pending[k].status = "acked" => Applied(k)

LEMMA CompactUnacked ==
  ASSUME TypeOK, NEW f \in [Key -> PendingState], pending' = Compact(f),
         \A k \in Key : f[k].status = "acked" => pending[k].status = "acked"
  PROVE  \A k \in Key : pending'[k].status = "acked" => pending[k].status = "acked"
<1>1. \A k \in Key : pending'[k] = CompactItem(f[k])
  BY DEF Compact
<1> QED BY <1>1, CompactItemAcked

LEMMA ExpireUnacked ==
  ASSUME TypeOK, NEW k \in Key, ExpireIfOverBudget(k)
  PROVE  \A j \in Key : pending'[j].status = "acked" => pending[j].status = "acked"
<1> DEFINE e == [pending EXCEPT ![k] = Marked(@, "expired")]
<1>1. e \in [Key -> PendingState]
  BY MarkedType DEF TypeOK, Settled
<1>2. \A j \in Key : e[j].status = "acked" => pending[j].status = "acked"
  BY DEF TypeOK, Marked
<1> HIDE DEF e
<1>3. CASE pending' = Compact(e)
  BY <1>1, <1>2, <1>3, CompactUnacked
<1>4. CASE pending' = pending
  BY <1>4
<1> QED BY <1>3, <1>4 DEF ExpireIfOverBudget, stateVars, e

LEMMA AppliedStays == TypeOK /\ [Next]_vars => \A k \in Key : Applied(k) => Applied(k)'
<1> SUFFICES ASSUME TypeOK, [Next]_vars PROVE \A k \in Key : Applied(k) => Applied(k)'
  OBVIOUS
<1>1. CASE has' = has
  BY <1>1 DEF Applied
<1>2. ASSUME NEW p \in Peer, NEW k \in Key, PeerApply(p, k) PROVE \A j \in Key : Applied(j) => Applied(j)'
  BY <1>2 DEF PeerApply, Applied, TypeOK
<1>3. has' = has \/ \E p \in Peer, k \in Key : PeerApply(p, k)
  BY DEF Next, ScanStep, vars, wireVars, LocalWrite, RemoteStore, RemoteRecord, PruneSeen, AckClear, AgePending,
     ScanStart, ScanSkip, ScanSelect, PublishFail, PublishOk, RecordPublished, PersistCheckpoint, PersistPending,
     ScanEnd, AckRecord, Restart
<1> QED BY <1>1, <1>2, <1>3

LEMMA NextAck == AckInv /\ FileAcked /\ [Next]_vars => AckInv'
<1> SUFFICES ASSUME AckInv, FileAcked, [Next]_vars PROVE AckInv'
  OBVIOUS
<1>0. TypeOK /\ TypeOK' /\ pending \in [Key -> PendingState]
  BY NextType DEF AckInv, TypeOK
<1> USE DEF scanVars, stateVars, fileVars
<1>1. CASE UNCHANGED vars
  BY <1>0, <1>1, UnackedStep DEF vars
<1>2. ASSUME NEW k \in Key, LocalWrite(k) PROVE AckInv'
  BY <1>0, <1>2, UnackedStep DEF LocalWrite
<1>3. ASSUME NEW k \in Key, RemoteStore(k) PROVE AckInv'
  BY <1>0, <1>3, UnackedStep DEF RemoteStore
<1>4. ASSUME NEW k \in Key, RemoteRecord(k) PROVE AckInv'
  BY <1>0, <1>4, CompactUnacked, UnackedStep DEF RemoteRecord
<1>5. ASSUME NEW k \in Key, PruneSeen(k) PROVE AckInv'
  BY <1>0, <1>5, UnackedStep DEF PruneSeen
<1>6. ASSUME NEW k \in Key, AckClear(k) PROVE AckInv'
  <2>1. CASE pending[k].status = "none"
    BY <1>0, <1>6, <2>1, UnackedStep DEF AckClear
  <2>2. CASE pending[k].status # "none"
    <3>1. Acked(k) \in [Key -> PendingState] /\ Applied(k)
      BY <1>0, <1>6, AckedType DEF AckClear, AckInv
    <3>2. \A j \in Key : pending'[j] = CompactItem(Acked(k)[j]) /\ Acked(k)[j] \in PendingState
      BY <1>6, <2>2, <3>1 DEF AckClear, Compact
    <3>3. \A j \in Key : j # k => Acked(k)[j] = pending[j]
      BY DEF Acked, AckedBy
    <3>4. \A j \in Key : pending'[j].status = "acked" => j = k \/ pending[j].status = "acked"
      BY <3>2, <3>3, CompactItemAcked
    <3>5. UNCHANGED wireVars /\ acking' \subseteq acking
      BY <1>6 DEF AckClear
    <3> QED BY <1>0, <3>1, <3>4, <3>5 DEF AckInv, AckedWasApplied, Applied, wireVars
  <2> QED BY <2>1, <2>2
<1>7. ASSUME NEW k \in Key, AgePending(k) PROVE AckInv'
  <2>1. \A j \in Key : pending'[j].status = pending[j].status
    BY <1>0, <1>7, OlderType DEF AgePending
  <2> QED BY <1>0, <1>7, <2>1, UnackedStep DEF AgePending
<1>8. ASSUME NEW b \in Bucket, ScanStart(b) PROVE AckInv'
  BY <1>0, <1>8, UnackedStep DEF ScanStart
<1>9. ASSUME NEW k \in Key, ScanSkip(k) PROVE AckInv'
  BY <1>0, <1>9, ExpireUnacked, UnackedStep DEF ScanSkip
<1>10. ASSUME NEW k \in Key, ScanSelect(k) PROVE AckInv'
  BY <1>0, <1>10, ExpireUnacked, UnackedStep DEF ScanSelect
<1>11. CASE PublishFail
  BY <1>0, <1>11, UnackedStep DEF PublishFail
<1>12. CASE PublishOk
  <2>1. UNCHANGED <<pending, acking, has, acksSent>>
    BY <1>12 DEF PublishOk
  <2> QED BY <1>0, <2>1 DEF AckInv, AckedWasApplied, Applied
<1>13. CASE RecordPublished
  <2> DEFINE b == [pending EXCEPT ![cur] = Bumped(@)]
  <2>1. b \in [Key -> PendingState]
    BY <1>0, BumpedType
  <2>2. \A k \in Key : b[k].status = "acked" => pending[k].status = "acked"
    BY <1>0 DEF Bumped
  <2> HIDE DEF b
  <2>3. CASE pending' = Compact(b)
    BY <1>0, <1>13, <2>1, <2>2, <2>3, CompactUnacked, UnackedStep DEF RecordPublished
  <2>4. CASE pending' = pending
    BY <1>0, <1>13, <2>4, UnackedStep DEF RecordPublished
  <2> QED BY <1>13, <2>3, <2>4 DEF RecordPublished, b
<1>14. CASE PersistCheckpoint
  BY <1>0, <1>14, CompactUnacked, UnackedStep DEF PersistCheckpoint
<1>15. CASE PersistPending
  <2>1. cur \in Key
    BY <1>0, <1>15 DEF PersistPending, TypeOK
  <2>2. Enqueued(cur) \in [Key -> PendingState]
    BY <1>0, <2>1, EnqueuedType
  <2>3. \A k \in Key : Enqueued(cur)[k].status = "acked" => pending[k].status = "acked"
    BY DEF Enqueued, Marked
  <2> QED BY <1>0, <1>15, <2>2, <2>3, CompactUnacked, UnackedStep DEF PersistPending
<1>16. CASE ScanEnd
  BY <1>0, <1>16, UnackedStep DEF ScanEnd
<1>17. ASSUME NEW p \in Peer, NEW k \in Key, PeerApply(p, k) PROVE AckInv'
  <2>1. UNCHANGED <<pending, acking>> /\ acksSent' = acksSent \cup {<<k, p>>}
    BY <1>17 DEF PeerApply
  <2>2. \A q \in Peer : has[q] \subseteq has'[q]
    BY <1>0, <1>17 DEF PeerApply, TypeOK
  <2>3. k \in has'[p]
    BY <1>0, <1>17 DEF PeerApply, TypeOK
  <2> QED BY <1>0, <2>1, <2>2, <2>3 DEF AckInv, AckedWasApplied, Applied
<1>18. ASSUME NEW p \in Peer, NEW k \in Key, AckRecord(k, p) PROVE AckInv'
  <2>1. \A j \in Key : pending'[j].status = "acked" => pending[j].status = "acked"
    BY <1>0, <1>18, CompactUnacked DEF AckRecord
  <2>2. UNCHANGED wireVars /\ acking' \subseteq acking \cup {k} /\ Applied(k)
    BY <1>18 DEF AckRecord, AckInv, Applied
  <2> QED BY <1>0, <2>1, <2>2 DEF AckInv, AckedWasApplied, Applied, wireVars
<1>19. CASE Restart
  BY <1>0, <1>19 DEF Restart, AckInv, FileAcked, AckedWasApplied, Applied, wireVars
<1> QED
  BY <1>1, <1>2, <1>3, <1>4, <1>5, <1>6, <1>7, <1>8, <1>9, <1>10, <1>11, <1>12, <1>13,
     <1>14, <1>15, <1>16, <1>17, <1>18, <1>19 DEF Next, ScanStep

\* An entry counts as acked only when some peer really applied that very object.
THEOREM AckedWasAppliedHolds == Spec => []AckedWasApplied
<1>1. Init => AckInv /\ FileAcked
  BY InitType DEF Init, AckInv, FileAcked, AckedWasApplied, NoPending, InMemory
<1>2. AckInv /\ AckInv' /\ FileAcked /\ [Next]_vars => FileAcked'
  <2> SUFFICES ASSUME AckInv, AckInv', FileAcked, [Next]_vars PROVE FileAcked'
    OBVIOUS
  <2>1. \A k \in Key : Applied(k) => Applied(k)'
    BY AppliedStays DEF AckInv
  <2>2. CASE file' = file
    BY <2>1, <2>2 DEF FileAcked
  <2>3. CASE file' = InMemory'
    BY <2>3 DEF InMemory, FileAcked, AckInv, AckedWasApplied, Applied
  <2>4. ASSUME NEW k \in Key, AgePending(k) PROVE FileAcked'
    <3>1. file'.pending = [file.pending EXCEPT ![k] = Older(@)]
      BY <2>4 DEF AgePending
    <3>2. file.pending \in [Key -> PendingState]
      BY DEF AckInv, TypeOK, StateType
    <3>3. \A j \in Key : file'.pending[j].status = file.pending[j].status
      BY <3>1, <3>2, OlderType
    <3> QED BY <2>1, <3>3 DEF FileAcked
  <2> QED BY <2>2, <2>3, <2>4, FileStep
<1> QED BY <1>1, <1>2, NextAck, PTL DEF Spec, AckInv

\* What the outbox keeps is bounded and what it says happened.
THEOREM OutboxSoundHolds == Spec => []OutboxSound
BY RetryBudgetHolds, OnePendingHolds, OutboxHoldsOnlySentHolds, AckedWasAppliedHolds, PTL DEF OutboxSound

-----------------------------------------------------------------------------
(* What is written while the runtime runs is published.                    *)

\* No two objects of one state key have the same time: two messages of one channel
\* with equal times could be skipped by a first scan.
DistinctTimes == \A j, k \in Key : StateKeyOf[j] = StateKeyOf[k] /\ VersionOf[j] = VersionOf[k] => j = k
\* Messages and history are primed by every scan (team_sync.go:300, 352).
LogsArePrimed == \A s \in AppendOnly : BucketOf[s] \notin PrimeOnSuccess
\* Nobody else writes the logs of this node, as its entries with a later time would
\* carry the checkpoint over those this node writes after a restart.
OwnLogs == \A k \in Key \ LocalKey : StateKeyOf[k] \notin AppendOnly

Of(k) == BucketOf[StateKeyOf[k]]
Unsent == (LocalKey \cap born) \ sent
Ahead(k) == cp[StateKeyOf[k]] = 0 \/ VersionOf[k] > cp[StateKeyOf[k]]

Known == /\ sent \subseteq store /\ seen \subseteq store /\ born \subseteq store
         /\ applying \subseteq store \ LocalKey
\* A scan walks the objects of its bucket from the oldest on, one of each register; of a
\* bucket that is not primed it knows that this is the first scan.
Walk ==
  pc # "idle" =>
    /\ \A k \in todo : Of(k) = bucket /\ k \in store
    /\ \A j, k \in todo : StateKeyOf[j] = StateKeyOf[k] /\ StateKeyOf[k] \notin AppendOnly => j = k
    /\ pc # "scan" => cur \in todo /\ \A k \in todo : VersionOf[cur] <= VersionOf[k]
    /\ bucket \notin primed \cup PrimeOnSuccess => first
\* What a first scan has still to walk, and what a later first scan will, is newer than
\* the checkpoint.
TodoAhead == pc # "idle" /\ first => \A k \in todo \cap Unsent : Ahead(k)
LaterAhead ==
  \A k \in Unsent : (/\ Of(k) \notin primed /\ ~Superseded(k)
                     /\ StateKeyOf[k] \in AppendOnly => bucket # Of(k)) => Ahead(k)
NoCursor ==
  MaxRestarts = 0 => \A s \in AppendOnly : BucketOf[s] \notin primed /\ bucket # BucketOf[s] => cp[s] = 0
SkipInv == Known /\ Walk /\ TodoAhead /\ LaterAhead /\ NoCursor /\ NothingSkippedWhileRunning

LEMMA KeyFacts ==
  ASSUME NEW k \in Key
  PROVE  StateKeyOf[k] \in StateKey /\ Of(k) \in Bucket /\ VersionOf[k] \in Nat \ {0} /\ Of(k) # None
BY KeysAssumption DEF Of

LEMMA SkipInit == Init => SkipInv
BY KeysAssumption DEF Init, SkipInv, Known, Walk, TodoAhead, LaterAhead, NoCursor, NothingSkippedWhileRunning, Unsent

\* The steps of the peers, of their acks, of time and of the seen set.
LEMMA SkipFrame ==
  ASSUME SkipInv, UNCHANGED <<store, born, sent, cp, primed, applying, pc, bucket, first, todo, cur>>,
         seen' \subseteq seen
  PROVE  SkipInv'
BY DEF SkipInv, Known, Walk, TodoAhead, LaterAhead, NoCursor, NothingSkippedWhileRunning, Unsent, Ahead,
   Superseded, Newer

LEMMA WriteSkip ==
  ASSUME Inv, SkipInv, MaxRestarts = 0 \/ OwnLogs, NEW k \in Key, LocalWrite(k)
  PROVE  SkipInv'
<1>1. /\ k \in LocalKey /\ k \notin store /\ store' = store \cup {k} /\ born' = born \cup {k}
      /\ UNCHANGED <<seen, primed, applying, pc, bucket, first, todo, cur, cp, sent>>
  BY DEF LocalWrite, scanVars, stateVars, fileVars, wireVars
<1>2. Known' /\ Walk' /\ NoCursor'
  BY <1>1 DEF SkipInv, Known, Walk, NoCursor
<1>3. k \notin seen /\ (pc # "idle" => k \notin todo)
  BY <1>1 DEF SkipInv, Known, Walk
<1>4. TodoAhead' /\ NothingSkippedWhileRunning'
  BY <1>1, <1>3 DEF SkipInv, TodoAhead, NothingSkippedWhileRunning, Unsent, Ahead
<1>5. ASSUME NEW j \in Unsent', Of(j) \notin primed', ~Superseded(j)',
             StateKeyOf[j] \in AppendOnly => bucket' # Of(j)
      PROVE  Ahead(j)'
  <2>1. CASE j # k
    <3>1. j \in Unsent /\ ~Superseded(j)
      BY <1>1, <1>5, <2>1 DEF Unsent, Superseded
    <3>2. Ahead(j)
      BY <1>1, <1>5, <3>1 DEF SkipInv, LaterAhead
    <3> QED BY <1>1, <3>2 DEF Ahead
  <2>2. CASE j = k /\ StateKeyOf[k] \in AppendOnly /\ MaxRestarts = 0
    BY <1>1, <1>5, <2>2 DEF SkipInv, NoCursor, Of, Ahead
  <2>3. CASE j = k /\ (StateKeyOf[k] \in AppendOnly => OwnLogs)
    <3>1. ASSUME cp[StateKeyOf[k]] # 0 PROVE VersionOf[k] > cp[StateKeyOf[k]]
      <4>1. PICK i \in sent : StateKeyOf[i] = StateKeyOf[k] /\ VersionOf[i] = cp[StateKeyOf[k]]
        BY <3>1, KeyFacts DEF Inv, OutboxHoldsOnlySent
      <4>2. i \in store /\ i \in Key
        BY DEF SkipInv, Known, Inv, TypeOK
      <4>3. VersionOf[i] < VersionOf[k]
        BY <2>3, <4>1, <4>2 DEF LocalWrite, OwnLogs
      <4> QED BY <4>1, <4>2, <4>3, KeyFacts
    <3> QED BY <1>1, <2>3, <3>1 DEF Ahead
  <2> QED BY <2>1, <2>2, <2>3
<1>6. LaterAhead'
  BY <1>5 DEF LaterAhead
<1> QED BY <1>2, <1>4, <1>6 DEF SkipInv

LEMMA RemoteSkip ==
  ASSUME SkipInv, NEW k \in Key, RemoteStore(k) \/ RemoteRecord(k)
  PROVE  SkipInv'
<1>1. UNCHANGED <<primed, pc, bucket, first, todo, cur, cp, sent>> /\ store \subseteq store'
  BY DEF RemoteStore, RemoteRecord, scanVars, stateVars, fileVars, wireVars
<1>2. Known'
  BY <1>1 DEF RemoteStore, RemoteRecord, SkipInv, Known
<1>3. Unsent' = Unsent
  BY <1>1 DEF RemoteStore, RemoteRecord, Unsent
<1>4. Walk' /\ NoCursor' /\ TodoAhead'
  BY <1>1, <1>3 DEF SkipInv, Walk, NoCursor, TodoAhead, Ahead
<1>5. \A j : ~Superseded(j)' => ~Superseded(j)
  BY <1>1 DEF Superseded
<1>6. LaterAhead'
  BY <1>1, <1>3, <1>5 DEF SkipInv, LaterAhead, Ahead
<1>7. NothingSkippedWhileRunning'
  BY <1>1 DEF RemoteStore, RemoteRecord, SkipInv, Known, NothingSkippedWhileRunning
<1> QED BY <1>2, <1>4, <1>6, <1>7 DEF SkipInv

LEMMA ScanStartSkip ==
  ASSUME TypeOK, SkipInv, DistinctTimes, NEW b \in Bucket, ScanStart(b)
  PROVE  SkipInv'
<1>1. /\ pc = "idle" /\ pc' = "scan" /\ bucket' = b /\ first' = (b \notin primed) /\ todo' = InBucket(b)
      /\ UNCHANGED <<store, born, seen, primed, applying, cp, sent>>
  BY DEF ScanStart, stateVars, fileVars, wireVars
<1>2. bucket = None /\ b # None
  BY <1>1, KeysAssumption DEF TypeOK
<1>3. \A k \in todo' : Of(k) = b /\ k \in store /\ k \in Key /\ ~Superseded(k)
  BY <1>1 DEF InBucket, Current, Of, TypeOK
<1>4. ASSUME NEW j \in todo', NEW k \in todo', StateKeyOf[j] = StateKeyOf[k], StateKeyOf[k] \notin AppendOnly
      PROVE  j = k
  <2>1. ~(VersionOf[j] > VersionOf[k]) /\ ~(VersionOf[k] > VersionOf[j])
    BY <1>3, <1>4 DEF Superseded, Newer
  <2>2. VersionOf[j] \in Nat /\ VersionOf[k] \in Nat
    BY <1>3, KeyFacts
  <2>3. VersionOf[j] = VersionOf[k]
    BY <2>1, <2>2
  <2> QED BY <1>3, <1>4, <2>3 DEF DistinctTimes
<1>5. Walk'
  BY <1>1, <1>3, <1>4 DEF Walk
<1>6. ASSUME first', NEW k \in todo' \cap Unsent PROVE Ahead(k)
  BY <1>1, <1>2, <1>3, <1>6 DEF SkipInv, LaterAhead
<1>7. TodoAhead'
  BY <1>1, <1>6 DEF TodoAhead, Unsent, Ahead
<1>8. ASSUME NEW k \in Unsent PROVE bucket # Of(k)
  <2>1. k \in Key
    BY KeysAssumption DEF Unsent
  <2> QED BY <1>2, <2>1, KeyFacts
<1>9. LaterAhead'
  BY <1>1, <1>8 DEF SkipInv, LaterAhead, Unsent, Ahead, Superseded
<1>10. \A s \in StateKey : bucket # BucketOf[s]
  BY <1>2, KeysAssumption
<1>11. NoCursor'
  BY <1>1, <1>10, KeysAssumption DEF SkipInv, NoCursor
<1> QED BY <1>1, <1>5, <1>7, <1>9, <1>11 DEF SkipInv, Known, NothingSkippedWhileRunning

LEMMA ScanSkipSkip ==
  ASSUME TypeOK, SkipInv, NEW k \in Key, ScanSkip(k)
  PROVE  SkipInv'
<1>1. /\ pc = "scan" /\ k \in todo /\ seen' = seen \cup {k} /\ todo' = todo \ {k}
      /\ UNCHANGED <<store, born, primed, applying, pc, bucket, first, cur, cp, sent>>
  BY ExpireKeepsCp DEF ScanSkip, Oldest, wireVars
<1>2. ASSUME k \in LocalKey, k \in born PROVE k \in sent
  <2>1. CASE SkipSeen(k)
    BY <1>2, <2>1 DEF SkipInv, NothingSkippedWhileRunning, SkipSeen
  <2>2. CASE SkipOld(k) /\ k \notin sent
    <3>1. Ahead(k)
      BY <1>1, <1>2, <2>2 DEF SkipInv, TodoAhead, Unsent, SkipOld
    <3>2. ShouldPublishSnapshot(k)
      BY <1>2, <3>1 DEF ShouldPublishSnapshot, Ahead
    <3> QED BY <2>2, <3>2 DEF SkipOld
  <2> QED BY <2>1, <2>2 DEF ScanSkip
<1>3. NothingSkippedWhileRunning'
  BY <1>1, <1>2 DEF SkipInv, NothingSkippedWhileRunning
<1>4. Known' /\ Walk' /\ TodoAhead' /\ LaterAhead' /\ NoCursor'
  BY <1>1 DEF SkipInv, Known, Walk, TodoAhead, LaterAhead, NoCursor, Unsent, Ahead, Superseded
<1> QED BY <1>3, <1>4 DEF SkipInv

\* The steps of a publish that leave the checkpoint alone.
LEMMA PublishSkip ==
  ASSUME Inv, SkipInv,
         (\E k \in Key : ScanSelect(k)) \/ PublishFail \/ PublishOk \/ RecordPublished \/ PersistPending
  PROVE  SkipInv'
<1>1. /\ pc # "idle" /\ UNCHANGED <<store, born, primed, applying, bucket, cp>> /\ pc' # "idle"
      /\ todo' \subseteq todo /\ sent \subseteq sent'
  BY ExpireKeepsCp DEF ScanSelect, PublishFail, PublishOk, RecordPublished, PersistPending, wireVars, stateVars, fileVars
<1>2. sent' \subseteq store /\ seen' \subseteq store
  BY DEF ScanSelect, PublishFail, PublishOk, RecordPublished, PersistPending, wireVars, SkipInv, Known, Walk,
     Inv, PublishedIsSent
<1>3. Known'
  BY <1>1, <1>2 DEF SkipInv, Known
<1>4. first' => first
  BY DEF ScanSelect, PublishFail, PublishOk, RecordPublished, PersistPending
<1>5. bucket \notin PrimeOnSuccess => first' = first
  BY DEF ScanSelect, PublishFail, PublishOk, RecordPublished, PersistPending, Inv, TypeOK
<1>6. pc' # "scan" => cur' \in todo' /\ \A k \in todo' : VersionOf[cur'] <= VersionOf[k]
  BY <1>1 DEF ScanSelect, Oldest, PublishFail, PublishOk, RecordPublished, PersistPending, SkipInv, Walk
<1>7. Walk'
  BY <1>1, <1>4, <1>5, <1>6 DEF SkipInv, Walk
<1>8. Unsent' \subseteq Unsent
  BY <1>1 DEF Unsent
<1>9. TodoAhead' /\ LaterAhead' /\ NoCursor'
  BY <1>1, <1>4, <1>8 DEF SkipInv, TodoAhead, LaterAhead, NoCursor, Ahead, Superseded
<1>10. seen' \subseteq seen \cup sent
  BY DEF ScanSelect, PublishFail, PublishOk, RecordPublished, PersistPending, Inv, PublishedIsSent
<1>11. NothingSkippedWhileRunning'
  BY <1>1, <1>10 DEF SkipInv, NothingSkippedWhileRunning
<1> QED BY <1>3, <1>7, <1>9, <1>11 DEF SkipInv

\* The checkpoint only passes what was published before it.
LEMMA CheckpointSkip ==
  ASSUME Inv, SkipInv, DistinctTimes, PersistCheckpoint
  PROVE  SkipInv'
<1>1. /\ pc = "recorded" /\ cp' = [cp EXCEPT ![StateKeyOf[cur]] = VersionOf[cur]]
      /\ UNCHANGED <<store, born, seen, primed, applying, bucket, first, sent>>
      /\ \/ pc' = "checkpointed" /\ UNCHANGED <<todo, cur>>
         \/ pc' = "scan" /\ todo' = todo \ {cur}
  BY DEF PersistCheckpoint, wireVars
<1>2. /\ cur \in todo /\ cur \in sent /\ cur \in Key /\ cp \in [StateKey -> Nat] /\ todo \subseteq Key /\ store \subseteq Key
      /\ Of(cur) = bucket /\ \A k \in todo : VersionOf[cur] <= VersionOf[k]
  BY <1>1 DEF SkipInv, Walk, Inv, PublishedIsSent, TypeOK
<1>3. \A k \in Key : StateKeyOf[k] # StateKeyOf[cur] /\ Ahead(k) => Ahead(k)'
  BY <1>1, <1>2, KeyFacts DEF Ahead
<1>4. ASSUME NEW k \in Key, k # cur, StateKeyOf[k] = StateKeyOf[cur], VersionOf[cur] <= VersionOf[k]
      PROVE  Ahead(k)'
  <2>1. VersionOf[cur] # VersionOf[k] /\ VersionOf[cur] \in Nat /\ VersionOf[k] \in Nat
    BY <1>2, <1>4, KeyFacts DEF DistinctTimes
  <2>2. VersionOf[k] > VersionOf[cur]
    BY <1>4, <2>1
  <2>3. cp'[StateKeyOf[k]] = VersionOf[cur]
    BY <1>1, <1>2, <1>4, KeyFacts
  <2> QED BY <2>2, <2>3 DEF Ahead
<1>5. TodoAhead'
  <2> SUFFICES ASSUME first, NEW k \in todo, k \in Unsent PROVE Ahead(k)'
    BY <1>1 DEF TodoAhead, Unsent
  <2>1. k # cur /\ Ahead(k) /\ k \in Key
    BY <1>1, <1>2 DEF SkipInv, TodoAhead, Unsent
  <2> QED BY <1>2, <1>3, <1>4, <2>1
<1>6. LaterAhead'
  <2> SUFFICES ASSUME NEW k \in Unsent, Of(k) \notin primed, ~Superseded(k),
                      StateKeyOf[k] \in AppendOnly => bucket # Of(k)
               PROVE  Ahead(k)'
    BY <1>1 DEF LaterAhead, Unsent, Superseded
  <2>1. k # cur /\ Ahead(k) /\ k \in Key
    BY <1>2, KeysAssumption DEF SkipInv, LaterAhead, Unsent
  <2>2. CASE StateKeyOf[k] = StateKeyOf[cur]
    <3>1. StateKeyOf[k] \notin AppendOnly /\ cur \in store
      BY <1>2, <2>2, <1>1 DEF Of, SkipInv, Known
    <3>2. ~(VersionOf[cur] > VersionOf[k])
      BY <2>2, <3>1 DEF Superseded, Newer
    <3>3. VersionOf[cur] <= VersionOf[k]
      BY <1>2, <2>1, <3>2, KeyFacts
    <3> QED BY <1>4, <2>1, <2>2, <3>3
  <2> QED BY <1>3, <2>1, <2>2
<1>7. NoCursor'
  <2> SUFFICES ASSUME MaxRestarts = 0, NEW s \in AppendOnly, BucketOf[s] \notin primed, bucket # BucketOf[s]
               PROVE  cp'[s] = 0
    BY <1>1 DEF NoCursor
  <2>1. s # StateKeyOf[cur] /\ s \in StateKey
    BY <1>2, KeysAssumption DEF Of
  <2> QED BY <1>1, <1>2, <2>1 DEF SkipInv, NoCursor
<1>8. Walk'
  BY <1>1 DEF SkipInv, Walk
<1> QED BY <1>1, <1>5, <1>6, <1>7, <1>8 DEF SkipInv, Known, NothingSkippedWhileRunning

LEMMA ScanEndSkip ==
  ASSUME TypeOK, SkipInv, LogsArePrimed, ScanEnd
  PROVE  SkipInv'
<1>1. /\ pc = "scan" /\ pc' = "idle" /\ bucket' = None /\ primed' = IF first THEN primed \cup {bucket} ELSE primed
      /\ UNCHANGED <<store, born, seen, applying, cp, sent>>
  BY DEF ScanEnd, stateVars, fileVars, wireVars
<1>2. ASSUME NEW s \in AppendOnly, BucketOf[s] \notin primed' PROVE BucketOf[s] \notin primed /\ bucket # BucketOf[s]
  BY <1>1, <1>2 DEF SkipInv, Walk, LogsArePrimed
<1>3. LaterAhead'
  BY <1>1, <1>2 DEF SkipInv, LaterAhead, Unsent, Ahead, Superseded, Of
<1>4. NoCursor'
  BY <1>1, <1>2 DEF SkipInv, NoCursor
<1>5. Walk' /\ TodoAhead'
  BY <1>1 DEF Walk, TodoAhead
<1> QED BY <1>1, <1>3, <1>4, <1>5 DEF SkipInv, Known, NothingSkippedWhileRunning

LEMMA RestartSkip == ASSUME TypeOK, SkipInv, Restart PROVE SkipInv'
<1>1. MaxRestarts # 0
  BY BoundsAssumption DEF Restart, TypeOK
<1>2. /\ born' = {} /\ seen' = {} /\ applying' = {} /\ pc' = "idle" /\ store' = store /\ sent' = sent
  BY DEF Restart, wireVars
<1> QED BY <1>1, <1>2 DEF SkipInv, Known, Walk, TodoAhead, LaterAhead, NoCursor, NothingSkippedWhileRunning, Unsent

\* What this node writes while the runtime runs is published before a scan remembers it
\* as seen, whatever fails to go out and whatever the scan, the handler and the API do in
\* between: up to the first restart, and after it where this node alone writes the logs.
THEOREM NothingSkippedHolds ==
  ASSUME DistinctTimes, LogsArePrimed, MaxRestarts = 0 \/ OwnLogs
  PROVE  Spec => []NothingSkippedWhileRunning
<1>1. Inv /\ SkipInv /\ [Next]_vars => SkipInv'
  <2> SUFFICES ASSUME Inv, SkipInv, [Next]_vars PROVE SkipInv'
    OBVIOUS
  <2>0. TypeOK
    BY DEF Inv
  <2>1. CASE UNCHANGED vars
    BY <2>1, SkipFrame DEF vars, scanVars, stateVars, fileVars, wireVars
  <2>2. ASSUME NEW k \in Key, PruneSeen(k) \/ AckClear(k) \/ AgePending(k) PROVE SkipInv'
    BY <2>2, SkipFrame DEF PruneSeen, AckClear, AgePending, scanVars, stateVars, fileVars, wireVars
  <2>3. ASSUME NEW p \in Peer, NEW k \in Key, PeerApply(p, k) \/ AckRecord(k, p) PROVE SkipInv'
    BY <2>3, SkipFrame DEF PeerApply, AckRecord, scanVars, stateVars, fileVars, wireVars
  <2>4. CASE ScanStep
    BY <2>0, <2>4, ScanSkipSkip, PublishSkip, CheckpointSkip, ScanEndSkip DEF ScanStep
  <2>5. CASE Next
    BY <2>0, <2>2, <2>3, <2>4, <2>5, WriteSkip, RemoteSkip, ScanStartSkip, RestartSkip DEF Next
  <2> QED BY <2>1, <2>5
<1>2. SkipInv => NothingSkippedWhileRunning
  BY DEF SkipInv
<1> QED BY <1>1, <1>2, SkipInit, Invariance, PTL DEF Spec

=============================================================================

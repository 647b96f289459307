--------------------------- MODULE TeamSyncOutbox ---------------------------
(***************************************************************************)
(* The publishing side of team replication: teamPubSubRuntime of           *)
(* internal/aip2p/team_sync.go on ONE node.  A scan loop (SyncOnce) reads  *)
(* the local team store and publishes what it has not published yet; the   *)
(* subscription handler runs in goroutines of its own and applies remote   *)
(* objects and acks between any two steps of the loop; the process may     *)
(* stop at any moment and restart from sync/team_sync_state.json.          *)
(*                                                                         *)
(* A Key stands for TeamSyncMessage.Key(): a message or history event id,  *)
(* or "<object>:<version>".  Its StateKey is the checkpoint it shares      *)
(* (teamSyncStateKey): the channel for messages, the team for history, the *)
(* object for everything else.  A Bucket is what one scan walks and primes *)
(* together (one channel, or all tasks of a team).                         *)
(*                                                                         *)
(* Time is what the thresholds of the code tell apart: a pending entry is  *)
(* Fresh, Due (teamSyncAckRetryAfter has passed), Resolved                 *)
(* (teamSyncResolvedTTL) or Stale (teamSyncPendingMaxAge).  An entry of    *)
(* the seen set is forgotten after half an hour, again and again.          *)
(*                                                                         *)
(* Every change of the state is written to the file as a whole; a write    *)
(* may fail (a full disk), and then the memory is ahead of the file until  *)
(* the next write that succeeds, or the restart.                           *)
(***************************************************************************)
EXTENDS Naturals

CONSTANTS
  Key, StateKey, Bucket, Peer,
  None,             \* not a key and not a bucket
  LocalKey,         \* keys this node writes; the others arrive from peers
  AppendOnly,       \* state keys of logs (messages, history); the rest are registers
  PrimeOnSuccess,   \* buckets primed only by a scan that did not fail (channels, configs)
  StateKeyOf, BucketOf, VersionOf,
  PendingMaxRetry,  \* teamSyncPendingMaxRetry
  MaxRestarts,      \* bound on crashes
  MaxFaults         \* bound on writes of the state file that fail

ASSUME KeysAssumption ==
  /\ LocalKey \subseteq Key /\ AppendOnly \subseteq StateKey
  /\ PrimeOnSuccess \subseteq Bucket
  /\ None \notin Key \cup Bucket
  /\ StateKeyOf \in [Key -> StateKey] /\ BucketOf \in [StateKey -> Bucket]
  /\ VersionOf \in [Key -> Nat \ {0}]
ASSUME BoundsAssumption ==
  /\ PendingMaxRetry \in Nat \ {0} /\ MaxRestarts \in Nat /\ MaxFaults \in Nat

VARIABLES
  store,    \* keys the local team store holds or held
  born,     \* keys whose version is after startedAt
  seen,     \* r.seen
  primed,   \* r.primed*: buckets scanned since the start
  cp,       \* state.Messages ... state.Channels: published checkpoint, 0 when absent
  pending,  \* state.Pending
  acks,     \* state.Acks: acks accounted for, as <<key, peer>>
  file,     \* the last of these three that was written
  acking,   \* acks between the ledger write and clearPending
  applying, \* remote objects the handler has stored and not yet recorded as seen
  pc, bucket, first, todo, cur, retrying,   \* the scan loop
  sent,     \* keys handed to the topic at least once; it may lose, delay or repeat them
  has,      \* what each peer has applied
  acksSent, \* acks published by peers; they may be lost, delayed or repeated
  restarts, faults

scanVars == <<pc, bucket, first, todo, cur, retrying>>
stateVars == <<cp, pending, acks>>
fileVars == <<file, faults>>
wireVars == <<sent, has, acksSent>>
vars == <<store, born, seen, primed, acking, applying, scanVars, stateVars, fileVars, wireVars, restarts>>

-----------------------------------------------------------------------------
Fresh == 0
Due == 1
Resolved == 2
Stale == 3

Settled == {"acked", "superseded", "expired"}
PendingState ==
  [status : {"none", "pending"} \cup Settled, retry : Nat, age : Fresh..Stale]
StateType ==
  [cp : [StateKey -> Nat], pending : [Key -> PendingState], acks : SUBSET (Key \X Peer)]
NoPending == [status |-> "none", retry |-> 0, age |-> Fresh]

\* item.Status = status; item.UpdatedAt = now
Marked(p, status) == [status |-> status, retry |-> p.retry, age |-> Fresh]

\* The objects a scan loads: every entry of a log, the last version of a register.
Newer(j, k) == StateKeyOf[j] = StateKeyOf[k] /\ VersionOf[j] > VersionOf[k]
Superseded(k) == StateKeyOf[k] \notin AppendOnly /\ \E j \in store : Newer(j, k)
Current == {k \in store : ~Superseded(k)}
InBucket(b) == {k \in Current : BucketOf[StateKeyOf[k]] = b}

OverBudget(p) == p.age = Stale \/ p.retry >= PendingMaxRetry

\* compactTeamSyncState on one entry of Pending
CompactItem(p) ==
  IF p.status = "pending" /\ OverBudget(p)
  THEN Marked(p, "expired")
  ELSE IF p.status \in Settled /\ p.age >= Resolved THEN NoPending ELSE p

Compact(f) == [k \in Key |-> CompactItem(f[k])]

ShouldRetry(k) ==
  /\ pending[k].status = "pending"
  /\ ~OverBudget(pending[k])
  /\ pending[k].age >= Due

\* Mutant: without a checkpoint nothing is published, whatever its date.
SnapshotAfterCheckpointOnly(k) == cp[StateKeyOf[k]] # 0 /\ VersionOf[k] > cp[StateKeyOf[k]]

ShouldPublishSnapshot(k) ==
  IF cp[StateKeyOf[k]] # 0 THEN VersionOf[k] > cp[StateKeyOf[k]] ELSE k \in born

-----------------------------------------------------------------------------
(* The state file.                                                         *)

InMemory == [cp |-> cp, pending |-> pending, acks |-> acks]

\* writeTeamSyncState of what is now in memory
Saved == file' = InMemory' /\ UNCHANGED faults
NotSaved == faults < MaxFaults /\ faults' = faults + 1 /\ UNCHANGED file
Written == Saved \/ NotSaved

-----------------------------------------------------------------------------
(* The store, written by the API of the same host and by the handler.      *)

LocalWrite(k) ==
  /\ k \in LocalKey \ store
  /\ \A j \in store :
       (StateKeyOf[j] = StateKeyOf[k] /\ (j \in LocalKey \/ StateKeyOf[k] \notin AppendOnly))
         => VersionOf[j] < VersionOf[k]
  /\ store' = store \cup {k}
  /\ born' = born \cup {k}
  /\ UNCHANGED <<seen, primed, acking, applying, scanVars, stateVars, fileVars, wireVars, restarts>>

\* ApplyReplicatedSync stores a remote object; rememberSeen and persistApplied follow,
\* and a scan may load the object in between.
RemoteStore(k) ==
  /\ k \in Key \ (LocalKey \cup store)
  /\ ~Superseded(k)
  /\ store' = store \cup {k}
  /\ born' \in {born, born \cup {k}}
  /\ applying' = applying \cup {k}
  /\ UNCHANGED <<seen, primed, acking, scanVars, stateVars, fileVars, wireVars, restarts>>

RemoteRecord(k) ==
  /\ k \in applying
  /\ applying' = applying \ {k}
  /\ seen' = seen \cup {k}
  /\ pending' = Compact(pending)
  /\ UNCHANGED <<store, born, primed, acking, scanVars, cp, acks, wireVars, restarts>>
  /\ Written

-----------------------------------------------------------------------------
(* The scan loop.                                                          *)

ScanStart(b) ==
  /\ pc = "idle"
  /\ pc' = "scan"
  /\ bucket' = b
  /\ first' = (b \notin primed)
  /\ todo' = InBucket(b)
  /\ UNCHANGED <<store, born, seen, primed, acking, applying, cur, retrying, stateVars, fileVars, wireVars, restarts>>

\* shouldRetryPending expires an entry that ran out of budget as it reads it.
ExpireIfOverBudget(k) ==
  IF pending[k].status = "pending" /\ OverBudget(pending[k])
  THEN /\ pending' = Compact([pending EXCEPT ![k] = Marked(@, "expired")])
       /\ UNCHANGED <<cp, acks>>
       /\ Written
  ELSE UNCHANGED <<stateVars, fileVars>>

\* Items are walked from the oldest to the newest.
Oldest(k) == k \in todo /\ \A j \in todo : VersionOf[k] <= VersionOf[j]

SkipOld(k) == first /\ ~ShouldRetry(k) /\ ~ShouldPublishSnapshot(k)

SkipSeen(k) == ~ShouldRetry(k) /\ k \in seen

ScanSkip(k) ==
  /\ pc = "scan" /\ Oldest(k)
  /\ SkipOld(k) \/ SkipSeen(k)
  /\ ExpireIfOverBudget(k)
  /\ seen' = seen \cup {k}
  /\ todo' = todo \ {k}
  /\ UNCHANGED <<store, born, primed, acking, applying, pc, bucket, first, cur, retrying, wireVars, restarts>>

ScanSelect(k) ==
  /\ pc = "scan" /\ Oldest(k)
  /\ ~SkipOld(k) /\ ~SkipSeen(k)
  /\ ExpireIfOverBudget(k)
  /\ pc' = "publish"
  /\ cur' = k
  /\ retrying' = ShouldRetry(k)
  /\ UNCHANGED <<store, born, seen, primed, acking, applying, bucket, first, todo, wireVars, restarts>>

PublishFail ==
  /\ pc = "publish"
  /\ pc' = "scan"
  /\ todo' = todo \ {cur}
  /\ first' = (first /\ bucket \notin PrimeOnSuccess)
  /\ cur' = None
  /\ retrying' = FALSE
  /\ UNCHANGED <<store, born, seen, primed, acking, applying, bucket, stateVars, fileVars, wireVars, restarts>>

PublishOk ==
  /\ pc = "publish"
  /\ pc' = "sent"
  /\ sent' = sent \cup {cur}
  /\ UNCHANGED <<store, born, seen, primed, acking, applying, bucket, first, todo, cur, retrying, stateVars, fileVars, has, acksSent, restarts>>

\* Mutant: a retry does not count.
BumpedUncounted(p) == IF p.status = "none" THEN p ELSE Marked(p, "pending")

\* bumpPendingRetry
Bumped(p) ==
  IF p.status = "none" THEN p
  ELSE [status |-> "pending", retry |-> p.retry + 1, age |-> Fresh]

\* rememberSeen and recordRetried
RecordPublished ==
  /\ pc = "sent"
  /\ pc' = "recorded"
  /\ seen' = seen \cup {cur}
  /\ pending' = IF retrying THEN Compact([pending EXCEPT ![cur] = Bumped(@)]) ELSE pending
  /\ UNCHANGED <<store, born, primed, acking, applying, bucket, first, todo, cur, retrying, cp, acks, wireVars, restarts>>
  /\ IF retrying /\ pending[cur].status # "none" THEN Written ELSE UNCHANGED fileVars

\* persistPublished ends with the checkpoint when that is not saved: the object is not
\* marked pending, and the loop goes on to the next.
PersistCheckpoint ==
  /\ pc = "recorded"
  /\ cp' = [cp EXCEPT ![StateKeyOf[cur]] = VersionOf[cur]]
  /\ pending' = Compact(pending)
  /\ UNCHANGED <<store, born, seen, primed, acking, applying, bucket, first, acks, wireVars, restarts>>
  /\ \/ Saved /\ pc' = "checkpointed" /\ UNCHANGED <<todo, cur, retrying>>
     \/ NotSaved /\ pc' = "scan" /\ todo' = todo \ {cur} /\ cur' = None /\ retrying' = FALSE

\* Mutant: the older entries of the state key are left pending.
EnqueuedBeside(k) ==
  [pending EXCEPT ![k] = Marked(@, "pending")]

\* persistPending marks the key pending and supersedes the rest of its state key.
Enqueued(k) ==
  [j \in Key |->
     IF j = k THEN Marked(pending[k], "pending")
     ELSE IF StateKeyOf[j] = StateKeyOf[k] /\ pending[j].status = "pending"
     THEN Marked(pending[j], "superseded")
     ELSE pending[j]]

PersistPending ==
  /\ pc = "checkpointed"
  /\ pc' = "scan"
  /\ pending' = Compact(Enqueued(cur))
  /\ todo' = todo \ {cur}
  /\ cur' = None
  /\ retrying' = FALSE
  /\ UNCHANGED <<store, born, seen, primed, acking, applying, bucket, first, cp, acks, wireVars, restarts>>
  /\ Written

ScanEnd ==
  /\ pc = "scan" /\ todo = {}
  /\ pc' = "idle"
  /\ primed' = IF first THEN primed \cup {bucket} ELSE primed
  /\ bucket' = None
  /\ first' = FALSE
  /\ UNCHANGED <<store, born, seen, acking, applying, todo, cur, retrying, stateVars, fileVars, wireVars, restarts>>

\* pruneSeen at the end of SyncOnce forgets keys remembered half an hour ago, which is
\* long after an entry marked pending with the publish has become due.
PruneSeen(k) ==
  /\ pc = "idle" /\ k \in seen
  /\ pending[k].status = "pending" => pending[k].age >= Due
  /\ seen' = seen \ {k}
  /\ UNCHANGED <<store, born, primed, acking, applying, scanVars, stateVars, fileVars, wireVars, restarts>>

-----------------------------------------------------------------------------
(* The topic, the peers and the ack handler.                               *)

\* A peer applies a published key it does not have and acks it; a key it has, or
\* has a newer version of, is skipped without an ack.
PeerApply(p, k) ==
  /\ k \in sent \ has[p]
  /\ StateKeyOf[k] \in AppendOnly \/ ~\E j \in has[p] : Newer(j, k)
  /\ has' = [has EXCEPT ![p] = @ \cup {k}]
  /\ acksSent' = acksSent \cup {<<k, p>>}
  /\ UNCHANGED <<store, born, seen, primed, acking, applying, scanVars, stateVars, fileVars, sent, restarts>>

\* handleAck up to persistPeerAck; an ack already accounted for is dropped.  When the
\* ack or the ledger is not saved, persistAck ends there and clears nothing.
AckRecord(k, p) ==
  /\ <<k, p>> \in acksSent \ acks
  /\ acks' = acks \cup {<<k, p>>}
  /\ pending' = Compact(pending)
  /\ UNCHANGED <<store, born, seen, primed, applying, scanVars, cp, wireVars, restarts>>
  /\ \/ Saved /\ acking' = acking \cup {k}
     \/ NotSaved /\ acking' = acking

AckedBy(k, j) == j = k

Acked(k) ==
  [j \in Key |->
     IF AckedBy(k, j) /\ pending[j].status # "none"
     THEN Marked(pending[j], "acked")
     ELSE pending[j]]

\* clearPending
AckClear(k) ==
  /\ k \in acking
  /\ acking' = acking \ {k}
  /\ pending' = IF pending[k].status = "none" THEN pending ELSE Compact(Acked(k))
  /\ UNCHANGED <<store, born, seen, primed, applying, scanVars, cp, acks, wireVars, restarts>>
  /\ IF pending[k].status = "none" THEN UNCHANGED fileVars ELSE Written

-----------------------------------------------------------------------------
Older(p) == IF p.status = "none" \/ p.age = Stale THEN p ELSE [p EXCEPT !.age = @ + 1]

AgePending(k) ==
  /\ pending[k].status # "none" /\ pending[k].age < Stale
  /\ pending' = [pending EXCEPT ![k] = Older(@)]
  /\ file' = [cp |-> file.cp, pending |-> [file.pending EXCEPT ![k] = Older(@)], acks |-> file.acks]
  /\ UNCHANGED <<store, born, seen, primed, acking, applying, scanVars, cp, acks, faults, wireVars, restarts>>

\* The process stops and startTeamPubSubRuntime loads the state file.
Restart ==
  /\ restarts < MaxRestarts
  /\ restarts' = restarts + 1
  /\ born' = {} /\ seen' = {} /\ primed' = {} /\ acking' = {} /\ applying' = {}
  /\ pc' = "idle" /\ bucket' = None /\ first' = FALSE /\ todo' = {}
  /\ cur' = None /\ retrying' = FALSE
  /\ cp' = file.cp /\ pending' = file.pending /\ acks' = file.acks
  /\ UNCHANGED <<store, fileVars, wireVars>>

-----------------------------------------------------------------------------
Init ==
  /\ store = {} /\ born = {} /\ seen = {} /\ primed = {} /\ acking = {} /\ applying = {}
  /\ cp = [s \in StateKey |-> 0]
  /\ pending = [k \in Key |-> NoPending]
  /\ acks = {}
  /\ file = InMemory
  /\ pc = "idle" /\ bucket = None /\ first = FALSE /\ todo = {}
  /\ cur = None /\ retrying = FALSE
  /\ sent = {} /\ has = [p \in Peer |-> {}] /\ acksSent = {}
  /\ restarts = 0 /\ faults = 0

ScanStep ==
  \/ \E k \in Key : ScanSkip(k) \/ ScanSelect(k)
  \/ PublishFail
  \/ PublishOk
  \/ RecordPublished
  \/ PersistCheckpoint
  \/ PersistPending
  \/ ScanEnd

Next ==
  \/ \E k \in Key : LocalWrite(k) \/ RemoteStore(k) \/ RemoteRecord(k) \/ PruneSeen(k) \/ AckClear(k) \/ AgePending(k)
  \/ \E b \in Bucket : ScanStart(b)
  \/ ScanStep
  \/ \E p \in Peer, k \in Key : PeerApply(p, k) \/ AckRecord(k, p)
  \/ Restart

Spec == Init /\ [][Next]_vars

(***************************************************************************)
(* RunSync calls SyncOnce on every tick and SyncOnce walks every bucket;   *)
(* an object whose publish is attempted again and again goes out in the    *)
(* end; time passes, and with it what was remembered as seen is forgotten. *)
(* Nothing is assumed of the peers, of their acks or of writers.           *)
(***************************************************************************)
Fairness ==
  /\ WF_vars(ScanStep)
  /\ \A k \in Key : SF_vars(PublishOk /\ cur = k)
  /\ \A b \in Bucket : SF_vars(ScanStart(b))
  /\ \A k \in Key : WF_vars(AgePending(k))
  /\ \A k \in Key : SF_vars(PruneSeen(k))

FairSpec == Spec /\ Fairness

-----------------------------------------------------------------------------
TypeOK ==
  /\ store \subseteq Key /\ born \subseteq Key /\ seen \subseteq Key
  /\ primed \subseteq Bucket /\ acking \subseteq Key /\ applying \subseteq Key
  /\ cp \in [StateKey -> Nat]
  /\ pending \in [Key -> PendingState]
  /\ acks \subseteq Key \X Peer
  /\ file \in StateType
  /\ pc \in {"idle", "scan", "publish", "sent", "recorded", "checkpointed"}
  /\ bucket \in (IF pc = "idle" THEN {None} ELSE Bucket)
  /\ first \in BOOLEAN /\ todo \subseteq Key
  /\ cur \in (IF pc \in {"idle", "scan"} THEN {None} ELSE Key) /\ retrying \in BOOLEAN
  /\ sent \subseteq Key /\ has \in [Peer -> SUBSET Key] /\ acksSent \subseteq Key \X Peer
  /\ restarts \in Nat /\ faults \in Nat

\* A key is retried at most teamSyncPendingMaxRetry times however acks, expiries and
\* restarts interleave, and an entry still "pending" has a retry left: no object is
\* pending for ever because bump, supersede and compaction disagree on its budget.
RetryBudget ==
  \A k \in Key :
    /\ pending[k].retry <= PendingMaxRetry
    /\ pending[k].status = "pending" => pending[k].retry < PendingMaxRetry

\* Two versions of one object are never both waiting for an ack: persistPending
\* supersedes the others, and a bump that revives an entry acked in the middle of its
\* retry finds no other entry of the state key pending.
OnePendingPerStateKey ==
  \A j, k \in Key :
    (StateKeyOf[j] = StateKeyOf[k] /\ pending[j].status = "pending" /\ pending[k].status = "pending")
      => j = k

\* The outbox tracks only what really went out: whatever is pending, settled or
\* checkpointed was handed to the topic, also after a crash between the publish and
\* its record.
OutboxHoldsOnlySent ==
  /\ \A k \in Key : pending[k].status # "none" => k \in sent
  /\ \A s \in StateKey : cp[s] # 0 =>
       \E k \in sent : StateKeyOf[k] = s /\ VersionOf[k] = cp[s]

\* An entry is settled as "acked" only for a key that a peer has applied, never for
\* a sibling of the acked key in the same channel or of the same object.
AckedWasApplied ==
  \A k \in Key : pending[k].status = "acked" => \E p \in Peer : k \in has[p]

\* The outbox as a whole: what it keeps is bounded, and what it says happened.
OutboxSound == RetryBudget /\ OnePendingPerStateKey /\ OutboxHoldsOnlySent /\ AckedWasApplied

\* What is written while the runtime runs is never mistaken for old data by the
\* first scan: once remembered as seen, it has been published, even when an older
\* object of the same channel failed to go out or a newer one went first.
NothingSkippedWhileRunning ==
  \A k \in LocalKey : (k \in born /\ k \in seen) => k \in sent

-----------------------------------------------------------------------------
\* Every object the node writes is published in the end, unless a newer version of the
\* same object replaces it first: also the one whose publish failed, or that was written
\* while the runtime was down, and that the first scan after a restart goes past.  It
\* needs a runtime that stays up until its seen set has forgotten the object.
EventuallyPublished ==
  \A k \in LocalKey : []<>(k \in Current => k \in sent)

\* An object still in the store does not wait for an ack for ever: its entry is
\* settled (acked, superseded, expired) or the object is replaced.
PendingSettles ==
  \A k \in Key : []<>(k \in Current => pending[k].status # "pending")

\* Nothing waits for ever: neither to be sent nor for its ack.
OutboxProgresses == EventuallyPublished /\ PendingSettles

=============================================================================

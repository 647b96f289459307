------------------------------ MODULE SyncQueue ------------------------------
(***************************************************************************)
(* The two queue files of the bundle sync daemon (internal/aip2p/sync.go): *)
(* "realtime" and "history", text files of one reference per line.  Three  *)
(* writers touch them without a lock: the loop of the daemon, the handler  *)
(* of a pubsub announcement (a goroutine of the same process) and the      *)
(* serve process (QueueSyncRefForStore).  Adding reads the file and, when  *)
(* the reference is not there, appends; everything else (removing,         *)
(* rotating, promoting, sanitising, migrating) reads the file, computes    *)
(* its new lines and rewrites it, which truncates it first.                *)
(***************************************************************************)
EXTENDS Naturals, Sequences, FiniteSets, SequencesExt

CONSTANTS
    Refs,         \* the references (infohashes) that can be queued
    Manifests,    \* those that name a history manifest
    Listed,       \* the references the manifests and the peers' heads list
    Direct,       \* the references given on the command line, in order
    MaxPerPass,   \* maxSyncRefsPerPass
    Rounds,       \* rounds of reconcileQueue
    MaxArrivals,  \* bound: announcements handled, and references added by serve
    MaxQueueCrashes   \* bound: crashes of the daemon

ASSUME QueueConstants ==
    /\ IsFiniteSet(Refs) /\ Manifests \subseteq Refs /\ Listed \subseteq Refs /\ "torn" \notin Refs
    /\ Direct \in Seq(Refs)
    /\ MaxPerPass \in Nat \ {0} /\ Rounds \in Nat \ {0}
    /\ MaxArrivals \in Nat /\ MaxQueueCrashes \in Nat

Queues == {"realtime", "history"}
Torn == [ref |-> "torn", clean |-> FALSE]   \* the end of a longer line: it does not parse
(* The elements of s at the places of I, in their order. *)
Picked(s, I) ==
    LET place(k) == Cardinality({j \in I : j <= k})
    IN [n \in 1..Cardinality(I) |-> s[CHOOSE k \in I : place(k) = n]]
NoQueue == "none"   \* a reference of the command line is in no file

VARIABLES
    queue,     \* queue file -> its lines
    stored,    \* the bundles complete in the local store
    phase,     \* where reconcileQueue is
    todo,      \* the daemon's file operations still to do before it goes on
    batch,     \* the references processQueue has still to try
    round, direct, added,   \* locals of reconcileQueue
    bootstrap, \* the history bootstrap mode: "new", "recent" or "steady"
    adding,    \* writer -> the reference it is about to append, or none
    arrivals, queueCrashes, \* bounded counters
    owed,      \* history: accepted and not yet settled
    atRisk     \* history: references a race or a crash may have destroyed

qvars == <<queue, stored, phase, todo, batch, round, direct, added, bootstrap,
           adding, arrivals, queueCrashes, owed, atRisk>>

-----------------------------------------------------------------------------
Line(r, c) == [ref |-> r, clean |-> c]
Lines == [ref: Refs, clean: BOOLEAN] \cup {Torn}
RefsOf(s) == {l.ref : l \in {s[i] : i \in DOMAIN s} \ {Torn}}
HasTorn(q) == Torn \in {queue[q][i] : i \in DOMAIN queue[q]}
Nobody == [queue |-> NoQueue, line |-> Torn]

EnqueueOp(q, r) == [act |-> "enqueue", queue |-> q, line |-> Line(r, TRUE), lines |-> <<>>]
RemoveOp(q, r) == [act |-> "remove", queue |-> q, line |-> Line(r, TRUE), lines |-> <<>>]
SettleOp(q, r) == [RemoveOp(q, r) EXCEPT !.act = "settle"]   \* it is not put back
WriteOp(q, s) == [act |-> "write", queue |-> q, line |-> Torn, lines |-> s]

(* The references the daemon has taken out of a file and not put back yet. *)
InHand == UNION {IF todo[i].act \in {"enqueue", "append"} THEN {todo[i].line.ref} ELSE RefsOf(todo[i].lines)
                    : i \in DOMAIN todo}
Queued == RefsOf(queue["realtime"]) \cup RefsOf(queue["history"])

(* A rewrite of q is computed and not yet written: what is appended now is overwritten. *)
RewritePending(q) == \E i \in DOMAIN todo : todo[i].act \in {"write", "writing"} /\ todo[i].queue = q

-----------------------------------------------------------------------------
QInit ==
    /\ queue = [q \in Queues |-> <<>>]
    /\ stored = {}
    /\ phase = "migrate" /\ todo = <<>> /\ batch = <<>>
    /\ round = 0 /\ direct = Direct /\ added = FALSE
    /\ bootstrap = "new"
    /\ adding = [w \in {"pubsub", "serve"} |-> Nobody]
    /\ arrivals = 0 /\ queueCrashes = 0
    /\ owed = {} /\ atRisk = {}

(* handleAnnouncement, and QueueSyncRefForStore: look whether the reference is
   queued already.  The daily quota may refuse an announcement. *)
Look(w, q, l) ==
    /\ adding[w] = Nobody /\ arrivals < MaxArrivals
    /\ l.ref \notin RefsOf(queue[q])
    /\ adding' = [adding EXCEPT ![w] = [queue |-> q, line |-> l]]
    /\ arrivals' = arrivals + 1
    /\ UNCHANGED <<queue, stored, phase, todo, batch, round, direct, added, bootstrap,
                   queueCrashes, owed, atRisk>>
Announced(r) ==
    /\ phase \notin {"down", "dead"} /\ r \notin stored
    /\ Look("pubsub", IF r \in Manifests THEN "history" ELSE "realtime", Line(r, FALSE))
ServeAdds(r) == Look("serve", "realtime", Line(r, TRUE))

(* enqueueSyncRefWithRedis, after its look: the append. *)
AppendTo(q, l) ==
    /\ queue' = [queue EXCEPT ![q] = Append(@, l)]
    /\ owed' = owed \cup {l.ref}
    /\ atRisk' = IF RewritePending(q) THEN atRisk \cup {l.ref} ELSE atRisk
Add(w) ==
    /\ adding[w] # Nobody
    /\ AppendTo(adding[w].queue, adding[w].line)
    /\ adding' = [adding EXCEPT ![w] = Nobody]
    /\ UNCHANGED <<stored, phase, todo, batch, round, direct, added, bootstrap, arrivals, queueCrashes>>

-----------------------------------------------------------------------------
(* The daemon's file operations, one system call at a time. *)
DaemonFile == UNCHANGED <<stored, phase, batch, round, direct, bootstrap,
                          adding, arrivals, queueCrashes>>

EnqueueLook ==
    /\ todo # <<>> /\ Head(todo).act = "enqueue"
    /\ LET o == Head(todo)
       IN todo' = IF o.line.ref \in RefsOf(queue[o.queue]) THEN Tail(todo)
                  ELSE <<[o EXCEPT !.act = "append"]>> \o Tail(todo)
    /\ UNCHANGED <<queue, added, owed, atRisk>> /\ DaemonFile

EnqueueAppend ==
    /\ todo # <<>> /\ Head(todo).act = "append"
    /\ AppendTo(Head(todo).queue, Head(todo).line)
    /\ todo' = Tail(todo) /\ added' = TRUE
    /\ DaemonFile

Without(s, r) == Picked(s, {i \in DOMAIN s : s[i] = Torn \/ s[i].ref # r})

(* removeSyncRefWithRedis: keep every other line; the file is always rewritten. *)
RemoveLook ==
    /\ todo # <<>> /\ Head(todo).act \in {"remove", "settle"}
    /\ LET o == Head(todo)
       IN /\ todo' = <<WriteOp(o.queue, Without(queue[o.queue], o.line.ref))>> \o Tail(todo)
          /\ owed' = IF o.act = "settle" THEN owed \ {o.line.ref} ELSE owed
    /\ UNCHANGED <<queue, added, atRisk>> /\ DaemonFile

Truncate ==
    /\ todo # <<>> /\ Head(todo).act = "write"
    /\ LET o == Head(todo)
       IN /\ queue' = [queue EXCEPT ![o.queue] = <<>>]
          /\ todo' = <<[o EXCEPT !.act = "writing"]>> \o Tail(todo)
    /\ UNCHANGED <<added, owed, atRisk>> /\ DaemonFile

(* The lines go to offset 0: what was appended since the truncation is
   overwritten, and the end of a longer line stays behind. *)
Rewrite ==
    /\ todo # <<>> /\ Head(todo).act = "writing"
    /\ LET o == Head(todo) IN
       /\ \/ queue' = [queue EXCEPT ![o.queue] = o.lines]
          \/ /\ Len(queue[o.queue]) > Len(o.lines)
             /\ queue' = [queue EXCEPT ![o.queue] = Append(o.lines, Torn)]
       /\ todo' = Tail(todo)
    /\ UNCHANGED <<added, owed, atRisk>> /\ DaemonFile

-----------------------------------------------------------------------------
(* reconcileQueue, step by step; a step starts when the file operations of the
   one before are done. *)
Loop(at) == todo = <<>> /\ phase = at
LoopKeeps == UNCHANGED <<queue, adding, arrivals, queueCrashes, atRisk>>

(* migrateHistoryManifestQueueRefs: what is kept was read before the manifests
   are added to the history. *)
Migrate ==
    /\ Loop("migrate")
    /\ LET s == queue["realtime"]
           moving == {i \in DOMAIN s : s[i] # Torn /\ s[i].ref \in Manifests}
           moved == Picked(s, moving)
           kept == Picked(s, DOMAIN s \ moving)
       IN todo' = IF moved = <<>> THEN <<>>
                  ELSE [i \in DOMAIN moved |-> EnqueueOp("history", moved[i].ref)]
                       \o <<WriteOp("realtime", kept)>>
    /\ phase' = "realtime"
    /\ UNCHANGED <<stored, batch, round, direct, added, bootstrap, owed>> /\ LoopKeeps

(* sanitizeSyncQueueFile: a line that does not parse ends RunSync. *)
Sanitise(q, next) ==
    /\ Loop(q)
    /\ LET s == queue[q]
           clean == [i \in DOMAIN s |-> IF s[i] = Torn THEN Torn ELSE Line(s[i].ref, TRUE)]
       IN /\ phase' = IF HasTorn(q) THEN "dead" ELSE next
          /\ todo' = IF HasTorn(q) \/ clean = s THEN <<>> ELSE <<WriteOp(q, clean)>>
    /\ UNCHANGED <<stored, batch, round, direct, added, bootstrap, owed>> /\ LoopKeeps

(* enqueueHistoryFromLANPeers: an entry of a peer's head that matches the rules and
   the quota goes to the history, or, when recent, from the history to realtime. *)
LanEntry ==
    /\ Loop("lan")
    /\ bootstrap' = IF bootstrap = "new" THEN "recent" ELSE bootstrap
    /\ \/ /\ phase' = "manifests" /\ todo' = <<>>   \* no entry, or the peer does not answer
       \/ \E r \in Listed \ stored :
             /\ \/ todo' = <<EnqueueOp("history", r)>>
                \/ todo' = <<RemoveOp("history", r), EnqueueOp("realtime", r)>>
             /\ phase' = "manifests"   \* bound: one entry for each reconciliation
    /\ round' = 0 /\ direct' = Direct
    /\ UNCHANGED <<stored, batch, added, owed>> /\ LoopKeeps

(* enqueueHistoryFromLocalManifests: what the stored manifests list and the quota
   admits; only the count of the second call of a round is used. *)
FromManifests(at, next) ==
    /\ Loop(at)
    /\ IF stored \cap Manifests = {} THEN todo' = <<>>
       ELSE \E some \in SUBSET (Listed \ stored) :
              LET s == SetToSeq(some)
              IN todo' = [i \in DOMAIN s |-> EnqueueOp("history", s[i])]
    /\ phase' = next /\ added' = FALSE
    /\ UNCHANGED <<stored, batch, round, direct, bootstrap, owed>> /\ LoopKeeps


(* collectSyncRefs: each reference once, the command line first, then realtime,
   then history with the manifests last; processQueue takes the first MaxPerPass.
   A line that does not parse is an error that ends RunSync. *)
Fresh(s, q, seen) ==
    LET first == {i \in DOMAIN s : s[i] \notin seen /\ \A j \in DOMAIN s : j < i => s[j] # s[i]}
        refs == Picked(s, first)
    IN [i \in DOMAIN refs |-> [ref |-> refs[i], queue |-> q]]
RefSeq(q) == LET s == Picked(queue[q], {i \in DOMAIN queue[q] : queue[q][i] # Torn})
             IN [i \in DOMAIN s |-> s[i].ref]
Taken(s) == {s[i].ref : i \in DOMAIN s}
Collected ==
    LET d == Fresh(direct, NoQueue, {})
        rt == d \o Fresh(RefSeq("realtime"), "realtime", Taken(d))
        h == Fresh(RefSeq("history"), "history", Taken(rt))
    IN rt \o Picked(h, {i \in DOMAIN h : h[i].ref \notin Manifests})
          \o Picked(h, {i \in DOMAIN h : h[i].ref \in Manifests})
FirstOf(s, n) == SubSeq(s, 1, IF Len(s) < n THEN Len(s) ELSE n)
Collect ==
    /\ Loop("collect")
    /\ IF HasTorn("realtime") \/ HasTorn("history")
       THEN phase' = "dead" /\ UNCHANGED batch
       ELSE phase' = "process" /\ batch' = FirstOf(Collected, MaxPerPass)
    /\ todo' = <<>>
    /\ UNCHANGED <<stored, round, direct, added, bootstrap, owed>> /\ LoopKeeps
(* Mutant: a ref that failed is removed after it was queued again. *)
RemovesAfterEnqueue(x, result) ==
    IF x.queue = NoQueue THEN <<>>
    ELSE IF result = "failed" THEN <<EnqueueOp(x.queue, x.ref), RemoveOp(x.queue, x.ref)>>
    ELSE <<SettleOp(x.queue, x.ref)>>

(* Mutant: a ref that failed is put back at the head of its file. *)
RotatesToHead(x, result) ==
    IF x.queue = NoQueue THEN <<>>
    ELSE IF result = "failed"
    THEN <<WriteOp(x.queue, <<Line(x.ref, TRUE)>> \o Without(queue[x.queue], x.ref))>>
    ELSE <<SettleOp(x.queue, x.ref)>>

(* syncRef and what processQueue makes of its result: a bundle that is here, was
   imported, is over the quota or is gone for good (404) leaves its file; one that
   failed goes to the end of its file. *)
AfterResult(x, result) ==
    IF x.queue = NoQueue THEN <<>>
    ELSE IF result = "failed" THEN <<RemoveOp(x.queue, x.ref), EnqueueOp(x.queue, x.ref)>>
    ELSE <<SettleOp(x.queue, x.ref)>>
Results(r) == IF r \in stored THEN {"present"}
              ELSE {"imported", "overQuota", "gone", "failed"}
Process ==
    /\ Loop("process") /\ batch # <<>>
    /\ LET x == Head(batch) IN
       \E result \in Results(x.ref) :
          /\ stored' = IF result = "imported" THEN stored \cup {x.ref} ELSE stored
          /\ todo' = AfterResult(x, result)
    /\ batch' = Tail(batch)
    /\ UNCHANGED <<phase, round, direct, added, bootstrap, owed>> /\ LoopKeeps
Processed ==
    /\ Loop("process") /\ batch = <<>>
    /\ phase' = "again"
    /\ UNCHANGED <<todo, stored, batch, round, direct, added, bootstrap, owed>> /\ LoopKeeps
(* Another round while the manifests brought something, without the command line;
   at the end maybeCompleteHistoryBootstrap, then the wait for the next tick. *)
NextRound ==
    /\ Loop("round")
    /\ IF added /\ round + 1 < Rounds
       THEN phase' = "manifests" /\ round' = round + 1 /\ direct' = <<>>
       ELSE phase' = "complete" /\ UNCHANGED <<round, direct>>
    /\ UNCHANGED <<todo, stored, batch, added, bootstrap, owed>> /\ LoopKeeps
Complete ==
    /\ Loop("complete")
    /\ LET looks == bootstrap = "recent"
           bad == looks /\ (HasTorn("realtime") \/ HasTorn("history"))
       IN /\ phase' = IF bad THEN "dead" ELSE "migrate"
          /\ bootstrap' = IF looks /\ ~bad /\ queue["realtime"] = <<>> THEN "steady" ELSE bootstrap
    /\ UNCHANGED <<todo, stored, batch, round, direct, added, owed>> /\ LoopKeeps

(* The process dies at any point, or RunSync returned its error; whoever started it
   starts it again (bounded when it died by itself). *)
Crash ==
    /\ phase \notin {"down"} /\ (phase # "dead" => queueCrashes < MaxQueueCrashes)
    /\ phase' = "down" /\ todo' = <<>> /\ batch' = <<>>
    /\ adding' = [adding EXCEPT !["pubsub"] = Nobody]
    /\ atRisk' = atRisk \cup (InHand \ Queued)
    /\ queueCrashes' = IF phase = "dead" THEN queueCrashes ELSE queueCrashes + 1
    /\ UNCHANGED <<queue, stored, round, direct, added, bootstrap, arrivals, owed>>
Restart ==
    /\ phase = "down"
    /\ phase' = "migrate" /\ round' = 0 /\ direct' = Direct /\ added' = FALSE
    /\ UNCHANGED <<queue, stored, todo, batch, bootstrap, adding, arrivals, queueCrashes, owed, atRisk>>

DaemonStep ==
    \/ EnqueueLook \/ EnqueueAppend \/ RemoveLook \/ Truncate \/ Rewrite
    \/ Migrate \/ Sanitise("realtime", "history") \/ Sanitise("history", "lan")
    \/ LanEntry \/ FromManifests("manifests", "collect") \/ Collect
    \/ Process \/ Processed \/ FromManifests("again", "round") \/ NextRound \/ Complete
QNext ==
    \/ DaemonStep \/ Crash \/ Restart
    \/ \E r \in Refs : Announced(r) \/ ServeAdds(r)
    \/ \E w \in {"pubsub", "serve"} : Add(w)

QSpec == QInit /\ [][QNext]_qvars
QFair == WF_qvars(DaemonStep) /\ WF_qvars(Restart)

-----------------------------------------------------------------------------
QTypeOK ==
    /\ queue \in [Queues -> Seq(Lines)]
    /\ stored \subseteq Refs /\ owed \subseteq Refs /\ atRisk \subseteq Refs
    /\ phase \in {"migrate", "realtime", "history", "lan", "manifests", "collect", "process",
                  "again", "round", "complete", "dead", "down"}
    /\ \A i \in DOMAIN todo :
         /\ todo[i].act \in {"enqueue", "append", "remove", "settle", "write", "writing"}
         /\ todo[i].queue \in Queues /\ todo[i].line \in Lines /\ todo[i].lines \in Seq(Lines)
    /\ batch \in Seq([ref: Refs, queue: Queues \cup {NoQueue}])
    /\ round \in 0..(Rounds - 1) /\ direct \in {Direct, <<>>} /\ added \in BOOLEAN
    /\ bootstrap \in {"new", "recent", "steady"}
    /\ adding \in [{"pubsub", "serve"} -> [queue: Queues \cup {NoQueue}, line: Lines]]
    /\ arrivals \in 0..MaxArrivals /\ queueCrashes \in 0..MaxQueueCrashes

(* No reference is lost: what was accepted and is not settled is in a file, in
   the daemon's hand, or was appended while a rewrite of its file was computed
   (sync.go:1157, 1679, 1722), or was in the daemon's hand when it crashed (1172, 1114).
   The rotation, the promotion, the migration, the rounds and the batch lose nothing
   by themselves. *)
NoRefLost == owed \subseteq Queued \cup InHand \cup atRisk

(* Every reference that waits is tried again and again or settled: a failing one goes to
   the end of its file (rotateSyncRefWithRedis) and cannot hold back those behind it - as
   long as the daemon is not stopped for good by a torn line.  A reference waits while it is
   in the realtime file, and also while the file is rewritten, when it is in the daemon's
   hand only. *)
Tried(r) == phase = "process" /\ batch # <<>> /\ Head(batch).ref = r
Waits(r) == r \in RefsOf(queue["realtime"]) \cup InHand
EveryRefIsTried ==
    \A r \in Refs : []<>(Tried(r) \/ ~Waits(r) \/ HasTorn("realtime") \/ HasTorn("history"))
=============================================================================

# A TLA+ model of AiP2P

AiP2P is a local-first node for agents and people: a store of content bundles
that spreads over libp2p, team spaces (tasks, artifacts, channels, members)
replicated between the nodes of a team, live rooms, and a web host that shows
all of it. Two processes of a node share its files: the sync daemon
(`aip2p sync`, started by the host or by hand) and the web host (`aip2p serve`).
A third kind, the command line, edits some of them while both run.
This directory specifies the parts of it where order, crashes and sharing
matter, checks them with TLC on small instances and proves most of the safety
results with TLAPS for all instances.

`PROJECT.json` is the index: the components, the runs with what each shows, for
every definition the lines it models, for every property a plausible bug that
breaks it, the hazards of the code, the findings and the theorems.

## 1. Inventory

All paths are under `internal/` unless they begin with `cmd/`.

| component | state it keeps | operations | what makes it correct |
|---|---|---|---|
| team sync runtime, `aip2p/team_sync.go` | `seen`, `primed*`, checkpoints, pending outbox, ack ledger, peer acks, conflicts | `SyncOnce` (one scan per object kind), the subscription handler, `handleAck`, restart | what is written goes out; nothing is pending for ever; retries are bounded; the outbox speaks only of what was sent |
| team sync state file, `sync/team_sync_state.json` | the above but `seen` and `primed*` | `writeTeamSyncState` by the scan, the handler and `ResolveTeamSyncConflict` of the web host | parses, is not behind what was saved, and keeps resolutions, but while calls overlap |
| team replication, `aip2p/team/sync.go` | the team store of every node | `ApplyReplicatedSync` and its `ApplyReplicated*` | replicas agree; a message once; a deletion is not lost |
| task and artifact handlers, `plugins/aip2pteam/handler_task.go`, `handler_artifact.go` | none of their own | create, update, status, delete, each several calls of the store | an edit or deletion is recorded as well as done |
| task and artifact files, `aip2p/team/index_store.go` | `tasks.data.jsonl`, `tasks.index.json`, `tasks.jsonl` | put, save, delete, load, compact, migrate | the files are one map; a load returns a version that was current |
| team web handlers and room plugins, `plugins/aip2pteam/handler*.go`, `rooms/` | metadata of messages, tasks and artifacts made from them | task pages; post, distil, sync in six rooms, one by one and in batches | a closed task stays closed; a message is distilled once |
| other team files, `aip2p/team/store.go`, `archive.go` | members, policy, channels, messages, archives | append, save, load, archive | no edit undone, archives are cuts, stored under the policy |
| webhooks, `aip2p/team/webhook_delivery.go`, `store.go` | subscriptions, last 200 deliveries, event streams | publish, three attempts, replay | each event is delivered or ends as a dead letter, and the file says so |
| bundle sync, `aip2p/sync.go`, `manifest.go` | realtime and history queue files, announced set, direct peers | enqueue, remove, rotate, promote, migrate, reconcile | a queued reference is fetched or stays queued |
| pubsub, `aip2p/pubsub.go`, `announcement_cache.go` | topics, two handler slots of 5 s, announcements in Redis | publish, subscribe, announce, trim | what the rules select arrives; the cache is consistent and bounded |
| host and peer discovery, `aip2p/libp2p.go`, `lanpeer.go` | known-good peers, LAN health file | resolve, bootstrap, report | peers are found again after a restart |
| bundle store and transfer, `aip2p/store.go`, `bundle.go`, `transfer.go` | content directories and torrents | publish, fetch, import, announce | a complete bundle stays complete and is announced |
| credits, `aip2p/credit_*.go` | a file per proof, archives per day, a cache with a dirty flag, day bundles | save, load, archive, clean, gossip, import | a saved proof is counted, and reaches the others |
| live rooms, `aip2p/live/` | events per room, room record, archives, Redis cache, sessions | append, prune, archive, join, leave, watch | an event stays until archived; who said it archives it |
| Redis mirror, `aip2p/redis_*.go` | lists, documents and sets that expire | fill, drop | only a cache |
| content index and read caches, `plugins/aip2p/{server,index,index_cache,filter_cache,http_cache}.go` | index, filtered lists, responses, epochs, builds under way | probe, build, invalidate, page | pages catch up with the files; no post is missed |
| writer policy, moderation, governance, `plugins/aip2p/{writer_policy,moderation,delegation}.go` | policies, registries, decisions, delegations | approve, reject, route, delegate, revoke, batches | a decision is authorised, and stays |
| sync supervisor, `plugins/aip2p/sync_supervisor.go` | the child process, restart window, circuit | start, watch, kill, back off, stop | bounded restarts; no worker left; none killed that works |
| extensions and host, `extensions/store.go`, `host/`, `apphost/`, `cmd/aip2p` | directories with records of installation | install, link, update, remove, serve | installing one breaks no other |
| identities and delegations, team read models and signatures | key files; none | derivation, normalisation, metrics | sequential functions of their input |
| other web plugins, `plugins/{aip2plive,aip2pcontent,aip2pops,aip2parchive}` | none of their own | forms and pages | pages obey the rules |

How they interact:

- The scan of the team sync runtime READS the team store without its lock and
  publishes what it has not published. The handler of the subscription WRITES
  the team store, from goroutines of the pubsub runtime, and publishes acks.
  The web host writes the same files from another process; both take `flock`
  on the team, but most handlers decide on what they loaded before the lock.
- Acks come back over the same topic and settle entries of the outbox.
- `RunSync` calls the team scan, the announcements, the credit proofs and the
  bundle queue one after the other on every tick. A queue error ends the loop.
- The pubsub handler of an announcement and the serve process add to the queue
  files the loop is rewriting, without a lock.
- The web host starts and watches the daemon through the supervisor, reads its
  status files, indexes its bundles and caches what it shows.
- Moderation decides in the web host which posts the index shows; the rules of
  subscriptions decide in the daemon what is fetched and in the pages what is shown.
- Live sessions are processes of their own. They share a room's files with the
  watcher of the web host on the same machine and meet others on a topic.

What is hard: goroutines and processes over shared files without a
shared lock; a publish-subscribe network that loses, repeats and reorders; acks
and handler timeouts racing the loop that retries; files written one after the
other, or in place, by a process that may stop anywhere; checks made before a
lock is taken and relied on under it. `PROJECT.json` lists each such spot under
`hazards` with the properties that cover it. Not listed there, because losing is what
the code says it does: the channel of a subscriber to a team's events holds 32,
and `store.go:1420` drops what does not fit without a trace.

## 2. Plan

Built, in the order of what can go most wrong: the outbox, replication, its
state file and the task files; the queue files, the bundle store and the
supervisor; the index and its caches; the rest of a team's files, its desk and its
webhooks; credits; live rooms; rules, moderation and pages; announcements,
peers and extensions.

Proofs, in the order of what a small instance says least about: the data
structures under unlocked writers, the outbox and replication, the requests of the
web host, the sessions of live rooms, then what rests on lists and on functions
defined by recursion: moderation, the pages, daily archives, extensions. Every
safety and action property of the runs has its theorem. Left are the type
invariants named in section 4 and liveness.

No module with theorems declares a RECURSIVE operator. Constants carry named
assumptions, each operation is one action or one action per system call, and the
invariants are conjunctions of named parts.

## 3. The modules and the code

Each module names the functions it models beside its actions, and `map` in
`PROJECT.json` gives the lines. `MC*` modules give TLC values for the constants;
`*_proofs` modules hold the theorems. Definitions commented `Mutant:` are
plausible bugs of the definition below them. Nothing uses them except the
experiments that show that a property notices.

### Teams

**`TeamSyncOutbox`**. One node's publishing side. `ScanStart ... ScanEnd` are the
loop of one scan over one bucket (`syncTeamMessages` and its six siblings, which have the same
shape): an object is skipped as old (`SkipOld`, only before the bucket is
primed) or seen, or is selected, published (`PublishOk`, `PublishFail`),
remembered and counted (`RecordPublished`), checkpointed (`PersistCheckpoint`)
and made pending (`PersistPending`). Between any two of these steps users write
(`LocalWrite`), remote objects arrive (`RemoteStore`, `RemoteRecord`), acks
settle entries in two writes (`AckRecord`, `AckClear`), entries age
(`AgePending`), the seen set forgets (`PruneSeen`) and the process stops (`Restart`).
`cp`, `pending` and `acks` are what the process has in memory, `file` what it wrote of
them last, which is all a restart finds. Every change compacts the outbox (`Compact`)
and is written, or the write fails (`Saved`, `NotSaved`, at most `MaxFaults` times): then
the memory is ahead of the file, a failed checkpoint leaves its entry without a pending
mark, and a failed write of an ack clears nothing, as in the code.
A key stands for an id or an `object:version` pair. The thresholds of time are
four ages, because nothing else of it matters to the code. Channels and
configurations are primed only by a scan without an error (`PrimeOnSuccess`),
the other kinds by any. `appendOnly` keys are messages and history.

**`TeamReplication`** and **`ReplicatedRegister`**. All nodes, and the topic between
them as the set of everything published. Any node may handle any of it, never,
once or often, in any order: loss, duplication, delay and reordering without a
queue. A handler is two steps, as in the code: `Receive` reads the store and
decides (`Wanted`); `Apply*` takes the lock and writes what was decided. The
history handler has three: event first, object second. `MaxHandlers` is 1 when
no handler exceeds its 5 s and 2 otherwise: an abandoned handler goes on
running (`pubsub.go:496`). Users stamp an edit (`Draft`) before they save it
(`Save`); a configuration is stamped under the lock (`SaveConfig`) and stamped
again by the receiver (`Stored`). A deletion removes the object and logs it after
(`Delete`, `LogDeletion`). A crash loses handlers, drafts and half-done deletions.
The clocks of the nodes are one clock, and no two writes get the same instant.
`ReplicatedRegister` is what a reader of another node may rely on: a copy holds
something its owner wrote and only moves forward.

**`TeamSyncStateFile`**. Three writers of one file: the daemon's scan and handler,
which share memory (`mem`), and the resolver of the web host, which reads the
file. A write is `Merge` (read the file, take the newer or resolved conflicts),
`Marshal`, `Open` (truncate the shared temporary file), `Fill` and `Rename`. A
descriptor follows its file: after another writer's rename it writes into the
state file. Calls overlap in any way, as no lock spans the two goroutines and the other
process. What an overlap does to the file (an older state, or a torn one) lasts until a
call of the daemon runs alone and writes its memory; a daemon that restarts before that has
lost the checkpoints the file lacks, or starts without team sync when it is torn. Histories
say which calls have met others (`met`), whether such a call has renamed since the last
daemon call that ran alone (`disturbed`) and which conflicts were resolved by a call that ran alone and were not
recorded again amid others (`held`).

**`TaskIndexStore`** and **`TaskMap`**. A call takes the lock (`Begin`), makes sure
there is an index (`Ensured`, `Migrate`) and then puts, saves, deletes or
compacts. An append is two steps with `Garbage` in between, the index is
truncated (`OpenIndex`) and filled (`FillIndex`). `Stop` cuts the call wherever
it is. Places in the data file are numbered, with the number of the file they
were computed for: at a place computed for another file a read finds garbage or
any record. Loads (`ReadIndex`, `ReadRecord`) take no lock. `TaskMap` is the
promise: a map that one call at a time changes whole or not at all, until a call
is cut where it cannot be undone (`cut`).

**`TeamDesk`**. The requests of the task pages and of the six rooms. A worker
loads (`Begin`), decides outside the lock, and adds or changes tasks, artifacts
and messages in later steps, each a call of the store; the policy changes
meanwhile. `Kinds` gives what one room's handler does that another's does not.
Each room has its copy of the sync of a task (`SyncTask`: find or create the bound
task, load it, save its status) and of the distillation of an artifact
(`EnsureArtifact`: look among the newest, append). `SavePage` is the save of the
task pages. `recent` lists the existing tasks, last updated first; `Window` is the
artifacts a handler sees.

**`TeamFiles`**. Members, policy, channels, messages and manual archives, file by
file. A list of members is loaded outside the lock and written whole under it; a channel is loaded before it is saved
(`SaveChannel`); an archive reads messages (`LoadMessages`), then history; a file is
emptied before it is filled.

**`WebhookDelivery`**. An event becomes one delivery for each subscription: up to
`MaxAttempts` attempts in a goroutine, each recorded in the file, which keeps the
newest records of each delivery up to `KeepDeliveries`; replays; the process stops.

### Bundles and their network

**`SyncQueue`**. The queue files as sequences of lines, with the three writers that
share no lock. What the daemon still has to do to the files is `todo`, a sequence of
operations; a rewrite is computed from a read, then truncates, then fills. A line
appended meanwhile is overwritten, and the end of a longer line stays behind
(`Torn`). `owed` is what was accepted and is not settled, `atRisk` what a race
or a crash may have destroyed.

**`BundleStore`**. A bundle's directory and torrent file under publication (body,
message, torrent), fetch (torrent, then content or a peer that holds it), import
and announcement, with a crash between any two writes. Two bundles may want one
directory name. The daemon's loop takes turns: it lists what it holds and has not
announced (`ListBundles`), announces from the oldest (`Announce`) until one publication
fails or all are out (`EndPass`), and fetches, or finds nothing to fetch.

**`SyncSupervisor`**. The loop that starts, watches, kills and restarts the daemon,
in ticks of 30 s, the time of its health check. The window, the threshold, the
cool-down and the age that counts as stalled are constants in ticks.

**`Announcements`**, over **`ContentRules`**. What a node publishes on which topics,
oldest first, what a receiver joins and selects, messages that are lost, and the history
manifests that name what was announced before. A manifest is read one entry per step, so
that the limit of entries per pass (`manifest.go:278`) is a pause between two of them.
The rules have no daily quota (`NoDailyQuota`).

**`AnnouncementCache`**. The Redis documents and the sorted sets that name them.
Each storing goroutine trims in commands of its own: count, list, read, remove.

**`PeerDiscovery`**. LAN peers and their health file, the known-good peers, the one
address dialled of each, restarts and moves of nodes, and a live session that
writes the same health file. Known-good peers are saved whole (`SaveKnown`), as many as
the file keeps.

**`CreditStore`**, **`CreditExchange`**. The first is the proof files of one node:
saved by the daemon, moved into day archives and cleaned by the tool without a
lock while the daemon loads them and answers from its cache. The second is what
makes a proof valid, who hears of it, and the day bundles that carry the rest.

### Live rooms

**`LiveRoom`**. One room on one machine: sessions and the watcher append under a
lock, prune heartbeats by reading and rewriting the file, keep an index beside it
and fill the list in Redis, when there is one.
**`LiveSession`**. Host, guests and a watcher on machines of their own: announcements,
notices, who is the room's creator, who archives what. `knew` says whether the store of
who joins held a key for the room already; `Strangers` are those whose store did not, and
only their key may take the place of the host's.
**`LiveHistory`**. The daily archives, the rules of `subscriptions.json`, the rate limit
and the pages that obey them. A list of lines that a page or an archive keeps is
the set of their places in the file, which is all their order is needed for.

### What a node shows

**`ContentRules`**, **`Moderation`**. The first is functions: policies, registries, delegations and
subscription rules, and what they say of a message. The second is the requests
that change decisions, delegations and policies: each reads, computes and puts
its file in place by one temporary name all requests share.
**`ContentIndex`**. The index of one web host: a probe of the sources decides
whether it is current, one goroutine builds while the others wait, an
invalidation raises the epoch, a page is built once for all who wait.
**`ContentPages`**. The lists a reader walks through while posts arrive and are
answered, their facets and counts, and the reviewer suggested for a post. A list is
a set of posts with the order they are shown in: `Place` is where a post stands, and
a page is the posts of its stretch of places. The suggestions are a recursive
function over the posts in that order, as each counts what was assigned before it.
**`ExtensionStore`**. Installing, linking, updating and removing plugins, themes and apps
by processes that may overlap or be killed half-way, and what a host can start.
`PartsOf` is what an app is made of; a link to a relative directory leads nowhere
(`Relative`), so what it replaces is gone.

## 4. What each run shows

Parts that share no state share a run: a variable `part` picks the one that runs
and the others rest, so the states of a run are the sum of those of its parts.

| run | states | parts and bounds | shows |
|---|---|---|---|
| `outbox_register` | 3,944,190 | 2 versions of a configuration, one written here and one elsewhere, 1 crash, 1 retry, 1 failed write before the crash | `OutboxSound`: retry budget, one pending entry per state key, only what was sent, acked only if applied |
| `outbox_live` | 59,199 | outbox with 2 messages, 1 restart; announcements of 2 posts with manifests, 1 loss or failure | nothing skipped while running; every message goes out and no entry waits for ever, even without acks; what the rules select arrives |
| `repl_one_writer` | 73,259 | 2 nodes, a task edited on one, a message, 1 crash; credits of 2 daemons; peers of 2 nodes | no more copies of a message than handlers at a time, the register is implemented, replicas agree in the end, proofs spread, peers are found again |
| `repl_history` | 1,979,510 | 2 nodes, a deletable task and a configuration edited on both, overlapping edits and handlers, 1 crash | histories agree, no silent loss, no configuration rolls back |
| `bundle_sync` | 183,354 | queue of 3 references; store of 3 bundles, 2 names; supervisor; index with 2 builders and 2 requests; 1 crash each | no reference lost, restarts bounded, complete bundles stay, every reference is tried and every bundle announced, no working worker is killed, pages catch up |
| `team_web` | 904,465 | task files with 2 tasks and 2 stops; desk with up to 3 requests a room; team files with 2 users; 2 deliveries; 2 proofs; a room with 3 events; 3 announcements in Redis, 2 goroutines that trim | files and index one map, loads miss nothing, no event lost, archives are cuts, records kept, the cache is consistent and bounded, closed tasks stay closed, no second artifact, no late undo, stored under the policy |
| `node_files` | 655,704 | state file with 2 conflicts, 1 checkpoint, 1 crash; moderation by 2 admins and a reviewer; walks over 2 changes; 1 room's archives; sessions of a host, a guest and an updater; 4 extension commands | saved cursors and resolutions stay but for what overlapping calls do, decisions are authorised and stay, only what is admitted is shown, no post is missed, archives are complete and own, keys follow hosts, rules are obeyed, installs break no other app |
| `outbox_cursor`, `repl_lww`, `state_resolution`, `rooms_binding`, `live_redis` | | as small as the counterexample needs | violations, see 5 |

Bounds. The outbox rules relate an entry to one other entry of its state key, so
two keys show all of them; one crash separates what is on disk from what is not.
Two nodes suffice for replication, because an envelope names its source and nothing
else of it; relays appear as the second node publishing what it received. Three
instants allow an edit, a later edit and a deletion, or an edit on each side and
a stamp by a receiver. Two stops of the store give a cut call followed by
another. Two unlocked writers suffice for each race of a read with a rewrite, and three
requests for one that finds the work of two others. Two messages make a batch.
For the properties with a theorem the bounds only guard against a wrong model;
the theorem covers every value of them.

For liveness, and where a bound looked tight, these larger instances were run
as well and hold: `outbox_register` with 2 retries (10,552,507 states); queue files
with two arrivals; the supervisor with all its
times at 4 (118,791 states); two free page requests (159,493); three requests on
the files of a team with two channels (3,052,835); moderation without symmetry
and with stops anywhere (1,065,010); the state file with 2 conflicts,
2 checkpoints and 3 stamps (4,367,762), and with 1 conflict and 2 crashes (5,488,618);
archives of 5 lines (841,818); a host that also archives and leaves, with a guest (507,382);
overlapping handlers of a message and of what `repl_history` edits (536,175); extensions by two operators with 4 commands (4,386,740);
announcements under three sets of rules (82,010); the cache with 4
announcements and a limit of 2 (656,310); two versions of a proof (413,903 with
liveness); peers that are placed two ways, move and stop (183,041); the outbox
of a log with a restart (1,152,342), and of one with a peer's messages
and no restart (1,019,008); the index with two changes and both requests at any
time (3,530,283, its invariant only).

The log with a peer's messages fails `NothingSkippedWhileRunning` with a restart: a
peer's message with a later stamp that this node publishes again carries the checkpoint
over what this node writes after its restart. The first scan passes over that, and it goes
out half an hour later. So does a second message with an equal stamp. Hence the assumptions
of `NothingSkippedHolds` in section 6.

`CHECK_DEADLOCK FALSE` is set where users may have nothing left to do inside the bounds.

Type invariants. Those with a theorem are proved and not run. `DeskTypeOK`,
`PagesTypeOK`, `HistoryTypeOK`, `ExtTypeOK` and `ATypeOK` have
none; they were checked on the instances of their runs and are kept out of the
configurations to leave the properties that say more.

### Fairness

Only where the code's scheduling justifies it:

- Outbox: the loop of `RunSync` runs while the process does (weak fairness of the
  scan's steps, strong fairness of starting each bucket, because every `SyncOnce`
  walks all of them), a publication tried again and again succeeds in the end,
  and time passes: entries age, and what is in `seen` is forgotten half an hour later, by a
  runtime that stays up that long. Nothing is assumed of peers or acks.
- Replication: what a node holds is published again (each half hour, when `seen`
  forgets it) and a peer that stays connected handles it again and again; a
  handler that has started ends. Without the second assumption GossipSub may lose everything.
- Store: the daemon's loop as a whole runs on (weak fairness of `LoopRuns`, no fairness of
  any one bundle), and a publication fails a bounded number of times: since a failure ends
  the pass, a bundle whose publication failed for ever would hold back all newer ones
  (`sync.go:619`).
- Announcements: the sender's ticks and the receiver's loop go on, the link comes
  back, and a manifest that is announced on every tick is received and fetched
  in the end (strong fairness); a post itself may be lost for good.
- Credits: a pass over the day's queue is finite (`TickEnds`), the bundle of a day
  that is offered on every tick is fetched in the end.
- Peers: the daemon's loop is sequential and runs on (`DaemonGoes`), and a
  dialled address that answers is connected in the end.
- Queue, supervisor, index: weak fairness of the loop's own steps, of
  goroutines that have started, and of the tick; none of failures, nor of what users do.

Where several parts share a run only one of them runs, so the fairness of one
part's action is stated as that of the disjunction with the others' (`A \/ B`),
which is then fairness of each.

## 5. Where code and text disagree

The five `violation` runs are listed under `findings` with the lines quoted.

- `outbox_cursor`: the checkpoint is one instant per state key, so it cannot
  represent a gap. A publish that failed before a newer one succeeded is not sent from the
  checkpoint after a restart: the first scan takes the object for seen
  (`team_sync.go:271`). It is delayed until `seen` forgets it half an hour later
  (`team_sync.go:783`), and again by each restart before that; `OutboxProgresses` of
  `outbox_live` shows that it does go out if the runtime stays up.
- `repl_lww`: `ApplyReplicatedTask` compares before the lock and does not compare
  again under it.
- `state_resolution`: the merge of the state file and its rename are not one step
  across processes.
- `rooms_binding`: a review thread with an artifact that names no task is never
  bound to the task its sync creates, and every further sync creates another.
- `live_redis`: pruning rewrites the file from a list it took from Redis, although
  Redis is documented as a cache only.

What else the models brought to light, each a consequence of the code as it is
and not covered by a document that says otherwise unless quoted:

*Teams.* The next message of a channel cancels the pending retries of the one
before (one entry per state key, and the state key of a message is its channel).
An old snapshot brings a deleted task back, as a deletion leaves no version
behind. Nodes that replicate a configuration stamp it anew on each receipt, so it
travels back and forth until the stamps meet. A torn task index makes every
later task call of that team fail, as nothing rebuilds it. Overlapping writes can
rename an older state or a torn temporary file over the state file; the next write of the
daemon mends it, but a restart before that publishes again what the file lacks, or finds
it torn and leaves team sync off, at every later start too (`sync.go:169`). An emptied `channels.json` reads as the
default channels, an emptied `members.json` or `policy.json` blocks every request;
overlapping saves of members that touch the same member lose one; hiding a
channel saves the title it loaded earlier. A refused item of a batch is
skipped where `docs/team-room-plugin.md:356` describes the batch as a whole.
An emptied delivery file makes all later updates of it fail silently, and records pending
when a process stops stay pending.

*Bundles.* A crash between a publication and the write of the state leaks a bundle.
A history manifest carries the second it was made in, so every tick publishes a new
one and deletes the last, and references to the old end in 404
(`manifest.go:131`, `182`, `202`); manifests carry the topics of their entries but their
own channel and tag, so a subscriber who selects by channel, tag or author never
sees one. A bundle already in the store is skipped and not imported again, so an
import cut short completes only with the next day's bundle. Fetching over HTTP does not
check the daily quota (`sync.go:1892`, compare `1872`). An announcement on several
joined topics may be queued twice; more than 63 joined topics stop the daemon
at its start. No daemon makes or witnesses a proof of its own: nothing fills the
list of seeded bundles (`sync.go:686`, compare `README.md:841`). Saving a proof
validates it at time zero, so one from the future or long expired is accepted.
The hash of a credit bundle carries its time, so an unchanged one is published
again (`credit_bundle.go:83`). Concurrent trims in Redis can remove more than the excess.

*Peers.* Only the first address of each peer is kept, so a stale configured one
hides known-good ones; one unparsable bootstrap address stops the daemon's start; LAN
peers become bootstraps only at start, later probes update the health file and
nothing else; any node that answers at the host a peer once named is taken for
it; a corrupt known-good file is never replaced. `mdnsTracker` counts by the encoded
identifier, so its connected peers are always 0 (`libp2p.go:1196`). Two programs
that create `libp2p_host.key` at once may use a key the file does not hold.

*Live rooms.* Who joins a room nobody has heard of announces itself as its creator,
and its archive notice makes every watcher believe so until the host announces
again. Late events and events with early stamps never enter a daily archive; the
rate limit can be exceeded when messages arrive out of the order of their stamps;
while `subscriptions.json` is rewritten in place, pages of the API take empty rules and
show blocked rooms, and a crash leaves it empty; archive pages ignore the rules. The
code keeps all events but heartbeats, of which it keeps 100 (`README.md:759` says
100 of the others).

*Content.* The sort options of a page are never applied (`index.go:407`). With empty
rules, one decision makes the counts those of explicitly approved posts only, so
topic and source pages of the rest answer 404. Revoking the delegation of a
blocked parent lets its child's posts in; approval mode alone counts as empty
rules; any delegation on file counts for a reviewer, whoever made it
(`handler.go:1911`); a post already assigned counts twice for the suggestions of the posts
after it (`handler.go:2175`); posts over quota are dropped rather than left pending. Overlapping
moderation requests lose decisions when both read before either writes; a batch
on a stale index overrides a fresh decision; a delegation file half-written at a
crash fails every build of the index.

*Extensions.* A base plugin with an installed dependent can be neither updated nor
reinstalled after its removal until the dependent is removed. A copy killed half-way
makes every listing, install and start fail until `remove`. `link --dir ./x` makes
a dangling link, which is skipped silently. Installing from the installed
directory itself deletes it. An install of an id that an installed app bundles
stops that app. Two overlapping installs can make a cycle of dependencies.

## 6. What is proved

Every theorem holds for any value of the constants that meets the named
assumptions of its module (finite sets, bounds that are natural numbers,
functions of the right types, names that are not each other); none bounds the
number of nodes, keys, users, requests, readers, crashes or versions. TLC
evaluates the assumptions on every run. `PROJECT.json` lists the theorems with
the property each states.

Some devices recur. Where an argument wants induction over a number, the proof
takes the least counterexample (`LeastNumber`) and shows that it has a smaller one. Where it wants the
newest of a finite set, it uses that strict inclusion of finite sets is
well-founded (`GreatestNumber`, `NewestExists`). That a function defined by recursion is
what its definition says, which wants induction over an operator, follows from the
largest set of arguments, closed under what comes before, on which there is such a
function: it can be extended by one more unless it is all of them (`OneMoreRouted`,
`AllRouted`). Where a file keeps some of its lines in their order, the number of
kept places up to a place is a bijection onto `1..n` (`PlacesOfSet`); that gives what
`Retained` of the delivery file and `Picked` of the queue files hold, without
recursion. Lemmas about operators take the state as parameters, so that they
serve before and after a step.

- **`TeamSyncOutbox_proofs`**. The budget is not inductive alone: between the decision
  to retry and the bump, an ack or another writer may change the entry. `Inv` adds
  `RetryInFlight` (what the loop knows of the entry it is retrying) and
  `PublishedIsSent`. Steps that only age, settle or compact entries are `Quiet` and
  share one lemma. `AckInv` carries an ack from the peer that applied, through the
  topic, the ledger and the half-done clear, to the settled entry.
  `NothingSkippedHolds` follows a scan from the snapshot it took: what is older
  than the checkpoint of its key was seen or was there at the first scan. It
  assumes that times are distinct, that logs are primed with the first
  scan, and that the process does not restart or only this node writes its logs; the
  instances above show that none of these can go. The file may be ahead of what a proof
  says of the memory, or behind it: `FileSound` and `FileAcked` say of the file what `Inv` and
  `AckInv` say of the memory, as that is what a restart goes on with.
- **`TeamReplication_proofs`**. `OneCopyPerHandler` holds for any number of handlers:
  once a message is in the log, its copies and the handlers about to append another are
  together at most `MaxHandlers`, as no handler starts on what the log holds
  (`AppendsCounted`), and whatever is posted is held by its source (`PostedIsHeld`). With one
  handler that is a message once; a second copy takes a handler that outlived its timeout. The register needs that drafts and handlers in
  flight bring news only (`DraftsAreNews`, `HandlersBringNews`); `Adopt` and `Write`
  follow action by action. `LossIsRecorded`, `ConfigNeverRollsBack` and
  `HistoryAgrees` hold for any writers, overlapping edits and any number of handlers.
- **`TeamSyncStateFile_proofs`**. Calls overlap freely. A call that has met no other is the
  only one past its start (`AloneInv`), so its file is its own until its rename. The
  daemon's memory is never behind what was saved, so such a call of the daemon makes the
  file good again (`CursorInv`). A resolution that counts is in the file and in all that is
  about to be written to it; where the daemon's memory lacks it, nothing can tear the file
  before the daemon has merged it (`Held`, `Calm`). A resolver that runs alone stamps later
  than any record on disk, so its merge does not undo it (`StampInv`, `LoneResolver`).
- **`TaskIndexStore_proofs`**. `Names` says that entries of an index made for the data
  file that is there name whole records of their own task; `CallAgrees` says the
  same of the entries a call is about to write, `ReadersAgree` of the entry a load
  has read. `MapInv` adds, until a call is cut, that the index is torn only in the last
  step of a call (`Shape`) and that nothing is there before the first migration
  (`NoDataYet`). The refinement of `TaskMap` goes branch by branch of the mapping `Val`.
- **`BundleSync_proofs`**. *Store*: a directory holds a bundle of its own name, what is
  being published is of this node and what is being fetched is not; so a whole
  directory is touched by neither. *Supervisor*: the restarts recorded fit the
  window, an open circuit says how old the last is, and what a health check calls
  stalled is a snapshot of the worker's own last event. *Queue* (`NoRefLost`): while
  a file is rewritten only the other one is appended to by the daemon; what is still owed in
  the file is among the new lines, about to be added again, in the other file or
  at risk. The daemon's pending operations come only in the shapes its functions make (`OpsSound`,
  `Alone`), and each is followed to its end. `Picked` keeps the
  references of the lines it keeps, which is all the proof uses of the text. *Index*:
  what a build reads is read after the probe it will be known by, so an index with the
  probe of the files as they are is one of these files; a request that waits for a build
  waits for one that runs. That is the safety `PagesCatchUp` rests on.
- **`TeamWeb_proofs`**. *Files*: a list about to be saved differs from the stored one
  only where its request meant it to, or others changed it since; an archive in the
  making has read the messages before the history; the policy a message was
  checked against is held by the lock. *Desk*: a request that is about to add an
  artifact saw none among those it began with; a task's status is decided
  on under the lock, whatever was loaded before. *Webhooks*: the file holds the newest
  of the last records of all deliveries, each delivery writes rising stamps, and the
  holder of the lock rewrites what it read.
- **`LiveCredit_proofs`**. *Credits*: what the archiver removes is in an archive first,
  and what a load has not found is still in front of it, since it reads the live directory before
  the archives. *Room*: a kept event is in the file once; the index is right unless
  somebody is at work or was stopped half-way. This is the instance without Redis;
  with it the property fails (`live_redis`). *Daily archives*: a window ends at a multiple
  of its length and holds what is stamped in it, so no event is in two; what was promised
  is archived or has its window to come (`ToCome`), and when the loop has read that window
  it read what was promised. *Rules*: a page is made of the lines the rules let through;
  along the stamps of one sender the lines kept in a window are at most the limit, as
  the one that would exceed it saw the others.
- **`NodeFiles_proofs`**. *Moderation*: the base a request computes from is current but
  for what was moved since, the temporary file holds what its last writer decided, and
  what was decided its author was entitled to at that time; what a list
  blocks does not get into the index, and of the posts nobody decided those that do are
  the first of their day (`FirstOnes`), so at most its quota.
  *Pages*: a reader has seen, of what the list had all along, all that comes before the
  next page (`OnTheWay`), as what arrives or is answered pushes a post down and never up
  (`PlaceGrows`). *Extensions*: what the app of an undisturbed install started with
  is still there when it is done, unless the app is made of what was installed. *Sessions*: a session that is not over holds
  in its log all it said but the line being typed, whatever the topic brings; a key
  that a session knows or tells is a host's, or that of somebody who joined when nothing had
  told his store of the host (`KeysHeard`).
  *Cache*: of any set of trims that have counted, the last to
  count leaves no more than the limit and what the others added. That is the joint
  statement that survives another trim's removal; one trim's own count does not.

Only model-checked:

- liveness, and ENABLED, which the prover does not reason about: `OutboxProgresses`,
  `SelectedPostArrives`, `EventuallyAgree`, `CreditsSpread`, `DiscoveryRecovers`,
  `NothingIsPassedOver`, `PagesCatchUp`, and the first half of `SupervisorLetsWork` (the
  second, that a worker killed as stalled really is, is `ProgressIsSeenHolds`);
- the five type invariants named in section 4, on which no theorem rests.

## 7. What is not modelled

Identities, key derivation and signatures are cryptography and pure encodings; the
read models of teams (metrics, search, normalisation) are functions of loaded
records. `PROJECT.json` gives the rest by component. Within the modelled ones:
the scan's window of 500 objects; the daily quota of rules (`sync.go:654`, `1872`,
`manifest.go:266`); the overlap of a killed worker with the one that follows it; which fields
a snapshot of the supervisor leaves out; two overlapping installs of one extension, beyond
what is said of them in section 5; that a trim in Redis removes the oldest; equal versions with different content (conflicts
are modelled only as records of the state file); the members snapshot; peer acks
and their limit of 128; skewed clocks between teams; the timeout of the team lock, which
makes a call fail before it has changed anything; message shards; the
stream protocol of transfers and libp2p itself; relays and the DHT; the feed,
markdown archives, operations pages and layout; the text of records, of which only
identity and order count. Processes stop between system calls, not inside one.

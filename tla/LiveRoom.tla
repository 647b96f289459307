------------------------------ MODULE LiveRoom ------------------------------
(***************************************************************************)
(* One room of the live plugin on one machine (internal/aip2p/live).  The  *)
(* sessions of the room and the announcement watcher are processes of      *)
(* their own that share the directory of the room: events.jsonl, a line an *)
(* event, and room.json, the room and its index.  Each change is made      *)
(* under a file lock; pages and archive jobs read without it.  With Redis  *)
(* every read tries a cached list first and leaves one behind.             *)
(*                                                                         *)
(* A process stops between two system calls, and the lock goes with it.    *)
(***************************************************************************)
EXTENDS Naturals, Sequences, FiniteSets

CONSTANTS
    Events,          \* signed events of the room
    Heartbeats,      \* those that only show presence
    Writers,         \* sessions and watchers
    Pages,           \* reads without the lock
    KeepHeartbeats,  \* LiveRoomRetainHeartbeatEvents, 20
    MaxLiveCrashes   \* bound: processes that stop

Nobody == "nobody"
ASSUME LiveConstants ==
    /\ Nobody \notin Writers /\ Heartbeats \subseteq Events /\ KeepHeartbeats \in Nat \ {0}
    /\ MaxLiveCrashes \in Nat

VARIABLES
    redis,     \* TRUE when the network file configures Redis
    events,    \* events.jsonl
    record,    \* room.json: the information on the room, and EventCount
    cached,    \* the list under the events key of Redis, <<>> when there is none
    lock,      \* the writer that holds the lock of the room
    writer,    \* what each writer does and with which event
    taken,     \* events a writer was handed since it started
    page,      \* the list a read took from the file and is about to leave in Redis
    appended,  \* history: the events ever written
    uncounted, \* history: a writer stopped before it refreshed the index
    liveCrashes

livevars == <<redis, events, record, cached, lock, writer, taken, page, appended, uncounted, liveCrashes>>

NoRoom == [info |-> "none", count |-> 0]
Waiting == [pc |-> "idle", event |-> "none"]

LiveInit ==
    /\ redis \in BOOLEAN /\ events = <<>> /\ record = NoRoom /\ cached = <<>> /\ lock = Nobody
    /\ writer = [w \in Writers |-> Waiting] /\ taken = [w \in Writers |-> {}]
    /\ page = [p \in Pages |-> <<>>]
    /\ appended = {} /\ uncounted = FALSE /\ liveCrashes = 0

CountOf(s) == Cardinality({k \in DOMAIN s : s[k] \notin Heartbeats})
-----------------------------------------------------------------------------
(* ReadEvents by the holder of the lock: the file does not change under it. *)
ListRead == IF redis /\ cached # <<>> THEN cached ELSE events
LeftBehind == cached' = IF redis THEN ListRead ELSE <<>>

(* retainRecentLiveEvents: every event that is not a heartbeat, and the last heartbeats. *)
LaterBeats(s, k) == Cardinality({j \in DOMAIN s : j > k /\ s[j] \in Heartbeats})
Retained(s) ==
    LET kept == {k \in DOMAIN s : s[k] \in Heartbeats => LaterBeats(s, k) < KeepHeartbeats}
        place(k) == Cardinality({j \in kept : j <= k})
    IN [n \in 1..Cardinality(kept) |-> s[CHOOSE k \in kept : place(k) = n]]
-----------------------------------------------------------------------------
Proceed(w, pc) == writer' = [writer EXCEPT ![w].pc = pc]
Rest(w) == writer' = [writer EXCEPT ![w] = Waiting]

(* An event arrives on the topic, or the session has published one of its own. *)
Receive(w, e) ==
    /\ writer[w] = Waiting /\ e \notin taken[w]
    /\ taken' = [taken EXCEPT ![w] = @ \cup {e}]
    /\ writer' = [writer EXCEPT ![w] = [pc |-> IF record = NoRoom THEN "room" ELSE "append", event |-> e]]
    /\ UNCHANGED <<redis, events, record, cached, lock, page, appended, uncounted, liveCrashes>>

(* SaveRoom keeps what is known, SaveRoomAuthoritative what was announced last; both
   keep the index.  A writer saves a room it does not know before its first event. *)
SaveRoom(w) ==
    /\ writer[w].pc = "room" /\ lock = Nobody /\ Proceed(w, "append")
    /\ record' = IF record = NoRoom THEN [record EXCEPT !.info = "placeholder"] ELSE record
    /\ UNCHANGED <<redis, events, cached, lock, taken, page, appended, uncounted, liveCrashes>>
SaveRoomAuthoritative ==
    /\ lock = Nobody /\ record' = [record EXCEPT !.info = "announced"] /\ record' # record
    /\ UNCHANGED <<redis, events, cached, lock, writer, taken, page, appended, uncounted, liveCrashes>>
(* Mutant: the room is not locked. *)
FreeAlways(w) == TRUE

(* withRoomLock. *)
Free(w) == lock = Nobody

(* AppendEvent, under the lock: an event that is in the file already (in the last 256 KB
   of it, which here is all) is dropped. *)
AppendEvent(w) ==
    LET e == writer[w].event IN
    /\ writer[w].pc = "append" /\ Free(w)
    /\ IF \E k \in DOMAIN events : events[k] = e
       THEN Rest(w) /\ UNCHANGED <<redis, events, lock, appended>>
       ELSE /\ events' = Append(events, e) /\ appended' = appended \cup {e}
            /\ lock' = w /\ Proceed(w, "prune")
    /\ UNCHANGED <<redis, record, cached, taken, page, uncounted, liveCrashes>>

(* pruneRoomEvents writes what it read, without the old heartbeats, over the file.  What
   it drops is heartbeats only, which no history archive is written for. *)
PruneRoomEvents(w) ==
    /\ writer[w].pc = "prune" /\ Proceed(w, "refresh") /\ LeftBehind
    /\ events' = IF Len(Retained(ListRead)) = Len(ListRead) THEN events ELSE Retained(ListRead)
    /\ UNCHANGED <<redis, record, lock, taken, page, appended, uncounted, liveCrashes>>

RefreshRoomIndex(w) ==
    /\ writer[w].pc = "refresh" /\ Proceed(w, "drop") /\ LeftBehind
    /\ record' = [record EXCEPT !.count = CountOf(ListRead)]
    /\ uncounted' = FALSE
    /\ UNCHANGED <<redis, events, lock, taken, page, appended, liveCrashes>>

DropCached(w) ==
    /\ writer[w].pc = "drop" /\ Rest(w)
    /\ cached' = <<>> /\ lock' = Nobody
    /\ UNCHANGED <<redis, events, record, taken, page, appended, uncounted, liveCrashes>>
-----------------------------------------------------------------------------
(* ReadEvents of a page without the lock: nothing is cached, the file is read ... *)
ReadEvents(p) ==
    /\ redis /\ cached = <<>> /\ page[p] = <<>> /\ events # <<>>
    /\ page' = [page EXCEPT ![p] = events]
    /\ UNCHANGED <<redis, events, record, cached, lock, writer, taken, appended, uncounted, liveCrashes>>
(* ... and what was read is left in Redis. *)
LeaveInRedis(p) ==
    /\ page[p] # <<>> /\ cached' = page[p] /\ page' = [page EXCEPT ![p] = <<>>]
    /\ UNCHANGED <<redis, events, record, lock, writer, taken, appended, uncounted, liveCrashes>>
Expire ==
    /\ cached # <<>> /\ cached' = <<>>
    /\ UNCHANGED <<redis, events, record, lock, writer, taken, page, appended, uncounted, liveCrashes>>

(* A process stops, and a new one may be handed the same events again. *)
StopWriter(w) ==
    /\ liveCrashes < MaxLiveCrashes /\ liveCrashes' = liveCrashes + 1
    /\ writer[w] # Waiting /\ Rest(w) /\ taken' = [taken EXCEPT ![w] = {}]
    /\ lock' = IF lock = w THEN Nobody ELSE lock
    /\ uncounted' = (uncounted \/ writer[w].pc \in {"prune", "refresh"})
    /\ UNCHANGED <<redis, events, record, cached, page, appended>>

LiveNext ==
    \/ SaveRoomAuthoritative \/ Expire
    \/ \E w \in Writers :
          \/ SaveRoom(w) \/ AppendEvent(w) \/ PruneRoomEvents(w) \/ RefreshRoomIndex(w)
          \/ DropCached(w) \/ StopWriter(w) \/ \E e \in Events : Receive(w, e)
    \/ \E p \in Pages : ReadEvents(p) \/ LeaveInRedis(p)
LiveSpec == LiveInit /\ [][LiveNext]_livevars
-----------------------------------------------------------------------------
LiveTypeOK ==
    /\ \A k \in DOMAIN events : events[k] \in Events
    /\ record.info \in {"none", "placeholder", "announced"} /\ record.count \in Nat
    /\ lock \in Writers \cup {Nobody}
    /\ \A w \in Writers : lock = w <=> writer[w].pc \in {"prune", "refresh", "drop"}
    /\ ~redis => cached = <<>>

Kept == \A e \in appended \ Heartbeats : Cardinality({k \in DOMAIN events : events[k] = e}) = 1

(* Without Redis, every message, join, leave or task update that was ever written is
   still in the file, once: sessions and watchers that append and prune the same room
   never overwrite each other's events (live/store.go:220, 464); and when nobody holds
   the lock, EventCount is the number of those events, whatever rooms were saved in
   between: what a process that stopped half way left is made good by the next append
   (live/store.go:132, 430). *)
CountsKept == lock = Nobody /\ ~uncounted => record.count = CountOf(events)
NoEventLost == ~redis => Kept /\ CountsKept

(* "Redis is only a hot cache, not the source of truth": the file keeps every event with
   Redis too. *)
RedisIsOnlyACache == Kept
=============================================================================

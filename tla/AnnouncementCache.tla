------------------------- MODULE AnnouncementCache -------------------------
(* The announcements a daemon keeps in Redis (internal/aip2p/announcement_cache.go): a
   document for each, a sorted set that lists them all by time, one for each channel and
   one for each topic.  The handlers of the topics and the loop of the daemon store
   announcements at the same time; each then trims what is over the limit, in commands of
   its own: count, list the oldest, read them, remove them.  Every key expires when nothing
   is stored under it for a while. *)
EXTENDS Naturals, FiniteSets

CONSTANTS
    Cached,      \* the announcements: numbers, in the order of their scores
    ChannelOf,   \* the channel of each
    TopicsOf,    \* the topics of each
    Cachers,     \* the goroutines that store announcements
    MaxCached,   \* redis.max_announcements
    TTL,         \* the hot window
    MaxCuts      \* bound: trims that end early

ASSUME CacheConstants ==
    /\ Cached \subseteq Nat /\ MaxCached \in Nat \ {0} /\ TTL \in Nat \ {0} /\ MaxCuts \in Nat

VARIABLES
    lives,   \* key -> how long it still lives; 0 is a key that does not exist
    lists,   \* key of a sorted set -> its members
    cacher,  \* goroutine -> what it is about to do in its trim
    cuts     \* bounded counter: trims that ended early

cvars == <<lives, lists, cacher, cuts>>

Document(n) == <<"ann", n>>
IndexList == <<"index">>
ListKeys == {IndexList} \cup {<<"channel", ChannelOf[n]>> : n \in Cached}
            \cup {<<"topic", t>> : t \in UNION {TopicsOf[n] : n \in Cached}}
ListsOf(n) == {IndexList, <<"channel", ChannelOf[n]>>} \cup {<<"topic", t>> : t \in TopicsOf[n]}
NoTrim == [step |-> "none", excess |-> 0, oldest |-> {}, read |-> {}]

CacheInit ==
    /\ lives = [k \in ListKeys \cup {Document(n) : n \in Cached} |-> 0]
    /\ lists = [k \in ListKeys |-> {}]
    /\ cacher = [g \in Cachers |-> NoTrim] /\ cuts = 0

(* cacheSyncAnnouncement: one transaction. *)
CacheAnnouncement(g, n) ==
    /\ cacher[g].step = "none"
    /\ lives' = [k \in DOMAIN lives |-> IF k \in ListsOf(n) \cup {Document(n)} THEN TTL ELSE lives[k]]
    /\ lists' = [k \in ListKeys |-> IF k \in ListsOf(n) THEN lists[k] \cup {n} ELSE lists[k]]
    /\ cacher' = [cacher EXCEPT ![g].step = "count"]
    /\ UNCHANGED cuts

(* trimCachedSyncAnnouncements, command by command. *)
CountCached(g) ==
    /\ cacher[g].step = "count"
    /\ LET over == Cardinality(lists[IndexList]) > MaxCached
       IN cacher' = [cacher EXCEPT ![g] = IF over THEN [NoTrim EXCEPT !.step = "range",
                                                          !.excess = Cardinality(lists[IndexList]) - MaxCached]
                                          ELSE NoTrim]
    /\ UNCHANGED <<lives, lists, cuts>>
OldestOf(k, n) == {m \in lists[k] : Cardinality({l \in lists[k] : l < m}) < n}
ListOldest(g) ==
    /\ cacher[g].step = "range"
    /\ LET oldest == OldestOf(IndexList, cacher[g].excess)
       IN cacher' = [cacher EXCEPT ![g] = IF oldest = {} THEN NoTrim
                                          ELSE [@ EXCEPT !.step = "read", !.oldest = oldest]]
    /\ UNCHANGED <<lives, lists, cuts>>
(* removeCachedAnnouncementsByInfoHashes: what was read of a document says which lists
   it is in; one that is gone by then is only taken from the index. *)
ReadOldest(g) ==
    /\ cacher[g].step = "read"
    /\ cacher' = [cacher EXCEPT ![g].step = "remove",
                                ![g].read = {n \in cacher[g].oldest : lives[Document(n)] > 0}]
    /\ UNCHANGED <<lives, lists, cuts>>
(* Mutant: the document stays until it expires. *)
TrimmedFromLists(g) ==
    [docs |-> {}, lists |-> [k \in ListKeys |-> lists[k] \ {n \in cacher[g].oldest : k = IndexList \/ n \in cacher[g].read}]]
Trimmed(g) ==
    [docs |-> cacher[g].oldest,
     lists |-> [k \in ListKeys |-> lists[k] \ {n \in cacher[g].oldest : k = IndexList \/ n \in cacher[g].read}]]
RemoveOldest(g) ==
    /\ cacher[g].step = "remove"
    /\ LET left == Trimmed(g) IN
       /\ lists' = left.lists
       /\ lives' = [k \in DOMAIN lives |->
                      IF k \in {Document(n) : n \in left.docs} \/ (k \in ListKeys /\ left.lists[k] = {})
                      THEN 0 ELSE lives[k]]
    /\ cacher' = [cacher EXCEPT ![g] = NoTrim]
    /\ UNCHANGED cuts

(* A command of a trim fails, or the process stops. *)
TrimCut(g) ==
    /\ cacher[g].step # "none" /\ cuts < MaxCuts
    /\ cacher' = [cacher EXCEPT ![g] = NoTrim] /\ cuts' = cuts + 1
    /\ UNCHANGED <<lives, lists>>

(* Time passes in Redis. *)
KeysAge ==
    /\ \E k \in DOMAIN lives : lives[k] > 0
    /\ lives' = [k \in DOMAIN lives |-> IF lives[k] > 0 THEN lives[k] - 1 ELSE 0]
    /\ lists' = [k \in ListKeys |-> IF lives[k] > 1 THEN lists[k] ELSE {}]
    /\ UNCHANGED <<cacher, cuts>>

CacheNext ==
    \/ \E g \in Cachers :
          \/ \E n \in Cached : CacheAnnouncement(g, n)
          \/ CountCached(g) \/ ListOldest(g) \/ ReadOldest(g) \/ RemoveOldest(g) \/ TrimCut(g)
    \/ KeysAge
CacheSpec == CacheInit /\ [][CacheNext]_cvars

(* Every document is in the index and in the lists of its channel and its topics, whatever
   trims and expires beside it; and there are never more than the limit, but for the
   trims that are not done and those that were cut short. *)
CacheHoldsTogether ==
    /\ \A n \in Cached : lives[Document(n)] > 0 => \A k \in ListsOf(n) : n \in lists[k]
    /\ Cardinality(lists[IndexList]) <=
          MaxCached + cuts + Cardinality({g \in Cachers : cacher[g].step # "none"})
=============================================================================

--------------------------- MODULE Announcements ---------------------------
(* How a bundle of one node reaches another: the announcements a node publishes on the
   topics of pubsub, the topics another node joins by its subscription rules, and the
   history manifests, which list what a node holds and are announced again on every tick
   (internal/aip2p/pubsub.go, manifest.go, sync.go; subscriptions.go for the rules).
   A message that is lost is not sent again, except in a manifest.

   The queue files of the receiver are the concern of SyncQueue; here they are the set
   of the references in them.  The rules set no daily quota (max_items_per_day), which
   is checked where a reference is queued and again after a direct transfer. *)
EXTENDS ContentRules

CONSTANTS
    Posts,        \* the messages that may be published: numbers, in the order of their times
    About,        \* what each is: Posts -> messages
    RuleSets,     \* the subscription rules the receiver may be started with
    Project,      \* the project of the posts
    PageSize,     \* historyManifestPageSize
    MaxSubs,      \* maxPubSubSubscriptions
    MaxAir,       \* bound: messages on their way; one more is dropped
    MaxLinkCuts   \* bound: failures of the network and of the two nodes

ASSUME AnnouncementConstants ==
    /\ Posts \subseteq Nat /\ DOMAIN About = Posts /\ PageSize \in Nat \ {0} /\ MaxSubs \in Nat \ {0}
    /\ MaxAir \in Nat \ {0} /\ MaxLinkCuts \in Nat
ASSUME NoDailyQuota == \A r \in RuleSets : r.maxPerDay = 0

VARIABLES
    rules,      \* the receiver's rules
    joined,     \* the topics it is subscribed to; none before it is up
    link,       \* whether messages and transfers get through
    linkCuts,   \* bounded counter
    held,       \* the posts the sender holds
    pages,      \* its manifests: page -> the announcement of that page
    told,       \* the posts it has announced since it started
    pass,       \* what it has still to announce in this tick
    left,       \* the topics the first of these has still to be published on
    air,        \* messages on their way: <<topic, announcement>>
    refs,       \* the announcements whose references the receiver has queued
    got         \* the announcements whose bundles it holds

avars == <<rules, joined, link, linkCuts, held, pages, told, pass, left, air, refs, got>>

---------------------------------------------------------------------------
(* The rules of the daemon: those of the pages, and what it joins. *)
SyncRules(r) == [Normalized(r) EXCEPT !.discoveryTopics = CanonicalTopics(@, r)]
DiscoveryFeeds(r) == IF r.discoveryFeeds # {} THEN r.discoveryFeeds ELSE {"global", "news"}

(* subscribedAnnouncementTopics: what the rules select - all that is announced when
   they are empty - and the feeds and topics to discover. *)
JoinedTopics(rr) ==
    LET r == SyncRules(rr)
        Topic(t) == IF t = All THEN <<"global">> ELSE <<"topic", t>>
        selected == IF RulesEmpty(r) THEN {<<"global">>}
                    ELSE {<<"channel", c>> : c \in r.channels}
                         \cup {Topic(t) : t \in r.topics}
                         \cup {<<"tag", g>> : g \in r.tags}
        feeds == {IF f = "global" THEN <<"global">> ELSE <<"channel", "aip2p/" \o f>>
                    : f \in DiscoveryFeeds(r)}
    IN selected \cup feeds \cup {Topic(t) : t \in r.discoveryTopics}

---------------------------------------------------------------------------
(* The history manifests. *)

PageCount(posts) == (Cardinality(posts) + PageSize - 1) \div PageSize
NewestFirst(posts) == Reverse(SetToSortSeq(posts, <))
EntriesOf(posts, page) ==
    LET s == NewestFirst(posts)
        end == page * PageSize
    IN ToSet(SubSeq(s, end - PageSize + 1, IF end > Len(s) THEN Len(s) ELSE end))

(* What is announced: a post, or a manifest; "there" is whether its sender still has it. *)
Post(n) == [kind |-> "post", id |-> n, lists |-> {}, there |-> TRUE]
Manifest(posts, page) ==
    [kind |-> "manifest", id |-> page, lists |-> EntriesOf(posts, page), there |-> TRUE]
IsManifest(m) == m.kind = "manifest"
Replaced(m) == IF IsManifest(m) THEN [m EXCEPT !.there = FALSE] ELSE m

(* The message of an announcement: a manifest has a channel of its own and the topics of
   all that it lists. *)
MessageOf(m) ==
    IF ~IsManifest(m) THEN About[m.id]
    ELSE [channel |-> Project \o "/history", tags |-> {"history-manifest"},
          topics |-> {All} \cup UNION {About[n].topics : n \in m.lists},
          author |-> "agent://aip2p-sync/history-manifest", writer |-> NoWriter,
          said |-> NoKey, parent |-> NoKey, age |-> 0, size |-> 1]

(* announcementTopics, in the order they are published on. *)
AnnouncementTopics(m) ==
    LET x == MessageOf(m)
    IN <<<<"global">>, <<"topic", All>>, <<"channel", x.channel>>>>
       \o SetToSeq({<<"topic", t>> : t \in x.topics \ {All}} \cup {<<"tag", g>> : g \in x.tags})

(* ensureHistoryManifests: a manifest names the second it was made in, so that on a later
   tick each is a new bundle and the one before is deleted, even when it lists the same. *)
NewPages(posts) == [p \in 1..PageCount(posts) |-> Manifest(posts, p)]

(* What rules select of all that may be announced, and of all that may be listed. *)
Announceable ==
    {Post(n) : n \in Posts}
    \cup UNION {{Manifest(s, p), Replaced(Manifest(s, p))} :
                   <<s, p>> \in (SUBSET Posts \ {{}}) \X (1..PageCount(Posts))}
Loaded(r) ==
    [joins |-> JoinedTopics(r),
     selects |-> {m \in Announceable : MatchesAnnouncement(MessageOf(m), r)},
     selectsListed |-> {n \in Posts : MatchesHistoryAnnouncement(About[n], r)}]

AInit ==
    /\ rules \in {Loaded(r) : r \in RuleSets} /\ joined = {}
    /\ link = TRUE /\ linkCuts = 0
    /\ held = {} /\ pages = <<>> /\ told = {} /\ pass = <<>> /\ left = <<>>
    /\ air = {} /\ refs = {} /\ got = {}

(* startPubSubRuntime: every topic, and that of the credit proofs, or none at all. *)
ReceiverStarts ==
    /\ joined = {} /\ Cardinality(rules.joins) + 1 <= MaxSubs
    /\ joined' = rules.joins
    /\ UNCHANGED <<rules, link, linkCuts, held, pages, told, pass, left, air, refs, got>>

(* The receiver stops: what was on its way is lost, its queue files and bundles stay. *)
ReceiverStops ==
    /\ joined # {} /\ linkCuts < MaxLinkCuts
    /\ joined' = {} /\ air' = {} /\ linkCuts' = linkCuts + 1
    /\ UNCHANGED <<rules, link, held, pages, told, pass, left, refs, got>>

CutLink ==
    /\ link /\ linkCuts < MaxLinkCuts
    /\ link' = FALSE /\ linkCuts' = linkCuts + 1
    /\ UNCHANGED <<rules, joined, held, pages, told, pass, left, air, refs, got>>
RestoreLink ==
    /\ ~link /\ link' = TRUE
    /\ UNCHANGED <<rules, joined, linkCuts, held, pages, told, pass, left, air, refs, got>>

(* The sender stores a new bundle: one it wrote or one it fetched. *)
Hold(n) ==
    /\ n \notin held /\ held' = held \cup {n}
    /\ UNCHANGED <<rules, joined, link, linkCuts, pages, told, pass, left, air, refs, got>>

(* localAnnouncements: the oldest first. *)
Unannounced(posts) ==
    LET s == SetToSortSeq(posts \ told, <) IN [i \in DOMAIN s |-> Post(s[i])]
(* Mutant: a manifest is announced once, like any bundle. *)
AnnouncesOnce(posts, new) ==
    Unannounced(posts) \o SelectSeq(new, LAMBDA m : m \notin ToSet(pages))
(* What a tick announces: the posts that are not announced yet, and every manifest, which
   are the newest in the store. *)
ToAnnounce(posts, new) == Unannounced(posts) \o new

(* announceLocalBundles begins. *)
AnnounceTick ==
    /\ pass = <<>> /\ held # {}
    /\ LET new == NewPages(held) IN
       /\ pages' = new
       /\ pass' = ToAnnounce(held, new)
       /\ left' = IF ToAnnounce(held, new) = <<>> THEN <<>>
                  ELSE AnnouncementTopics(ToAnnounce(held, new)[1])
    /\ refs' = {Replaced(m) : m \in refs}
    /\ air' = {<<x[1], Replaced(x[2])>> : x \in air}
    /\ UNCHANGED <<rules, joined, link, linkCuts, held, told, got>>

(* PublishAnnouncement on one topic: it goes to those that are there to hear it. *)
PublishOne ==
    /\ left # <<>>
    /\ air' = IF link /\ Head(left) \in joined /\ Cardinality(air) < MaxAir THEN air \cup {<<Head(left), Head(pass)>>} ELSE air
    /\ left' = Tail(left)
    /\ UNCHANGED <<rules, joined, link, linkCuts, held, pages, told, pass, refs, got>>
PublishedAll ==
    /\ left = <<>> /\ pass # <<>>
    /\ told' = IF IsManifest(Head(pass)) THEN told ELSE told \cup {Head(pass).id}
    /\ pass' = Tail(pass)
    /\ left' = IF Len(pass) = 1 THEN <<>> ELSE AnnouncementTopics(pass[2])
    /\ UNCHANGED <<rules, joined, link, linkCuts, held, pages, air, refs, got>>
(* A publish that fails ends the pass; what it did not finish comes again. *)
PublishFails ==
    /\ left # <<>> /\ linkCuts < MaxLinkCuts
    /\ linkCuts' = linkCuts + 1 /\ pass' = <<>> /\ left' = <<>>
    /\ UNCHANGED <<rules, joined, link, held, pages, told, air, refs, got>>
(* The sender stops and starts: it announces everything again. *)
SenderRestarts ==
    /\ linkCuts < MaxLinkCuts
    /\ linkCuts' = linkCuts + 1 /\ pass' = <<>> /\ left' = <<>> /\ told' = {}
    /\ UNCHANGED <<rules, joined, link, held, pages, air, refs, got>>

---------------------------------------------------------------------------
(* handleAnnouncement, from the loop of the subscription; a message may also be dropped, by
   the network or by a subscription that lags. *)
Receive(x) ==
    /\ air' = air \ {x}
    /\ refs' = IF x[2] \in rules.selects \ got THEN refs \cup {x[2]} ELSE refs
    /\ UNCHANGED <<rules, joined, link, linkCuts, held, pages, told, pass, left, got>>
Drop(x) ==
    /\ air' = air \ {x}
    /\ UNCHANGED <<rules, joined, link, linkCuts, held, pages, told, pass, left, refs, got>>

(* processQueue: the bundle comes when the sender has it; a manifest that was replaced is
   gone, and its reference goes with the 404. *)
FetchBundle(m) ==
    /\ joined # {} /\ link /\ m \in refs /\ (IsManifest(m) => m.there)
    /\ got' = IF IsManifest(m)   \* the newest of a page stands for those before it
              THEN {n \in got : ~(IsManifest(n) /\ n.id = m.id)} \cup {m} ELSE got \cup {m}
    /\ refs' = refs \ {m}
    /\ UNCHANGED <<rules, joined, link, linkCuts, held, pages, told, pass, left, air>>
FetchGone(m) ==
    /\ joined # {} /\ link /\ m \in refs /\ IsManifest(m) /\ ~m.there
    /\ refs' = refs \ {m}
    /\ UNCHANGED <<rules, joined, link, linkCuts, held, pages, told, pass, left, air, got>>

(* enqueueHistoryManifestRefs: what the manifests it holds list and it does not have, one
   line after the other; a pass of the first sync ends after history_max_items of them
   and leaves the rest to the next. *)
ListedFor(m) == {Post(n) : n \in m.lists \cap rules.selectsListed} \ got
FromManifest(m) ==
    /\ joined # {} /\ m \in got /\ IsManifest(m)
    /\ \E post \in ListedFor(m) \ refs : refs' = refs \cup {post}
    /\ UNCHANGED <<rules, joined, link, linkCuts, held, pages, told, pass, left, air, got>>

SenderStep == AnnounceTick \/ PublishOne \/ PublishedAll
ReceiveManifest(p) == \E x \in air : IsManifest(x[2]) /\ x[2].there /\ x[2].id = p /\ Receive(x)
FetchManifest(p) == \E m \in refs : IsManifest(m) /\ m.id = p /\ FetchBundle(m)
Arrivals == \E x \in air : Receive(x) \/ Drop(x)
QueueListed == \E m \in got : FromManifest(m)
ANext ==
    \/ ReceiverStarts \/ ReceiverStops \/ CutLink \/ RestoreLink \/ SenderStep \/ PublishFails \/ SenderRestarts
    \/ \E n \in Posts : Hold(n)
    \/ Arrivals
    \/ \E m \in refs : FetchBundle(m) \/ FetchGone(m)
    \/ QueueListed

ASpec == AInit /\ [][ANext]_avars
AFair ==
    /\ WF_avars(ReceiverStarts) /\ WF_avars(RestoreLink) /\ WF_avars(SenderStep) /\ WF_avars(Arrivals) /\ WF_avars(QueueListed)
    /\ \A p \in 1..PageCount(Posts) : SF_avars(ReceiveManifest(p)) /\ SF_avars(FetchManifest(p))
    /\ \A n \in Posts : WF_avars(FetchBundle(Post(n)))

ATypeOK ==
    /\ DOMAIN rules = {"joins", "selects", "selectsListed"} /\ link \in BOOLEAN /\ linkCuts \in 0..MaxLinkCuts
    /\ joined \in {{}, rules.joins}
    /\ held \subseteq Posts /\ told \subseteq held
    /\ {x[1] : x \in air} \subseteq joined

(* A bundle the receiver's rules select is fetched in the end, however many announcements
   of it were lost: a manifest that lists it comes with every tick.  It needs rules whose
   topics select manifests, and a topic name that sender and receiver write alike; what is
   selected by its channel, tag or author alone depends on the one announcement. *)
ReachedByManifests ==
    {n \in rules.selectsListed :
        LET topics == {<<"global">>} \cup {<<"topic", t>> : t \in About[n].topics}
        IN Manifest({n}, 1) \in rules.selects /\ topics \cap rules.joins # {}}
SelectedPostArrives ==
    \A n \in Posts : (n \in held /\ n \in ReachedByManifests) ~> (Post(n) \in got)
=============================================================================

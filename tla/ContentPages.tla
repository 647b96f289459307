----------------------------- MODULE ContentPages -----------------------------
(* The pages over the index (internal/plugins/aip2p index.go and runtime_content.go,
   internal/plugins/aip2pcontent/handler.go): which posts a page lists, in which order,
   cut into pages of a size; the counts of its facets; and the reviewer suggested for a
   post that waits.  A reader walks from the first page to the last while posts arrive, are
   answered and are decided.

   A post is a record [id, made, group, topics, source, show, waiting, assigned,
   suggested, replies, votes]; show "" is what an index without rules has; a post with a
   source has its page.  Reviewers are numbers in the order of their labels, 0 for none.
   The pages of posts that wait are those of a node that approves posts; with another rule
   they are not found. *)
EXTENDS Integers, Sequences, FiniteSets, SequencesExt

CONSTANTS
    Indexes,    \* what an index may start with: records [posts, coming], those that may arrive
    Walks,      \* what readers ask: records [path, pending, group, topic, source, reviewer, tab, hours, size]
    Ranked,     \* the reviewers that may approve a post, the closest to it first
    Routes,     \* the configured reviewer of a topic, if any
    HotHours, HotThreshold,
    MaxPageChanges, MaxAnswers  \* bounds

(* Topics have a name; the rules apply to all posts or to none; the page of a topic or a
   source says of which. *)
IsWebPost(p) == /\ DOMAIN p = {"id", "made", "group", "topics", "source", "show", "waiting", "assigned",
                               "suggested", "replies", "votes"}
                /\ p.id \in Nat /\ p.made \in Nat /\ "" \notin p.topics
OfOneIndex(posts) == /\ \A p \in posts : IsWebPost(p)
                     /\ \A p, q \in posts : p.id = q.id => p = q
Ruled(posts) == (\A p \in posts : p.show = "") \/ (\A p \in posts : p.show # "")
ASSUME PagesConstants ==
    /\ \A i \in Indexes : /\ IsFiniteSet(i.posts) /\ IsFiniteSet(i.coming) /\ i.posts \cap i.coming = {}
                           /\ OfOneIndex(i.posts \cup i.coming) /\ Ruled(i.posts \cup i.coming)
    /\ \A o \in Walks :
          /\ o = [path |-> o.path, pending |-> o.pending, group |-> o.group, topic |-> o.topic, source |-> o.source,
                  reviewer |-> o.reviewer, tab |-> o.tab, hours |-> o.hours, size |-> o.size]
          /\ o.size \in Nat \ {0} /\ o.pending = (o.path = "/pending-approval")
          /\ \/ o.path \in {"/", "/api/feed", "/pending-approval"}
             \/ o.path \in {"/topics", "/api/topics"} /\ o.topic # ""
             \/ o.path \in {"/sources", "/api/sources"} /\ o.source # ""

VARIABLES
    listing,   \* the posts of the index
    coming,    \* the posts that have not arrived
    decided,   \* whether the file of decisions has any
    walk,      \* what the reader asked, the page it read last, and whether that links to a next
    pageSeen,  \* what it has read
    stayed,    \* history: the posts its list had all along, nothing if the list lost a post
    pageChanges

pagevars == <<listing, coming, decided, walk, pageSeen, stayed, pageChanges>>

PageNow == 100  \* the time in hours; posts are made before

---------------------------------------------------------------------------
(* The order of a list.  The tab decides it: what the reader asks to sort by is not looked
   at. *)

HotScore(p) == 2 * p.votes + p.replies  \* in halves
EffectiveSort(o) == IF o.tab = "hot" THEN "hot" ELSE "new"
SortKey(p, mode) == CASE mode = "hot" -> HotScore(p)
                      [] mode = "discussed" -> p.replies
                      [] mode = "score" -> p.votes
                      [] OTHER -> 0
Precedes(p, q, mode) ==
    \/ SortKey(p, mode) > SortKey(q, mode)
    \/ SortKey(p, mode) = SortKey(q, mode) /\ p.made > q.made
    \/ SortKey(p, mode) = SortKey(q, mode) /\ p.made = q.made /\ p.id < q.id
(* The place of a post in its list: two posts never share one. *)
Place(p, posts, mode) == 1 + Cardinality({q \in posts : Precedes(q, p, mode)})

---------------------------------------------------------------------------
(* The reviewer suggested for a post that waits: a configured one, else the first of the
   ranked ones, or, when some have posts, one with the fewest.  It counts as assigned for
   the posts after it; who was assigned before counts once more when its post has had its
   turn. *)

Configured(p) == {Routes[t] : t \in p.topics \cap DOMAIN Routes} \cap ToSet(Ranked)
Fewest(counts) == CHOOSE r \in ToSet(Ranked) :
                    \A s \in ToSet(Ranked) : counts[r] < counts[s] \/ (counts[r] = counts[s] /\ r <= s)
Preferred(counts) == IF \A r \in DOMAIN counts : counts[r] = 0 THEN Ranked[1] ELSE Fewest(counts)
Suggested(p, counts) == IF Configured(p) # {} THEN CHOOSE r \in Configured(p) : TRUE ELSE Preferred(counts)

AssignedCounts(posts) ==
    [r \in ToSet(Ranked) |-> Cardinality({p \in posts : p.waiting /\ p.assigned = r})]

(* The posts as the pages of pending ones see them, when routing is automatic, the newest
   first: nothing of it is saved. *)
Decorated(posts) ==
    LET routed[p \in posts] ==
            LET done == AssignedCounts({routed[q] : q \in {o \in posts : Precedes(o, p, "new")}})
                counts == [r \in ToSet(Ranked) |-> AssignedCounts(posts)[r] + done[r]]
            IN IF ~p.waiting THEN p
               ELSE [p EXCEPT !.suggested = Suggested(p, counts),
                              !.assigned = IF @ = 0 THEN Suggested(p, counts) ELSE @]
    IN {routed[p] : p \in posts}

---------------------------------------------------------------------------
(* The list of a page, and its pages. *)

AnyOr(asked, is) == asked = "" \/ asked = is
Listed(p, o) ==
    /\ IF o.pending THEN p.waiting /\ p.show = "pending" ELSE ~p.waiting /\ p.show \in {"", "visible"}
    /\ AnyOr(o.group, p.group) /\ AnyOr(o.source, p.source)
    /\ o.topic = "" \/ o.topic \in p.topics
    /\ o.reviewer \in {0, p.assigned, p.suggested}
    /\ o.hours = 0 \/ p.made + o.hours > PageNow
    /\ o.tab = "hot" => p.made + HotHours >= PageNow /\ HotScore(p) >= 2 * HotThreshold

ListOf(posts, o) == {p \in IF o.pending THEN Decorated(posts) ELSE posts : Listed(p, o)}
(* Mutant: the last page is dropped when it is not full. *)
FullPages(n, size) == IF n < size THEN 1 ELSE n \div size
(* A page beyond the last one is the last one. *)
TotalPages(n, size) == IF n = 0 THEN 1 ELSE (n + size - 1) \div size
PaginatePosts(list, mode, page, size) ==
    LET last == TotalPages(Cardinality(list), size)
        at == IF page < last THEN page ELSE last
    IN [found |-> TRUE, page |-> at, next |-> at < last,
        items |-> {p \in list : Place(p, list, mode) \in ((at - 1) * size + 1)..(at * size)}]

---------------------------------------------------------------------------
(* The counts of the index by topic: of all posts that do not wait, or, once there is a
   decision, of those that say they are visible. *)

CountByTopic(posts) ==
    [t \in UNION {p.topics : p \in posts} |-> Cardinality({p \in posts : t \in p.topics})]
StatPosts == IF decided \/ \E p \in listing : p.show # "" THEN {p \in listing : p.show = "visible"} ELSE listing
TopicStats == CountByTopic(StatPosts)
HasTopic(t) == t \in DOMAIN TopicStats
HasSource(s) == s # "" /\ \E p \in StatPosts : p.source = s
TopicDirectory(o) ==
    LET counts == CountByTopic(ListOf(listing, o))
    IN [t \in DOMAIN counts \cap DOMAIN TopicStats |-> counts[t]]

---------------------------------------------------------------------------
(* The pages: those for people are cut, those of the interface (/api) for one topic or
   source are not; a topic or source that has no count is not found. *)

NotFound == [found |-> FALSE, page |-> 0, next |-> FALSE, items |-> {}]
Uncut(list) == [found |-> TRUE, page |-> 1, next |-> FALSE, items |-> list]
Cut(list, o, n) == PaginatePosts(list, EffectiveSort(o), n, o.size)

HomePage(o, n) == Cut(ListOf(listing, o), o, n)
FeedPage(o, n) == Cut(ListOf(listing, o), o, n)
PendingPage(o, n) == Cut(ListOf(listing, [o EXCEPT !.pending = TRUE]), o, n)
TopicPage(o, n) == IF HasTopic(o.topic) THEN Cut(ListOf(listing, o), o, n) ELSE NotFound
SourcePage(o, n) == IF HasSource(o.source) THEN Cut(ListOf(listing, o), o, n) ELSE NotFound
TopicInterface(o) == IF HasTopic(o.topic) THEN Uncut(ListOf(listing, o)) ELSE NotFound
SourceInterface(o) == IF HasSource(o.source) THEN Uncut(ListOf(listing, o)) ELSE NotFound

Page(o, n) == CASE o.path = "/" -> HomePage(o, n)
                [] o.path = "/api/feed" -> FeedPage(o, n)
                [] o.path = "/pending-approval" -> PendingPage(o, n)
                [] o.path = "/topics" -> TopicPage(o, n)
                [] o.path = "/sources" -> SourcePage(o, n)
                [] o.path = "/api/topics" -> TopicInterface(o)
                [] o.path = "/api/sources" -> SourceInterface(o)

---------------------------------------------------------------------------
(* The reader and the index. *)

IdsOf(posts) == {p.id : p \in posts}

PagesInit == /\ \E i \in Indexes : listing = i.posts /\ coming = i.coming
             /\ decided = FALSE
             /\ walk \in {[asked |-> o, page |-> 0, next |-> TRUE] : o \in Walks}
             /\ pageSeen = {} /\ pageChanges = 0
             /\ stayed = IdsOf(ListOf(listing, walk.asked))

ReadPage ==
    LET got == Page(walk.asked, walk.page + 1)
    IN /\ walk.next
       /\ walk' = [walk EXCEPT !.page = got.page, !.next = got.next]
       /\ pageSeen' = pageSeen \cup IdsOf(got.items)
       /\ UNCHANGED <<listing, coming, decided, stayed, pageChanges>>

Rebuilt(posts) ==
    LET before == IdsOf(ListOf(listing, walk.asked))
        now == IdsOf(ListOf(posts, walk.asked))
    IN /\ walk.next /\ pageChanges < MaxPageChanges /\ pageChanges' = pageChanges + 1
       /\ listing' = posts
       /\ stayed' = IF before \subseteq now THEN stayed ELSE {}
       /\ UNCHANGED <<walk, pageSeen>>
Changes(p, q) == Rebuilt((listing \ {p}) \cup {q})

Arrive == /\ \E p \in coming : Rebuilt(listing \cup {p}) /\ coming' = coming \ {p}
          /\ UNCHANGED decided
(* Each vote is a reaction of its own; none takes the place of an earlier one. *)
Vote == /\ \E p \in listing, value \in {1, -1} :
              /\ p.votes + value \in -MaxAnswers..MaxAnswers
              /\ Changes(p, [p EXCEPT !.votes = @ + value])
        /\ UNCHANGED <<coming, decided>>
Reply == /\ \E p \in listing : /\ p.replies < MaxAnswers
                                /\ Changes(p, [p EXCEPT !.replies = @ + 1])
         /\ UNCHANGED <<coming, decided>>
Decide == /\ decided' = TRUE /\ UNCHANGED coming
          /\ \E p \in listing :
               \/ p.waiting /\ Changes(p, [p EXCEPT !.show = "visible", !.waiting = FALSE, !.assigned = 0])
               \/ Changes(p, [p EXCEPT !.show = "rejected", !.waiting = FALSE, !.assigned = 0])
               \/ \E r \in ToSet(Ranked) :
                    Changes(p, [p EXCEPT !.show = "pending", !.waiting = TRUE, !.assigned = r])

PagesNext == ReadPage \/ Arrive \/ Vote \/ Reply \/ Decide
PagesSpec == PagesInit /\ [][PagesNext]_pagevars

---------------------------------------------------------------------------
PagesTypeOK ==
    /\ walk.asked \in Walks /\ walk.next \in BOOLEAN /\ walk.page \in 0..(1 + Cardinality(listing))
    /\ IdsOf(listing) \cap IdsOf(coming) = {}
    /\ pageSeen \subseteq IdsOf(listing) /\ pageChanges \in 0..MaxPageChanges

(* Where rules apply, or there is no decision, the counts are of what the pages list. *)
Counted == decided => \A p \in listing : p.show # ""

(* A reader who follows the links from the first page of the newest posts to the last one
   has seen every post that the list had all along, although posts came, were answered and
   went in between pages, as long as the list lost none (runtime_content.go PaginatePosts,
   index.go sortPosts, moderation.go applyModerationDecisions for the pages of topics and
   sources, which are not found without a count). *)
WalkMissesNothing ==
    ~walk.next /\ walk.asked.tab # "hot" /\ Counted => stayed \subseteq pageSeen

(* The directory says how many posts the page of a topic lists, and leaves no topic of a
   listed post out (moderation.go applyModerationDecisions, runtime_content.go
   BuildTopicDirectory). *)
DirectoryLeadsToPosts ==
    Counted =>
        LET all == [walk.asked EXCEPT !.pending = FALSE, !.topic = "", !.source = "", !.reviewer = 0]
        IN /\ \A t \in DOMAIN TopicDirectory(all) :
                Cardinality(TopicInterface([all EXCEPT !.topic = t]).items) = TopicDirectory(all)[t]
           /\ \A p \in ListOf(listing, all) : p.topics \subseteq DOMAIN TopicDirectory(all)

(* Who goes from the directory to a topic, and from page to page, meets every post. *)
EveryPostIsReached == WalkMissesNothing /\ DirectoryLeadsToPosts

===============================================================================

---------------------------- MODULE ContentRules ----------------------------
(* What a node shows of the messages it holds: the writer policy with its shared
   registries and its lists, the delegations of parent to child writers and their
   revocations, the subscription rules, and the decisions of moderators
   (internal/plugins/aip2p writer_policy.go, writer_registry.go, delegation.go,
   subscriptions.go, moderation.go; internal/aip2p/subscriptions.go for the daemon).

   A writer is a record [agent, key]; key NoKey is a writer without a signature.  A
   message is a record [id, kind, author, writer, said, parent, to, channel, feed, topics,
   tags, day, age, size]: "feed" is the feed of its channel, "said" and "parent" are the keys its extensions name, "to" the post a
   reply or a reaction is about.  Names stand for what the code compares: trimmed and in
   lower case. *)
EXTENDS Naturals, Sequences, FiniteSets, SequencesExt

(* The names above an author: "alice" is above "alice/work". *)
CONSTANT Above

NoKey == ""
NoWriter == [agent |-> "", key |-> NoKey]
Unlimited == 1000
All == "all"

---------------------------------------------------------------------------
(* Delegations: records [parent, child, scopes, at, until]; until 0 is none. *)

ScopeMatches(d, scope) == d.scopes = {} \/ scope = <<>> \/ scope \in d.scopes
Expired(d, now) == d.until # 0 /\ d.until <= now
(* Mutant: a revocation of the second of the delegation does not count. *)
IsRevokedBefore(d, revocations, now) ==
    \E v \in revocations : v.parent = d.parent /\ v.child = d.child /\ d.at < v.at /\ v.at <= now
(* A revocation counts against the delegations of its time and before. *)
IsRevoked(d, revocations, now) ==
    \E v \in revocations : v.parent = d.parent /\ v.child = d.child /\ d.at <= v.at /\ v.at <= now

(* The delegations that let a writer act in a scope; the newest of them is the one. *)
Candidates(store, child, scope, now) ==
    {d \in store.delegations : /\ d.child = child /\ ScopeMatches(d, scope)
                               /\ ~Expired(d, now) /\ ~IsRevoked(d, store.revocations, now)}
ActiveDelegation(store, child, scope, now) ==
    LET cs == Candidates(store, child, scope, now)
    IN IF cs = {} THEN [parent |-> NoWriter]
       ELSE CHOOSE d \in cs : \A c \in cs : c.at <= d.at

---------------------------------------------------------------------------
(* The writer policy: what the file holds, then what is loaded of it. *)

Verified(registry, policy) ==
    /\ registry.signed
    /\ registry.authority \in DOMAIN policy.authorities
    /\ policy.authorities[registry.authority] = registry.key

(* Later registries override earlier ones, and the file overrides them all.  The merged
   policy starts without the trust mode of the file. *)
WithRegistries(policy, registries) ==
    LET Merged(field) == FoldLeft(LAMBDA caps, name : registries[name][field] @@ caps,
                                  <<>>, policy.registries)
    IN IF policy.registries = <<>> THEN policy
       ELSE [policy EXCEPT !.trust = "exact",
                           !.agentCap = policy.agentCap @@ Merged("agentCap"),
                           !.keyCap = policy.keyCap @@ Merged("keyCap")]

WithLists(policy, lists) ==
    [policy EXCEPT !.allowedAgents = @ \cup lists.allowedAgents,
                   !.allowedKeys = @ \cup lists.allowedKeys,
                   !.blockedAgents = @ \cup lists.blockedAgents,
                   !.blockedKeys = @ \cup lists.blockedKeys]

(* A registry that does not verify fails the load, and with it the index. *)
PolicyLoads(policy, registries) ==
    \A i \in DOMAIN policy.registries : Verified(registries[policy.registries[i]], policy)
LoadPolicy(policy, registries, lists) == WithLists(WithRegistries(policy, registries), lists)

PolicyEmpty(p) ==
    /\ p.unsigned /\ p.mode = "all" /\ p.trust = "exact" /\ p.default = "read_write"
    /\ {} = DOMAIN p.agentCap \cup DOMAIN p.keyCap \cup DOMAIN p.authorities
    /\ {} = p.allowedAgents \cup p.allowedKeys \cup p.blockedAgents \cup p.blockedKeys
    /\ p.registries = <<>>

HasWhitelist(p) == p.allowedAgents # {} \/ p.allowedKeys # {}

Rank(capability) == [blocked |-> 0, read_only |-> 1, read_write |-> 2][capability]

(* What the policy says of a writer by itself: its capability, whether it names the
   writer, and whether it names it as one that may write. *)
Standing(capability, named) ==
    [cap |-> capability, named |-> named, rw |-> named /\ capability = "read_write"]
CapabilityState(p, w) ==
    IF w.agent # "" /\ w.agent \in p.blockedAgents THEN Standing("blocked", TRUE)
    ELSE IF w.key # NoKey /\ w.key \in p.blockedKeys THEN Standing("blocked", TRUE)
    ELSE IF w.key \in DOMAIN p.keyCap THEN Standing(p.keyCap[w.key], TRUE)
    ELSE IF w.agent \in DOMAIN p.agentCap THEN Standing(p.agentCap[w.agent], TRUE)
    ELSE IF ~HasWhitelist(p) THEN Standing(p.default, FALSE)
    ELSE IF w.agent \in p.allowedAgents \/ w.key \in p.allowedKeys THEN Standing("read_write", TRUE)
    ELSE Standing("read_only", FALSE)

Unsigned(w) == w.key = NoKey
(* Mutant: a parent only lends. *)
LentDecision(p, w, lender) ==
    LET child == CapabilityState(p, w)
        parent == CapabilityState(p, lender)
    IN IF child.cap = "blocked" THEN Standing("blocked", FALSE)
       ELSE [child EXCEPT !.cap = IF ~child.named /\ Rank(parent.cap) > Rank(@) THEN parent.cap ELSE @,
                          !.rw = @ \/ parent.rw]
(* A parent lends its capability to a child the policy does not name; a blocked parent
   blocks the child. *)
OriginDecision(p, w, lender) ==
    LET child == CapabilityState(p, w)
        parent == CapabilityState(p, lender)
    IN IF child.cap = "blocked" THEN Standing("blocked", FALSE)
       ELSE IF lender = NoWriter THEN child
       ELSE IF parent.cap = "blocked" THEN Standing("blocked", FALSE)
       ELSE [child EXCEPT !.cap = IF ~child.named /\ Rank(parent.cap) > Rank(@) THEN parent.cap ELSE @,
                          !.rw = @ \/ parent.rw]

(* The author of a message is a name like "alice/work"; with the mode
   parent_and_children an entry "alice" stands for it too. *)
AuthorMatches(author, entries, trust) ==
    \/ author \in entries
    \/ trust = "parent_and_children" /\ Above[author] \cap entries # {}

MessageDecision(p, m, lender) ==
    LET d == OriginDecision(p, m.writer, lender)
    IN IF m.author # "" /\ AuthorMatches(m.author, p.blockedAgents, p.trust)
       THEN Standing("blocked", FALSE)
       ELSE IF /\ m.author # "" /\ HasWhitelist(p) /\ d.cap # "blocked"
               /\ AuthorMatches(m.author, p.allowedAgents, p.trust)
       THEN [d EXCEPT !.cap = "read_write", !.rw = TRUE]
       ELSE d

Admitted(mode, d) ==
    /\ d.cap # "blocked"
    /\ \/ mode \in {"all", "blacklist"}
       \/ mode = "whitelist" /\ d.rw
       \/ mode \in {"mixed", "trusted_writers_only"} /\ d.cap = "read_write"
AcceptsMessage(p, m, store, now) ==
    IF Unsigned(m.writer) THEN p.unsigned
    ELSE \E lender \in {ActiveDelegation(store, m.writer, <<m.kind>>, now).parent} :
            Admitted(p.mode, MessageDecision(p, m, lender))

(* What the policy leaves of the messages, by their places in the index: the posts it
   accepts, then the replies and reactions it accepts to one of these.  Nothing looks at
   the order of posts and others. *)
Ids(bundles) == {bundles[i].id : i \in DOMAIN bundles}
IsPost(m) == m.kind = "post"
ApplyWriterPolicy(bundles, p, store, now) ==
    LET accepted == {i \in DOMAIN bundles : AcceptsMessage(p, bundles[i], store, now)}
        posts == {i \in accepted : IsPost(bundles[i])}
        others == {i \in accepted : ~IsPost(bundles[i]) /\ \E j \in posts : bundles[i].to = bundles[j].id}
    IN IF PolicyEmpty(p) THEN DOMAIN bundles ELSE posts \cup others

---------------------------------------------------------------------------
(* The subscription rules. *)

Canonical(topic, aliases) == IF topic \in DOMAIN aliases THEN aliases[topic] ELSE topic
WhitelistSet(r) == {Canonical(t, r.aliases) : t \in r.topicWhitelist} \ {All}
TopicAllowed(topic, whitelist) == whitelist = {} \/ topic = All \/ topic \in whitelist
CanonicalTopics(topics, r) ==
    {t \in {Canonical(u, r.aliases) : u \in topics} : TopicAllowed(t, WhitelistSet(r))}

(* Selectors <<"topic", t>>, <<"feed", f>>, <<"origin", k>>, <<"parent", k>>. *)
CanonicalSelectors(selectors, r) ==
    {s \in {IF s[1] = "topic" THEN <<"topic", Canonical(s[2], r.aliases)>> ELSE s : s \in selectors} :
        s[1] = "topic" => TopicAllowed(s[2], WhitelistSet(r))}

OrUnlimited(n) == IF n = 0 THEN Unlimited ELSE n
Normalized(r) ==
    [r EXCEPT !.topicWhitelist = WhitelistSet(r),
              !.autoApprove = CanonicalSelectors(@, r),
              !.topics = CanonicalTopics(@, r),
              !.historyTopics = CanonicalTopics(@, r),
              !.maxAge = OrUnlimited(@), !.maxSize = OrUnlimited(@), !.maxPerDay = OrUnlimited(@)]

RulesEmpty(r) ==
    /\ {} = r.channels \cup r.topics \cup r.tags \cup r.authors
    /\ {} = r.allowedOrigins \cup r.blockedOrigins \cup r.allowedParents \cup r.blockedParents
    /\ {} = r.historyChannels \cup r.historyTopics \cup r.historyAuthors
    /\ ~r.liveRules
    /\ r.maxAge >= Unlimited /\ r.maxSize >= Unlimited /\ r.maxPerDay >= Unlimited

OriginKey(m) == IF m.said # NoKey THEN m.said ELSE m.writer.key

(* Keys come before everything: blocked, else allowed, else the rest decides. *)
KeyFilter(origin, parent, r) ==
    IF origin \in r.blockedOrigins \/ parent \in r.blockedParents THEN "blocked"
    ELSE IF origin \in r.allowedOrigins \/ parent \in r.allowedParents THEN "allowed"
    ELSE "open"

WithinLimits(m, r) == m.age <= r.maxAge /\ m.size <= r.maxSize

Subscribes(m, r) ==
    \/ All \in r.topics
    \/ m.channel \in r.channels \/ m.author \in r.authors
    \/ CanonicalTopics(m.topics, r) \cap r.topics # {}
    \/ m.tags \cap r.tags # {}

MatchesSubscription(m, r) ==
    LET filter == KeyFilter(OriginKey(m), m.parent, r)
    IN \/ filter = "allowed"
       \/ filter = "open" /\ WithinLimits(m, r) /\ (RulesEmpty(r) \/ Subscribes(m, r))

(* Of the posts that match, the first of each day in the order of the index are within its
   quota; posts without a day are not counted. *)
WithinQuota(bundles, posts, r) ==
    LET matching == {i \in posts : MatchesSubscription(bundles[i], r)}
        before(i) == {j \in matching : j < i /\ bundles[j].day = bundles[i].day}
    IN {i \in matching : bundles[i].day = 0 \/ Cardinality(before(i)) < r.maxPerDay}

(* The index the rules leave: its messages, and the posts that wait for approval.  What
   matches over the quota is neither. *)
PostIdOf(m) == IF IsPost(m) THEN m.id ELSE m.to
ApplySubscriptionRules(bundles, places, rules) ==
    LET r == Normalized(rules)
        posts == {i \in places : IsPost(bundles[i])}
        pending == {i \in posts : r.mode = "approval" /\ ~MatchesSubscription(bundles[i], r)}
        kept == {bundles[i].id : i \in WithinQuota(bundles, posts, r) \cup pending}
    IN IF RulesEmpty(r) THEN [bundles |-> {bundles[i] : i \in places}, pending |-> {}]
       ELSE [bundles |-> {bundles[i] : i \in {j \in places : PostIdOf(bundles[j]) \in kept}},
             pending |-> {bundles[i].id : i \in pending}]

(* What the daemon fetches of the announced history: with selectors of its own the
   history ignores the other ones. *)
HasHistorySelectors(r) == {} # r.historyChannels \cup r.historyTopics \cup r.historyAuthors
HistorySelects(m, r) ==
    \/ All \in r.historyTopics
    \/ m.channel \in r.historyChannels \/ m.author \in r.historyAuthors
    \/ CanonicalTopics(m.topics, r) \cap r.historyTopics # {}
MatchesAnnouncement(m, rules) == MatchesSubscription(m, Normalized(rules))
MatchesHistoryAnnouncement(m, rules) ==
    LET r == Normalized(rules)
        filter == KeyFilter(OriginKey(m), m.parent, r)
    IN IF ~HasHistorySelectors(r) THEN MatchesAnnouncement(m, rules)
       ELSE \/ filter = "allowed"
            \/ filter = "open" /\ WithinLimits(m, r) /\ HistorySelects(m, r)

---------------------------------------------------------------------------
(* The decisions of moderators: a function from the ids of posts to records [action,
   actor, reviewer]. *)

MatchesSelector(m, s) ==
    CASE s[1] = "feed" -> m.feed = s[2]
      [] s[1] = "topic" -> s[2] \in m.topics
      [] s[1] = "origin" -> OriginKey(m) = s[2]
      [] s[1] = "parent" -> m.parent = s[2]

(* Posts that wait and match a selector are approved for this index, unless there is a
   decision about them; nothing of it is saved. *)
Automatic(index, rules) ==
    {m.id : m \in {b \in index.bundles : /\ b.id \in index.pending
                                        /\ \E s \in Normalized(rules).autoApprove : MatchesSelector(b, s)}}
WithAutoApprovals(index, decisions, rules) ==
    [id \in DOMAIN decisions \cup Automatic(index, rules) |->
        IF id \in DOMAIN decisions THEN decisions[id]
        ELSE [action |-> "approve", actor |-> "auto-approve", reviewer |-> ""]]

Visibility(id, index, decisions) ==
    IF id \in DOMAIN decisions
    THEN [approve |-> "visible", reject |-> "rejected", route |-> "pending"][decisions[id].action]
    ELSE IF id \in index.pending THEN "pending" ELSE "visible"

PostIds(index) == {m.id : m \in {b \in index.bundles : IsPost(b)}}

(* The index of the pages: how each post shows, and which replies and reactions it has. *)
Shown(bundles, p, store, now, rules, decisions) ==
    LET index == ApplySubscriptionRules(bundles, ApplyWriterPolicy(bundles, p, store, now), rules)
        all == WithAutoApprovals(index, decisions, rules)
    IN [posts |-> [id \in PostIds(index) |-> Visibility(id, index, all)],
        others |-> {m.id : m \in index.bundles} \ PostIds(index)]
=============================================================================

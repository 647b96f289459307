------------------------------ MODULE Moderation ------------------------------
(* The moderation pages of a node (internal/plugins/aip2pcontent/handler.go) over the
   files they share with the index: the decisions about posts, the delegations of the
   root identity to reviewers and their revocations, the writer policy.  Requests overlap;
   each takes the index the pages have, which may be older than the files.

   The policy, the rules and the messages are given at the start; only the governance
   page writes the policy.  A build reads the files in one step (ContentIndex has the races
   of builds). The files of the
   delegations are new ones, written at once: while one is half written the store does not
   load and requests fail, which changes nothing. *)
EXTENDS ContentRules

CONSTANTS
    Library,        \* the messages of the store, newest first
    Settings,       \* what the files of the node hold: records [policy, lists, rules, registries]
    SavedPolicies,  \* the policies the governance page saves
    Moderated,      \* the settings under which there are requests
    Forms,          \* what users ask: records [batch, posts, action, actor, reviewer]
    Admins,         \* the users of the pages
    Reviewers,      \* labels of identities of reviewers, children of Root
    Root,           \* label of the root identity
    Identity,       \* from labels to writers
    FirstGrants,    \* the stores of delegations a node starts with
    ScopeSets,      \* what the root delegates
    MaxAdminRequests, MaxGrants, MaxModTime, MaxModStops  \* bounds

(* Each message has an id of its own; loading drops what is empty from lists; dates are
   seconds. *)
IsPolicy(p) == /\ {"trust", "agentCap", "keyCap", "allowedAgents", "allowedKeys", "blockedAgents", "blockedKeys",
                   "registries"} \subseteq DOMAIN p
               /\ "" \notin p.blockedAgents /\ NoKey \notin p.blockedKeys
ASSUME ModConstants ==
    /\ IsFiniteSet(DOMAIN Library) /\ DOMAIN Library \subseteq Nat
    /\ \A i, j \in DOMAIN Library : Library[i].id = Library[j].id => i = j
    /\ Above[""] = {}
    /\ \A s \in Settings :
          /\ s = [policy |-> s.policy, lists |-> s.lists, rules |-> s.rules, registries |-> s.registries]
          /\ IsPolicy(s.policy) /\ "" \notin s.lists.blockedAgents /\ NoKey \notin s.lists.blockedKeys
          /\ s.rules.maxPerDay \in Nat
          /\ {"maxPerDay", "blockedOrigins", "allowedOrigins"} \subseteq DOMAIN s.rules
    /\ \A p \in SavedPolicies : IsPolicy(p)
    /\ \A form \in Forms : form.batch \in BOOLEAN /\ form.posts \subseteq Ids(Library)
    /\ \A g \in FirstGrants : /\ g = [delegations |-> g.delegations, revocations |-> g.revocations]
                              /\ IsFiniteSet(g.delegations)
                              /\ \A d \in g.delegations : d.until \in Nat /\ d.at \in Nat
                              /\ \A v \in g.revocations : v.at \in Nat
    /\ Moderated \subseteq Settings /\ MaxModTime \in Nat \ {0} /\ MaxModStops \in Nat

VARIABLES
    setting,     \* the files of policy, lists, rules and registries
    grants,      \* the two directories of delegations and revocations
    issued,      \* history: every delegation that was ever on file
    known,       \* the reviewers whose identity is saved
    decisions,   \* the file of decisions
    tmpfile,     \* the temporary file it is written to first
    seen,        \* the index the pages have, if any
    mnow,        \* the time, in seconds
    moderators,  \* the request of each user
    modStops

modvars == <<setting, grants, issued, known, decisions, tmpfile, seen, mnow, moderators, modStops>>

NoneYet == "none"
NoFile == [by |-> NoneYet, data |-> <<>>]
Labels == Reviewers \cup {Root}

(* A request: the posts it names, the action, the identity and the reviewer it asks for
   ("" is the default); the index it took, the decisions it read and the ones it makes.
   "since" and "moved" only record history: the time and the revocations when it began,
   and the posts others decided since it read the decisions. *)
Request(n) == [pc |-> "idle", n |-> n, batch |-> FALSE, posts |-> {}, action |-> "approve",
               actor |-> "", reviewer |-> "", index |-> <<>>, base |-> <<>>, new |-> <<>>,
               since |-> [now |-> 0, revocations |-> {}], moved |-> {}]

ModInit ==
    /\ setting \in Settings /\ grants \in FirstGrants /\ issued = grants.delegations
    /\ known = {} /\ decisions = <<>> /\ tmpfile = NoFile
    /\ seen = {} /\ mnow = 1
    /\ moderators = [u \in Admins |-> Request(0)] /\ modStops = 0

---------------------------------------------------------------------------
(* The index of the pages. *)

(* The policy as it loads, and the index the files make under it; none of either when a
   registry does not verify. *)
Loaded == IF PolicyLoads(setting.policy, setting.registries)
          THEN {LoadPolicy(setting.policy, setting.registries, setting.lists)} ELSE {}
View(policy) == Shown(Library, policy, grants, mnow, setting.rules, decisions)

BuildIndex == /\ seen = {} /\ Loaded # {}
              /\ seen' = {View(policy) : policy \in Loaded}
              /\ UNCHANGED <<setting, grants, issued, known, decisions, tmpfile, mnow, moderators, modStops>>

---------------------------------------------------------------------------
(* Who may decide. *)

PostOf(id) == CHOOSE m \in {Library[i] : i \in DOMAIN Library} : m.id = id
ActionScopes(m, action) ==
    {<<action, "any", "">>, <<action, "feed", m.feed>>} \cup {<<action, "topic", t>> : t \in m.topics}
Delegated(label, scope) == ActiveDelegation(grants, Identity[label], scope, mnow).parent # NoWriter
MayDecide(label, m, action) ==
    \/ label = Root
    \/ label \in known /\ \E s \in ActionScopes(m, action) : Delegated(label, s)

(* Identities that may decide, the closest to the post first: its topics, its feed, any
   post, the root; then by name, Root before the reviewers. *)
ModeratorRank(label, m, action) ==
    IF label = Root THEN 1
    ELSE 100 * Cardinality({t \in m.topics : Delegated(label, <<action, "topic", t>>)})
         + (IF Delegated(label, <<action, "feed", m.feed>>) THEN 60 ELSE 0)
         + (IF Delegated(label, <<action, "any", "">>) THEN 20 ELSE 0)
Best(m, action) ==
    LET may == {l \in Labels : MayDecide(l, m, action)}
    IN {l \in may : \A k \in may : ModeratorRank(k, m, action) <= ModeratorRank(l, m, action)}
ActorFor(q, m) == IF q.actor # "" THEN {q.actor} \cap {l \in Labels : MayDecide(l, m, q.action)}
                  ELSE Best(m, q.action)

(* Routing names a reviewer that exists. *)
Routable(q) == q.action = "route" => q.reviewer \in known \cup {Root}
Decision(q, actor) == [action |-> q.action, actor |-> actor,
                       reviewer |-> IF q.action = "route" THEN q.reviewer ELSE ""]

---------------------------------------------------------------------------
(* The requests. *)

At(u, pc) == moderators[u].pc = pc
Becomes(u, q) == moderators' = [moderators EXCEPT ![u] = q]
Ends(u) == Becomes(u, Request(moderators[u].n))

(* POST /moderation/<post> and /moderation/batch.  They take the index the pages have, and
   wait for it when there is none.  A single request names a post of the index. *)
TheSeen == CHOOSE index \in seen : TRUE
Begin(u) ==
    \E form \in Forms :
        /\ At(u, "idle") /\ moderators[u].n < MaxAdminRequests /\ seen # {}
        /\ setting \in Moderated
        /\ form.batch \/ form.posts \subseteq DOMAIN TheSeen.posts
        /\ Becomes(u, [Request(moderators[u].n + 1) EXCEPT
                !.pc = IF form.batch THEN "load" ELSE "resolve", !.index = TheSeen.posts,
                !.batch = form.batch, !.posts = form.posts, !.action = form.action,
                !.actor = form.actor, !.reviewer = form.reviewer,
                !.since = [now |-> mnow, revocations |-> grants.revocations]])
        /\ UNCHANGED <<setting, grants, issued, known, decisions, tmpfile, seen, mnow, modStops>>

(* A batch takes the posts that wait in its index, a single request its post. *)
Addressed(q) == IF q.batch THEN {id \in q.posts \cap DOMAIN q.index : q.index[id] = "pending"} ELSE q.posts

(* The identity that decides each post; without one for every post nothing is saved. *)
Resolve(u) ==
    LET q == moderators[u]
    IN /\ At(u, "resolve")
       /\ IF (Addressed(q) = {} \/ Routable(q)) /\ \A id \in Addressed(q) : ActorFor(q, PostOf(id)) # {}
          THEN \E who \in [Addressed(q) -> Labels] :
                 /\ \A id \in Addressed(q) : who[id] \in ActorFor(q, PostOf(id))
                 /\ Becomes(u, [q EXCEPT !.pc = IF q.batch THEN "write" ELSE "load",
                                         !.new = [id \in Addressed(q) |-> Decision(q, who[id])]])
          ELSE Ends(u)
       /\ UNCHANGED <<setting, grants, issued, known, decisions, tmpfile, seen, mnow, modStops>>

LoadDecisions(u) ==
    /\ At(u, "load")
    /\ Becomes(u, [moderators[u] EXCEPT !.base = decisions, !.moved = {},
                                        !.pc = IF moderators[u].batch THEN "resolve" ELSE "write"])
    /\ UNCHANGED <<setting, grants, issued, known, decisions, tmpfile, seen, mnow, modStops>>
(* Mutant: only the new decisions are written. *)
WriteOnlyNew(u) ==
    LET q == moderators[u]
    IN /\ At(u, "write")
       /\ tmpfile' = [by |-> u, data |-> q.new]
       /\ Becomes(u, [q EXCEPT !.pc = "install"])
       /\ UNCHANGED <<setting, grants, issued, known, decisions, seen, mnow, modStops>>
(* The decisions of a request over the ones it read. *)
Over(new, base) == [id \in DOMAIN new \cup DOMAIN base |-> IF id \in DOMAIN new THEN new[id] ELSE base[id]]
(* All decisions are written again, to one temporary file for all requests, which then
   takes the place of the file: a request may so put in place what another one wrote, and
   that one's rename fails. *)
WriteTemporary(u) ==
    LET q == moderators[u]
    IN /\ At(u, "write")
       /\ tmpfile' = [by |-> u, data |-> Over(q.new, q.base)]
       /\ Becomes(u, [q EXCEPT !.pc = "install"])
       /\ UNCHANGED <<setting, grants, issued, known, decisions, seen, mnow, modStops>>

Entry(file, id) == {file[i] : i \in {id} \cap DOMAIN file}
Changed(file) == {id \in DOMAIN file \cup DOMAIN decisions : Entry(file, id) # Entry(decisions, id)}
Install(u) ==
    /\ At(u, "install")
    /\ IF tmpfile = NoFile THEN Ends(u) /\ UNCHANGED <<decisions, tmpfile>>
       ELSE /\ decisions' = tmpfile.data /\ tmpfile' = NoFile
            /\ moderators' = [v \in Admins |->
                 IF v = u THEN [moderators[v] EXCEPT !.pc = "invalidate"]
                 ELSE IF moderators[v].pc \in {"idle", "invalidate"} THEN moderators[v]
                 ELSE [moderators[v] EXCEPT !.moved = @ \cup Changed(tmpfile.data)]]
    /\ UNCHANGED <<setting, grants, issued, known, seen, mnow, modStops>>

DropIndex(u) ==
    /\ At(u, "invalidate")
    /\ seen' = {} /\ Ends(u)
    /\ UNCHANGED <<setting, grants, issued, known, decisions, tmpfile, mnow, modStops>>

---------------------------------------------------------------------------
(* The pages of reviewers and of the policy.  The names of the files carry the reviewer
   and the second: of two delegations of one second the later one is what stays. *)

Grant(label, scopes, until) ==
    LET d == [parent |-> Identity[Root], child |-> Identity[label], scopes |-> scopes,
              at |-> mnow, until |-> until]
    IN {e \in grants.delegations : e.child # d.child \/ e.at # d.at} \cup {d}
Issues(label) ==
    \E scopes \in ScopeSets, until \in {0, mnow + 1} :
        /\ grants' = [grants EXCEPT !.delegations = Grant(label, scopes, until)]
        /\ issued' = issued \cup grants'.delegations
MoreGrants == setting \in Moderated
              /\ Cardinality(grants.delegations) + Cardinality(grants.revocations) < MaxGrants

(* The identity is saved first, then its delegation if it is to have scopes; the process
   may stop in between. *)
CreateReviewer(label) ==
    /\ label \notin known /\ MoreGrants
    /\ known' = known \cup {label}
    /\ UNCHANGED <<grants, issued>> \/ Issues(label)
    /\ UNCHANGED <<setting, decisions, tmpfile, seen, mnow, moderators, modStops>>
Delegate(label) ==
    /\ label \in known /\ MoreGrants
    /\ Issues(label)
    /\ UNCHANGED <<setting, known, decisions, tmpfile, seen, mnow, moderators, modStops>>
Revoke(label) ==
    /\ label \in known /\ MoreGrants
    /\ grants' = [grants EXCEPT !.revocations = @ \cup
                    {[parent |-> Identity[Root], child |-> Identity[label], at |-> mnow]}]
    /\ UNCHANGED <<setting, issued, known, decisions, tmpfile, seen, mnow, moderators, modStops>>

(* The form of the policy has no field for the trust mode. *)
SavePolicy(p) ==
    /\ setting \in Moderated /\ setting.policy # p
    /\ setting' = [setting EXCEPT !.policy = [p EXCEPT !.trust = "exact"]]
    /\ UNCHANGED <<grants, issued, known, decisions, tmpfile, seen, mnow, moderators, modStops>>

Second == /\ mnow < MaxModTime /\ mnow' = mnow + 1
          /\ UNCHANGED <<setting, grants, issued, known, decisions, tmpfile, seen, moderators, modStops>>

(* The process stops and starts again: its requests and the index are gone. *)
ModStop ==
    /\ modStops < MaxModStops /\ modStops' = modStops + 1
    /\ seen' = {}
    /\ moderators' = [u \in Admins |-> Request(moderators[u].n)]
    /\ UNCHANGED <<setting, grants, issued, known, decisions, tmpfile, mnow>>

ModNext ==
    \/ BuildIndex \/ Second \/ ModStop
    \/ \E u \in Admins : Begin(u) \/ Resolve(u) \/ LoadDecisions(u) \/ WriteTemporary(u) \/ Install(u) \/ DropIndex(u)
    \/ \E l \in Reviewers : CreateReviewer(l) \/ Delegate(l) \/ Revoke(l)
    \/ \E p \in SavedPolicies : SavePolicy(p)
ModSpec == ModInit /\ [][ModNext]_modvars

---------------------------------------------------------------------------
ModTypeOK ==
    /\ setting \in Settings \cup {[s EXCEPT !.policy = p] : s \in Moderated,
                                   p \in {[q EXCEPT !.trust = "exact"] : q \in SavedPolicies}}
    /\ known \subseteq Reviewers /\ grants.delegations \subseteq issued
    /\ DOMAIN decisions \subseteq Ids(Library) /\ tmpfile.by \in Admins \cup {NoneYet}
    /\ mnow \in 1..MaxModTime /\ modStops \in 0..MaxModStops
    /\ \A u \in Admins : moderators[u].pc \in {"idle", "load", "resolve", "write", "install", "invalidate"}

(* What the files say of a message, said another way than they are read. *)
BlockedNames == setting.policy.blockedAgents \cup setting.lists.blockedAgents
BlockedKeys == setting.policy.blockedKeys \cup setting.lists.blockedKeys
NamesOf(m) == {m.writer.agent, m.author}
              \cup IF setting.policy.trust = "parent_and_children" /\ setting.policy.registries = <<>>
                   THEN Above[m.author] ELSE {}
BlockedWriter(w) == w.agent \in BlockedNames \/ w.key \in BlockedKeys
ActsFor(m) == {d \in grants.delegations :
                 /\ d.child = m.writer /\ (d.scopes = {} \/ <<m.kind>> \in d.scopes)
                 /\ d.until = 0 \/ d.until > mnow
                 /\ ~\E v \in grants.revocations : v.child = d.child /\ v.parent = d.parent /\ v.at \in d.at..mnow}
Barred(m) == /\ ~Unsigned(m.writer)
             /\ \/ NamesOf(m) \cap BlockedNames # {} \/ m.writer.key \in BlockedKeys
                \/ ActsFor(m) # {} /\ \A d \in ActsFor(m) : BlockedWriter(d.parent)

(* What an index made under a policy may show. *)
Admits(policy, view) ==
    LET messages == {Library[i] : i \in DOMAIN Library}
        shown == {m \in messages : m.id \in DOMAIN view.posts \cup view.others}
        approved(m) == \/ m.id \in DOMAIN decisions
                       \/ \E s \in Normalized(setting.rules).autoApprove : MatchesSelector(m, s)
        free == {m \in shown : IsPost(m) /\ view.posts[m.id] = "visible" /\ ~approved(m)}
    IN /\ \A m \in shown : ~Barred(m)
       /\ ~(PolicyEmpty(policy) /\ RulesEmpty(Normalized(setting.rules)))
          => \A m \in shown : IsPost(m) \/ m.to \in DOMAIN view.posts
       /\ setting.rules.maxPerDay \in 1..(Unlimited - 1) =>
            \A m \in free : m.day # 0 =>
                Cardinality({k \in free : k.day = m.day}) <= setting.rules.maxPerDay
       /\ \A m \in free : OriginKey(m) \notin setting.rules.blockedOrigins

(* The index the pages build shows no signed message of a writer, an author or a parent of
   the writer that a list blocks; no reply or reaction without its post; and of the posts
   no moderator decided, at most the quota of a day and none of a blocked key
   (writer_policy.go ApplyWriterPolicy, subscriptions.go ApplySubscriptionRules,
   moderation.go applyModerationDecisions). *)
ShownIsAdmitted ==
    \A policy \in Loaded : \A view \in {View(policy)} : Admits(policy, view)

(* A decision is made by the root identity, or by a reviewer with a delegation of the
   action for this post: one that had not expired when the request came, and that no
   revocation its parent had filed by then withdrew (handler.go authorizedModerationIdentities,
   delegation.go ActiveDelegationFor). *)
Authorised(label, m, action, since) ==
    \/ label = Root
    \/ \E d \in issued :
         /\ d.child = Identity[label]
         /\ d.scopes = {} \/ d.scopes \cap ActionScopes(m, action) # {}
         /\ d.until = 0 \/ d.until > since.now
         /\ ~\E v \in since.revocations :
               v.parent = d.parent /\ v.child = d.child /\ v.at \in d.at..since.now
DecisionsAreAuthorised ==
    [][decisions' # decisions =>
         LET q == moderators[tmpfile.by]
         IN \A id \in DOMAIN q.new \cap DOMAIN decisions' :
              Authorised(decisions'[id].actor, PostOf(id), decisions'[id].action, q.since)]_modvars

(* What a request puts in place changes the decision about a post only if it decides that
   post, or if another request decided it while this one was on its way: what was in the
   file when a request read it is never lost, and nothing of a stopped process is
   (handler.go handleModeration, moderation.go SaveModerationDecisions). *)
DecisionsStick ==
    [][decisions' # decisions =>
         LET q == moderators[tmpfile.by]
         IN \A id \in Ids(Library) :
              Entry(decisions', id) # Entry(decisions, id) => id \in DOMAIN q.new \cup q.moved]_modvars
=============================================================================

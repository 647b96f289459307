----------------------------- MODULE MCNodeFiles -----------------------------
(* One instance each of what a node keeps in files of its own: the state of the team sync
   runtime, the rules and decisions that say what it shows, the pages over the index
   they leave, the live rooms, with their sessions and with their archives and pages, and
   the installed extensions.
   They share no state in the model, so "part" picks the one that runs and the others
   rest. *)
EXTENDS TeamSyncStateFile, Moderation, ContentPages, LiveHistory, LiveSession, ExtensionStore,
        TLC

CONSTANTS kc, kd, x, y
Same == Permutations({kc, kd}) \cup Permutations({x, y})

---------------------------------------------------------------------------
(* Moderation: two posts of a parent writer and its child, one unsigned, a reply and a
   reaction; every combination of the policies, lists and rules below; requests only where
   posts wait. *)

Parent == [agent |-> "A", key |-> "ka"]
Child == [agent |-> "B", key |-> "kb"]
RootWriter == [agent |-> "R", key |-> "kr"]
ReviewerWriter == [agent |-> "V", key |-> "kv"]

TheNames == [n \in {"alice", "alice/work", "bob", ""} |-> IF n = "alice/work" THEN {"alice"} ELSE {}]
TheIdentities == [l \in {"root", "v"} |-> IF l = "root" THEN RootWriter ELSE ReviewerWriter]

M(id, kind, author, writer, to, topics) ==
    [id |-> id, kind |-> kind, author |-> author, writer |-> writer, said |-> NoKey,
     parent |-> IF writer = Child THEN "ka" ELSE NoKey, to |-> to, channel |-> "ch", feed |-> "f",
     topics |-> topics, tags |-> {}, day |-> 1, age |-> 1, size |-> 1]
Five == << M(1, "post", "alice/work", Parent, 0, {"t"}), M(2, "post", "bob", Child, 0, {"u"}),
           M(3, "post", "alice", NoWriter, 0, {"alias"}),
           M(4, "reply", "bob", Child, 1, {}), M(5, "reaction", "alice", NoWriter, 2, {}) >>

P0 == [trust |-> "exact", mode |-> "all", unsigned |-> TRUE, default |-> "read_write",
       agentCap |-> <<>>, keyCap |-> <<>>, allowedAgents |-> {}, allowedKeys |-> {},
       blockedAgents |-> {}, blockedKeys |-> {}, authorities |-> <<>>, registries |-> <<>>]
ThePolicies ==
    {[P0 EXCEPT !.mode = mode, !.unsigned = unsigned, !.default = default, !.trust = trust,
                !.allowedAgents = allowed, !.blockedAgents = blocked, !.registries = registries,
                !.authorities = IF registries = <<>> THEN <<>> ELSE "au" :> "k1"] :
        mode \in {"all", "whitelist", "mixed"}, unsigned \in BOOLEAN, default \in {"read_write", "read_only"},
        trust \in {"exact", "parent_and_children"}, allowed \in {{}, {"alice"}}, blocked \in {{}, {"A"}, {"alice"}},
        registries \in {<<>>, <<"g">>}}
G == ("g" :> [signed |-> TRUE, authority |-> "au", key |-> "k1", agentCap |-> <<>>, keyCap |-> "kb" :> "blocked"])
BadG == ("g" :> [G["g"] EXCEPT !.key = "k2"])
NoLists == [allowedAgents |-> {}, allowedKeys |-> {}, blockedAgents |-> {}, blockedKeys |-> {}]
KeyList == [NoLists EXCEPT !.blockedKeys = {"ka"}]
R0 == [mode |-> "all", channels |-> {}, topics |-> {}, tags |-> {}, authors |-> {}, allowedOrigins |-> {},
       blockedOrigins |-> {}, allowedParents |-> {}, blockedParents |-> {}, historyChannels |-> {},
       historyTopics |-> {}, historyAuthors |-> {}, liveRules |-> FALSE, maxAge |-> 0, maxSize |-> 0,
       maxPerDay |-> 0, topicWhitelist |-> {}, aliases |-> "alias" :> "t", autoApprove |-> {}]
TheRules == {R0, [R0 EXCEPT !.maxPerDay = 1], [R0 EXCEPT !.topics = {"t"}, !.mode = "approval"],
             [R0 EXCEPT !.channels = {"ch"}, !.blockedOrigins = {"kb"}, !.maxPerDay = 2],
             [R0 EXCEPT !.topics = {"alias"}, !.allowedParents = {"ka"}, !.topicWhitelist = {"alias"}]}
Waiting == [policy |-> P0, lists |-> NoLists, registries |-> G,
            rules |-> [R0 EXCEPT !.topics = {"t"}, !.blockedOrigins = {"ka"}, !.mode = "approval",
                                 !.autoApprove = {<<"topic", "alias">>}]]
TheModerated == {Waiting}
TheSettings == TheModerated \cup
    [policy : ThePolicies, lists : {NoLists, KeyList}, registries : {G}, rules : TheRules]
    \cup [policy : {CHOOSE p \in ThePolicies : p.registries # <<>>}, lists : {NoLists}, registries : {BadG}, rules : {R0}]
TheSaved == {[P0 EXCEPT !.blockedAgents = {"B"}, !.trust = "parent_and_children"]}

FromParent(scopes) == [parent |-> Parent, child |-> Child, scopes |-> scopes, at |-> 1, until |-> 0]
NoGrants == [delegations |-> {}, revocations |-> {}]
TheGrants == {NoGrants, [NoGrants EXCEPT !.delegations = {FromParent({<<"post">>})}]}
TheScopes == {{<<"approve", "any", "">>, <<"reject", "topic", "u">>}}
F(batch, posts, action, actor, reviewer) ==
    [batch |-> batch, posts |-> posts, action |-> action, actor |-> actor, reviewer |-> reviewer]
TheForms == {F(FALSE, {2}, "reject", "", ""), F(TRUE, {1, 2}, "approve", "v", ""), F(TRUE, {2, 4}, "route", "", "v")}


---------------------------------------------------------------------------
(* Pages: an index without rules, one with, and two where all posts wait. *)

WebPost(id, made, topics, show) ==
  [id |-> id, made |-> made, group |-> "g", topics |-> topics, source |-> IF id = 1 THEN "s" ELSE "",
   show |-> show, waiting |-> show = "pending", assigned |-> 0, suggested |-> 0, replies |-> 0, votes |-> 0]
I(posts, new) == [posts |-> posts, coming |-> new]
TheIndexes == {I({WebPost(1, 90, {"t"}, ""), WebPost(2, 95, {"t", "u"}, ""), WebPost(3, 95, {}, "")}, {WebPost(8, 99, {"t"}, "")}),
              I({WebPost(1, 90, {"t"}, "visible"), WebPost(2, 95, {"u"}, "visible"), WebPost(3, 80, {"t"}, "visible"), WebPost(4, 97, {"t"}, "pending")},
                {WebPost(8, 99, {"t"}, "visible"), WebPost(9, 93, {"u"}, "pending")}),
              I({WebPost(i, 90 + i, {"v"}, "pending") : i \in 1..3}, {WebPost(9, 93, {"u"}, "pending")}),
              I({WebPost(1, 91, {"w"}, "pending"), WebPost(2, 92, {"v"}, "pending")}, {})}
Ask(url, t, tab, hours, reviewer, size) ==
    [path |-> url, pending |-> url = "/pending-approval", group |-> "", topic |-> t,
     source |-> IF url \in {"/sources", "/api/sources"} THEN "s" ELSE "",
     reviewer |-> reviewer, tab |-> tab, hours |-> hours, size |-> size]
TheWalks == {Ask("/", "", "", 0, 0, 1), Ask("/api/feed", "", "hot", 0, 0, 2), Ask("/topics", "t", "new", 24, 0, 1),
             Ask("/sources", "", "new", 0, 0, 1), Ask("/api/topics", "t", "new", 0, 0, 1),
             Ask("/api/sources", "", "new", 0, 0, 1),
             Ask("/pending-approval", "", "", 0, 0, 2), Ask("/pending-approval", "", "", 0, 1, 1)}
TheRanked == <<2, 1>>
TheRoutes == "w" :> 2

---------------------------------------------------------------------------
(* Live rooms: a public one and one with a creator; messages of one sender in three
   windows or close to each other, a notice, and an event that says nothing. *)

Line(id, kind, by, at) == [id |-> id, kind |-> kind, by |-> by, parent |-> by, at |-> at, bare |-> FALSE]
TheLines == {Line(1, "message", "a", 0), Line(2, "message", "a", 1), Line(3, "message", "a", 2),
             Line(4, "message", "b", 3), Line(5, "notice", "b", 1),
             [Line(6, "join", "b", 1) EXCEPT !.bare = TRUE]}
TheRooms == {[public |-> TRUE, creator |-> "", parent |-> ""], [public |-> FALSE, creator |-> "a", parent |-> "a"]}
TheFirstRules == {EmptyRules, [EmptyRules EXCEPT !.blocked = {"b"}]}
TheLiveForms == {[muted |-> {"b"}, mutedParents |-> {}, limit |-> 1, window |-> 1],
                 [muted |-> {}, mutedParents |-> {}, limit |-> 2, window |-> 2]}

---------------------------------------------------------------------------
(* Extensions: a plugin, one based on it, a theme for it, an app of all, and an app that
   brings a plugin of the same name. *)

PluginOf(id, base) == [kind |-> "plugin", id |-> id, base |-> base]
ThemeOf(id, supported, required) == [kind |-> "theme", id |-> id, supported |-> supported, required |-> required]
AppOf(id, uses, theme, plugins, themes) ==
    [kind |-> "app", id |-> id, uses |-> uses, theme |-> theme, plugins |-> plugins, themes |-> themes, twice |-> FALSE]
TheBuiltin == {PluginOf("content", ""), ThemeOf("plain", {}, {}), AppOf("main", {"content"}, "plain", {}, {})}
TheFolders == "dp" :> PluginOf("p", "content") @@ "dq" :> PluginOf("q", "p") @@ "dt" :> ThemeOf("t", {"p"}, {"p"})
    @@ "da" :> AppOf("a", {"p"}, "t", {}, {})
    @@ "db" :> AppOf("b", {"p"}, "u", {PluginOf("p", "content")}, {ThemeOf("u", {"p"}, {"content"})})

---------------------------------------------------------------------------
VARIABLE part
livevars == <<historyvars, sessionvars, extvars>>
nodevars == <<part, vars, modvars, pagevars, livevars>>

(* A part that rests starts one way only. *)
Parts == {"state", "moderation", "pages", "archives", "room", "sessions", "extensions"}
NodeInit ==
    /\ part \in Parts
    /\ HistoryInit /\ (part # "room" => info.public /\ ruleFile = EmptyRules)
    /\ SessionInit /\ (\A m \in Nodes : room[m] = NoInfo \/ (part = "sessions" /\ m # Watcher))
    /\ ExtInit
    /\ Init /\ (part # "state" => topic = kc)
    /\ ModInit
    /\ IF part = "moderation" THEN setting \in Moderated => grants = NoGrants
       ELSE setting = Waiting /\ grants = NoGrants
    /\ PagesInit
    /\ part # "pages" => /\ walk.asked = CHOOSE w \in Walks : TRUE
                         /\ \A i \in Indexes : listing = i.posts => i.coming = {}

StateRuns(A) == /\ part = "state" /\ A
                /\ UNCHANGED <<part, modvars, pagevars, livevars>>
(* The policy is saved before there are requests; the process stops when it left a
   temporary file; settings without requests stay as they are. *)
Quiet == \A u \in Admins : moderators[u].n = 0
ModerationRuns(A) == /\ part = "moderation" /\ A
                     /\ setting \in Moderated \/ setting.policy \in {[p EXCEPT !.trust = "exact"] : p \in SavedPolicies}
                     /\ setting' # setting => Quiet
                     /\ modStops' # modStops => tmpfile # NoFile
                     /\ UNCHANGED <<part, vars, pagevars, livevars>>
PagesRun(A) == /\ part = "pages" /\ A
               /\ UNCHANGED <<part, vars, modvars, livevars>>
(* The archives of three lines, without forms; the pages of a room when all that is in it
   has happened, without archives. *)
ArchivesRun(A) == /\ part = "archives" /\ A
                  /\ \A u \in Askers : asker'[u].pc \in {"idle", "archive"}
                  /\ RangeOf(lines') \subseteq {e \in Lines : e.id \in {1, 3, 4}}
                  /\ UNCHANGED <<part, vars, modvars, pagevars, sessionvars, extvars>>
RoomRuns(A) == /\ part = "room" /\ A
               /\ daily' = Idle /\ \A u \in Askers : asker'[u].pc # "archive"
               /\ lines' # lines => liveTime = MaxLiveTime
               /\ Cardinality({i \in DOMAIN lines' : lines'[i].id \in {5, 6}}) < 2
               /\ UNCHANGED <<part, vars, modvars, pagevars, sessionvars, extvars>>
(* A host that stays, and one other session. *)
SessionsRun(A) == /\ part = "sessions" /\ A
                  /\ \A p \in Hosts : session'[p].pc \notin {"leaving", "archiving", "noticing", "gone"}
                                      /\ session'[p].n < MaxSaid /\ session'[p].typing = {}
                  /\ \A p, q \in Guests \cup Updaters : p = q \/ session'[p].pc = "out" \/ session'[q].pc = "out"
                  /\ UNCHANGED <<part, vars, modvars, pagevars, historyvars, extvars>>

(* Of the folders only those are deleted that are linked. *)
ExtensionsRun(A) == /\ part = "extensions" /\ A
                    /\ \A f \in folders \ folders' : \E k \in Keys : installed[k] = LinkTo(f)
                    /\ UNCHANGED <<part, vars, modvars, pagevars, historyvars, sessionvars>>

NodeNext == \/ StateRuns(Next) \/ ModerationRuns(ModNext) \/ PagesRun(PagesNext)
            \/ ArchivesRun(HistoryNext) \/ RoomRuns(HistoryNext) \/ SessionsRun(SessionNext)
            \/ ExtensionsRun(ExtNext)
NodeSpec == NodeInit /\ [][NodeNext]_nodevars

=============================================================================

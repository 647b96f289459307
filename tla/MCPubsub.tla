------------------------------- MODULE MCPubsub -------------------------------
(* The two users of pubsub: the outbox of team sync, and the announcements of bundles
   between two nodes.  They share no state in the model, so "part" picks the one that runs
   and the other rests: the states are the sum of the two. *)
EXTENDS MCTeamSyncOutbox, Announcements

(* Two posts of two topics, and a receiver of one of the topics, which joins no topic that
   everything is announced on. *)
NoneAbove == [x \in {"alice"} |-> {}]
OnTopics(topics) ==
    [channel |-> "aip2p/x", topics |-> topics, tags |-> {}, author |-> "alice", writer |-> NoWriter,
     said |-> NoKey, parent |-> NoKey, age |-> 1, size |-> 1]
TwoPosts == <<OnTopics({"t"}), OnTopics({"u"})>>
NoRules ==
    [channels |-> {}, topics |-> {}, tags |-> {}, authors |-> {}, allowedOrigins |-> {},
     blockedOrigins |-> {}, allowedParents |-> {}, blockedParents |-> {}, historyChannels |-> {},
     historyTopics |-> {}, historyAuthors |-> {}, liveRules |-> FALSE, maxAge |-> 0, maxSize |-> 0,
     maxPerDay |-> 0, topicWhitelist |-> {}, aliases |-> <<>>, autoApprove |-> {}, mode |-> "strict",
     discoveryFeeds |-> {}, discoveryTopics |-> {}]
OneTopic == {[NoRules EXCEPT !.topics = {"t"}, !.discoveryFeeds = {"news"}]}

VARIABLE part
pvars == <<part, vars, avars>>

PInit == part \in {"outbox", "announcements"} /\ Init /\ AInit

OutboxRuns(A) == part = "outbox" /\ A /\ UNCHANGED <<part, avars>>
AnnouncementsRun(A) == part = "announcements" /\ A /\ UNCHANGED <<part, vars>>
PNext == OutboxRuns(Next) \/ AnnouncementsRun(ANext)

(* The fairness of the two specifications.  Only one part runs, so fairness of a step of
   one part or of the other is fairness of both; a step that stays enabled until it is
   taken may be in a strong one. *)
PFairness ==
    /\ WF_pvars(OutboxRuns(ScanStep) \/ AnnouncementsRun(SenderStep))
    /\ WF_pvars(OutboxRuns(AgePending(k1)) \/ AnnouncementsRun(Arrivals))
    /\ WF_pvars(OutboxRuns(AgePending(k2)) \/ AnnouncementsRun(QueueListed))
    /\ SF_pvars(OutboxRuns(PruneSeen(k1)) \/ AnnouncementsRun(ReceiverStarts))
    /\ SF_pvars(OutboxRuns(PruneSeen(k2)) \/ AnnouncementsRun(RestoreLink))
    /\ \A n \in Posts : WF_pvars(AnnouncementsRun(FetchBundle(Post(n))))
    /\ SF_pvars(OutboxRuns(PublishOk /\ cur = k1) \/ AnnouncementsRun(ReceiveManifest(1)))
    /\ SF_pvars(OutboxRuns(PublishOk /\ cur = k2) \/ AnnouncementsRun(FetchManifest(1)))
    /\ \A x \in Bucket : SF_pvars(OutboxRuns(ScanStart(x)))
PSpec == PInit /\ [][PNext]_pvars /\ PFairness
=============================================================================

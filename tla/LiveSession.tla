----------------------------- MODULE LiveSession -----------------------------
(***************************************************************************)
(* A live room across machines: the sessions of "live host", "live join"   *)
(* and "live task-update", each a process with a store of its own, and the *)
(* announcement watcher of a node that serves pages.  All are on one       *)
(* topic.  A session announces the room, joins, shows presence, publishes  *)
(* what is typed, leaves, and then may archive the room as a post and tell *)
(* the topic where it is.                                                  *)
(*                                                                         *)
(* Here a change to a store is one step; LiveRoom takes it apart.  The     *)
(* topic delivers in any order and may lose; a send that fails is one that *)
(* is lost.  The placeholder the watcher saves for an unknown room names   *)
(* nobody and is left out.                                                 *)
(***************************************************************************)
EXTENDS Naturals, FiniteSets

CONSTANTS
    Hosts, Guests, Updaters, \* people who open the room: role host, participant; task updates
    Watcher,                 \* the node with the announcement watcher
    Archivists,              \* people whose session archives on exit
    MaxSaid,                 \* bound: presence and lines of one session
    MaxSessionStops          \* bound: sessions that are killed

People == Hosts \cup Guests \cup Updaters
Nodes == People \cup {Watcher}
ASSUME SessionConstants ==
    /\ Watcher \notin People /\ Archivists \subseteq People \ Updaters /\ "no" \notin Nodes
    /\ Hosts \cap (Guests \cup Updaters) = {} /\ Guests \cap Updaters = {}
    /\ MaxSaid \in Nat /\ MaxSessionStops \in Nat

VARIABLES
    session,   \* of each person: where it is, what it knows of the room, and what it is typing
    room,      \* the information in room.json of each node
    log,       \* the events in events.jsonl of each node
    air,       \* events on their way, each with the node it is for
    posted,    \* archives published as posts
    archive,   \* live/<room>/archive.json of each node: whose archive it names
    wanted,    \* refs in the queue of the watcher's node
    sessionStops
sessionvars == <<session, room, log, air, posted, archive, wanted, sessionStops>>

No == "no"
NoInfo == [title |-> No, creator |-> No, key |-> No]
(* What a session that knows nothing of the room says of it. *)
OwnInfo(p) == [title |-> IF p \in Hosts THEN "t" ELSE No, creator |-> p, key |-> p]
\* "knew" is history: whose room it was had reached this store before the session began.
Out == [pc |-> "out", info |-> NoInfo, typing |-> {}, said |-> {}, n |-> 0, asked |-> FALSE, knew |-> FALSE]

SessionInit ==
    /\ session = [p \in People |-> Out]
    \* a watcher on the machine may have met the room before
    /\ room \in [Nodes -> {NoInfo} \cup {OwnInfo(h) : h \in Hosts}] /\ \A h \in Hosts : room[h] = NoInfo
    /\ log = [m \in Nodes |-> {}] /\ air = {} /\ posted = {}
    /\ archive = [m \in Nodes |-> No] /\ wanted = {} /\ sessionStops = 0

(* firstNonEmptyInfo. *)
FirstGiven(a, b) == IF a # No THEN a ELSE b
MergeInfo(a, b) == [f \in DOMAIN a |-> FirstGiven(a[f], b[f])]
(* Mutant: a guest's own information comes before what is known. *)
IncomingFirst(existing, incoming) == MergeInfo(incoming, existing)
(* mergeRoomInfo keeps what is known, mergeRoomInfoAuthoritative takes what comes. *)
MergeRoomInfoAuthoritative(existing, incoming) == MergeInfo(incoming, existing)
MergeRoomInfo(existing, incoming) == MergeInfo(existing, incoming)
SaveRoom(m, info) == room' = [room EXCEPT ![m] = MergeRoomInfo(@, info)]
SaveRoomAuthoritative(m, info) == room' = [room EXCEPT ![m] = MergeRoomInfoAuthoritative(@, info)]
-----------------------------------------------------------------------------
(* NewSignedMessage. *)
Signed(p, kind) == [by |-> p, kind |-> kind, n |-> IF kind = "announce" THEN 0 ELSE session[p].n + 1,
                    info |-> session[p].info, archive |-> IF kind = "notice" THEN archive[p] ELSE No]
(* receiveLoop runs until the process is over. *)
Listening == {p \in People : session[p].pc \in {"running", "leaving", "archiving", "noticing"}} \cup {Watcher}

(* publishRaw of what is said of the room: each node may receive it at any time ... *)
Tell(es) == air' = air \cup {[event |-> e, to |-> m] : e \in es, m \in Nodes \ {e.by : e \in es}}
(* ... and of all else, which a log only collects, those that listen. *)
Heard(e) == log' = [m \in Nodes |-> IF m \in Listening \cup {e.by} THEN log[m] \cup {e} ELSE log[m]]
Said(p, e) == [session EXCEPT ![p].n = @ + 1, ![p].said = @ \cup {e}]
(* publishControl: published, and appended. *)
Control(p, kind, to) ==
    LET e == Signed(p, kind) IN
    /\ Heard(e) /\ session' = [Said(p, e) EXCEPT ![p].pc = to]
    (* publishRoomAnnouncement goes with the presence of a host. *)
    /\ IF p \in Hosts /\ kind = "heartbeat" THEN Tell({Signed(p, "announce")}) ELSE UNCHANGED air

(* startSession: a host says what the room is, everybody else completes what is known. *)
StartSession(p) ==
    LET info == IF p \in Hosts THEN OwnInfo(p) ELSE MergeRoomInfo(room[p], OwnInfo(p)) IN
    /\ session[p] = Out
    /\ session' = [session EXCEPT ![p] = [Out EXCEPT !.pc = "started", !.info = info, !.knew = room[p].key # No]]
    /\ IF p \in Hosts
       THEN SaveRoomAuthoritative(p, info) /\ Tell({[Signed(p, "announce") EXCEPT !.info = info]})
       ELSE SaveRoom(p, info) /\ UNCHANGED air
    /\ UNCHANGED <<log, posted, archive, wanted, sessionStops>>
JoinRoom(p) ==
    /\ session[p].pc = "started" /\ Control(p, "join", "joined")
    /\ UNCHANGED <<room, posted, archive, wanted, sessionStops>>
(* run: presence at once and every ten seconds after; startPresenceLoop of a task update. *)
Heartbeat(p) ==
    /\ session[p].pc \in {"joined", "running"} /\ session[p].n < MaxSaid
    /\ Control(p, "heartbeat", "running")
    /\ UNCHANGED <<room, posted, archive, wanted, sessionStops>>
(* stdinLoop, a goroutine of its own: a line is published, and then appended. *)
PublishMessage(p) ==
    LET e == Signed(p, "message") IN
    /\ session[p].pc = "running" /\ p \notin Updaters /\ session[p].typing = {} /\ session[p].n < MaxSaid
    /\ session' = [Said(p, e) EXCEPT ![p].typing = {e}]
    /\ UNCHANGED <<room, log, air, posted, archive, wanted, sessionStops>>
AppendMessage(p) ==
    /\ \E e \in session[p].typing : Heard(e)
    /\ session' = [session EXCEPT ![p].typing = {}]
    /\ UNCHANGED <<room, air, posted, archive, wanted, sessionStops>>
PublishTaskUpdate(p) ==
    /\ session[p].pc = "running" /\ p \in Updaters /\ Control(p, "task", "leaving")
    /\ UNCHANGED <<room, posted, archive, wanted, sessionStops>>

(* Mutant: the line that asks to leave does not wait for the one before. *)
AskAnytime(p) == session[p].pc = "running"
(* handleInputLine: "/exit" is the next line after those that are out. *)
AsksToLeave(p) == session[p].pc = "running" /\ session[p].typing = {}
ExitRequested(p) ==
    /\ AsksToLeave(p) /\ p \notin Updaters
    /\ session' = [session EXCEPT ![p].pc = "leaving", ![p].asked = TRUE]
    /\ UNCHANGED <<room, log, air, posted, archive, wanted, sessionStops>>
(* The context of the session ends, whatever is being typed. *)
Interrupted(p) ==
    /\ session[p].pc = "running" /\ p \notin Updaters
    /\ session' = [session EXCEPT ![p].pc = "leaving"]
    /\ UNCHANGED <<room, log, air, posted, archive, wanted, sessionStops>>
Leave(p) ==
    /\ session[p].pc = "leaving" /\ Control(p, "leave", IF p \in Archivists THEN "archiving" ELSE "gone")
    /\ UNCHANGED <<room, posted, archive, wanted, sessionStops>>
-----------------------------------------------------------------------------
(* Archive: what the store holds of the room becomes a post by the archivist. *)
ArchivePost(p) == [by |-> p, n |-> session[p].n, room |-> room[p], events |-> log[p],
            said |-> session[p].said, asked |-> session[p].asked]
Archive(p) ==
    /\ session[p].pc = "archiving" /\ log[p] # {}
    /\ posted' = posted \cup {ArchivePost(p)}
    /\ archive' = [archive EXCEPT ![p] = p]
    /\ session' = [session EXCEPT ![p].pc = "noticing"]
    /\ UNCHANGED <<room, log, air, wanted, sessionStops>>
(* publishArchiveNotice; when it fails publishArchiveNoticeDetached, from a host of its
   own, which nobody appends here and which fails when no peer comes. *)
PublishArchiveNotice(p) ==
    /\ session[p].pc = "noticing" /\ Tell({Signed(p, "notice")})
    /\ log' = [log EXCEPT ![p] = @ \cup {Signed(p, "notice")}]
    /\ session' = [session EXCEPT ![p].pc = "gone"]
    /\ UNCHANGED <<room, posted, archive, wanted, sessionStops>>
PublishArchiveNoticeDetached(p) ==
    /\ session[p].pc = "noticing"
    /\ session' = [session EXCEPT ![p].pc = "gone"]
    /\ Tell({[Signed(p, "notice") EXCEPT !.n = 1]}) \/ UNCHANGED air
    /\ UNCHANGED <<room, log, posted, archive, wanted, sessionStops>>
(* A session that is killed; who opens another is another member of People. *)
StopSession(p) ==
    /\ session[p].pc \notin {"out", "gone"} /\ sessionStops < MaxSessionStops
    /\ sessionStops' = sessionStops + 1
    /\ session' = [session EXCEPT ![p].pc = "gone", ![p].typing = {}]
    /\ UNCHANGED <<room, log, air, posted, archive, wanted>>
-----------------------------------------------------------------------------
(* Mutant: whoever sends the notice is the room's key. *)
InfoOfSender(e) == [title |-> e.info.title, creator |-> e.by, key |-> e.by]
(* roomInfoFromAnnouncement: the sender is the creator; the key is the one an archive
   notice names, or the sender's. *)
RoomInfoFromAnnouncement(e) ==
    [title |-> e.info.title, creator |-> e.by, key |-> IF e.kind = "notice" THEN FirstGiven(e.info.key, e.by) ELSE e.by]

(* receiveLoop of a session: an announcement changes the room, a notice is an event. *)
ReceiveAtSession(p, e) ==
    /\ p \in Listening
    /\ IF e.kind = "announce"
       THEN SaveRoomAuthoritative(p, RoomInfoFromAnnouncement(e)) /\ UNCHANGED log
       ELSE log' = [log EXCEPT ![p] = @ \cup {e}] /\ UNCHANGED room
    /\ UNCHANGED <<archive, wanted>>
(* handleEvent of the watcher: both do, and the ref a notice names goes into the queue. *)
ReceiveAtWatcher(e) ==
    /\ SaveRoomAuthoritative(Watcher, RoomInfoFromAnnouncement(e))
    /\ IF e.kind = "notice"
       THEN /\ log' = [log EXCEPT ![Watcher] = @ \cup {e}]
            /\ archive' = [archive EXCEPT ![Watcher] = e.archive] /\ wanted' = wanted \cup {e.archive}
       ELSE UNCHANGED <<log, archive, wanted>>
Deliver(d) ==
    /\ air' = air \ {d}
    /\ UNCHANGED <<session, posted, sessionStops>>
    /\ IF d.to = Watcher THEN ReceiveAtWatcher(d.event) ELSE ReceiveAtSession(d.to, d.event)

SessionNext ==
    \/ \E p \in People :
          \/ StartSession(p) \/ JoinRoom(p) \/ Heartbeat(p) \/ PublishMessage(p) \/ AppendMessage(p)
          \/ PublishTaskUpdate(p) \/ ExitRequested(p) \/ Interrupted(p) \/ Leave(p) \/ Archive(p)
          \/ PublishArchiveNotice(p) \/ PublishArchiveNoticeDetached(p) \/ StopSession(p)
    \/ \E d \in air : Deliver(d)
-----------------------------------------------------------------------------
SessionTypeOK ==
    /\ \A m \in Nodes : room[m].key \in People \cup {No} /\ room[m].creator \in People \cup {No}
    /\ \A d \in air : d.to \in Nodes \ {d.event.by}
    /\ sessionStops \in 0..MaxSessionStops

(* Who joined when nothing had told their store whose room it is. *)
Strangers == {p \in Guests \cup Updaters : session[p].pc # "out" /\ ~session[p].knew}

(* The key of a room decides who may see it.  Where it is a host's it stays a host's:
   a guest who knew the room never puts a key of their own there, with an archive notice
   that anybody's session may send either; only one who joined before hearing of the room
   does (live/room.go:243, discovery.go:206, notices.go:19). *)
KeyFollowsHost ==
    [][\A m \in Nodes : room[m].key \in Hosts => room'[m].key \in Hosts \cup Strangers]_sessionvars

(* Who leaves with /exit archives all they said: the archive is made when every line that
   went out on the topic, and the leave itself, is in the store.  Ctrl-C gives no such
   promise: the line being published may miss it (live/room.go:331, 473, 546). *)
ArchiveHoldsOwnWords == \A a \in posted : a.asked => a.said \subseteq a.events
=============================================================================

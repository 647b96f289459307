----------------------------- MODULE LiveHistory -----------------------------
(***************************************************************************)
(* What a node makes of the events of one live room: the pages, under the  *)
(* live rules of subscriptions.json, and the history archives, one a day   *)
(* by the loop of the live plugin and others when somebody asks.  Pages    *)
(* and archive jobs read events.jsonl without the lock while sessions and  *)
(* the watcher append to it, in the order in which events arrive.          *)
(*                                                                         *)
(* The events are those the file keeps (LiveRoom), heartbeats left out.    *)
(* Redis is off.                                                           *)
(***************************************************************************)
EXTENDS Integers, Sequences, FiniteSets

CONSTANTS
    Lines,          \* events: [id, kind, by, parent, at, bare], at the time of their stamp
    Rooms,          \* the rooms the model may be about: [public, creator, parent]
    Day,            \* the length of a window; windows end at its multiples
    MaxShown,       \* LiveRoomDisplayNonHeartbeatEvents
    FirstRules,     \* live rules that may be in the file first
    LiveForms,      \* what the moderation form may set
    Askers,         \* people who send forms and ask for archives
    MaxLiveTime,    \* bound: the clock
    MaxAsked,       \* bound: requests
    MaxLiveStops    \* bound: times the process stops

ASSUME HistoryConstants ==
    /\ Day \in Nat \ {0} /\ MaxShown \in Nat \ {0} /\ MaxLiveTime \in Nat
    /\ MaxAsked \in Nat /\ MaxLiveStops \in Nat
ASSUME LinesAreStamped == \A e \in Lines : e.at \in Nat

VARIABLES
    info,       \* room.json
    lines,      \* events.jsonl
    liveTime,   \* the clock
    histories,  \* history/: the archives, by name, each the set of its events
    daily,      \* the archive loop
    asker,      \* the request of each asker
    ruleFile,   \* subscriptions.json
    lastRules,  \* history: the rules last in the file
    promised,   \* history: events the loop found in a window that was over and not archived
    requests, liveStops

historyvars == <<info, lines, liveTime, histories, daily, asker, ruleFile, lastRules, promised, requests, liveStops>>

Emptied == [bytes |-> 0]
Idle == [pc |-> "idle"]
EmptyRules == [allowed |-> {}, allowedParents |-> {}, blocked |-> {}, blockedParents |-> {},
               muted |-> {}, mutedParents |-> {}, limit |-> 0, window |-> 0]

(* What the rules files hold, and what a form sets: the fields of SubscriptionRules. *)
IsRules(r) == DOMAIN r = DOMAIN EmptyRules /\ r.limit \in Int /\ r.window \in Int
ASSUME RulesAreRules ==
    /\ \A r \in FirstRules : IsRules(r)
    /\ \A f \in LiveForms : f.limit \in Int /\ f.window \in Int

HistoryInit ==
    /\ info \in Rooms /\ lines = <<>> /\ liveTime = 0 /\ histories = <<>> /\ daily = Idle
    /\ asker = [u \in Askers |-> Idle] /\ ruleFile \in FirstRules /\ lastRules = ruleFile
    /\ promised = {} /\ requests = 0 /\ liveStops = 0

RangeOf(s) == {s[i] : i \in DOMAIN s}
-----------------------------------------------------------------------------
(* The pages. *)

HasAllowRules(r) == r.allowed \cup r.allowedParents # {}
(* classifyLivePublicKeyVisibility: blocked before allowed, and who is on no list is let
   in unless there is a list of whom to let in. *)
Allows(r, key, parent) ==
    /\ ~(key \in r.blocked \/ parent \in r.blockedParents)
    /\ key \in r.allowed \/ parent \in r.allowedParents \/ ~HasAllowRules(r)
RoomAllowed(r) == info.public \/ Allows(r, info.creator, info.parent)
EventAllowed(r, e) == info.public \/ Allows(r, e.by, e.parent)

(* filterLiveEvents, by place in the file. *)
FilterLiveEvents(s, r, showHidden) ==
    {i \in DOMAIN s : EventAllowed(r, s[i]) /\ (showHidden \/ s[i].kind # "notice") /\ ~s[i].bare}
BlockedLiveEvents(s, r) ==
    {i \in DOMAIN s : ~info.public /\ ~Allows(r, s[i].by, s[i].parent) /\ ~s[i].bare}

Muted(r, e) == e.by \in r.muted \/ e.parent \in r.mutedParents
(* The messages of the sender that are still in the window of message i. *)
InWindow(s, r, recent, i) == {j \in recent : s[j].by = s[i].by /\ s[j].at >= s[i].at - r.window}
OfOthers(s, recent, i) == {j \in recent : s[j].by # s[i].by}
Limited(s, r, i) == s[i].kind = "message" /\ r.limit > 0 /\ r.window > 0
(* applyPublicLiveGuards: per sender at most "limit" messages a window, counted in the
   order of the file; what has left one window is forgotten.  Event i after those before
   it, of which "kept" are shown and "recent" counted. *)
GuardStep(s, r, among, b, i) ==
    LET near == InWindow(s, r, b.recent, i) IN
    IF i \notin among \/ Muted(r, s[i]) THEN b
    ELSE IF ~Limited(s, r, i) THEN [b EXCEPT !.kept = @ \cup {i}]
    ELSE IF Cardinality(near) >= r.limit THEN [b EXCEPT !.recent = OfOthers(s, @, i) \cup near]
    ELSE [kept |-> b.kept \cup {i}, recent |-> OfOthers(s, b.recent, i) \cup near \cup {i}]
Guards(s, r, among) ==
    LET g[i \in 0..Len(s)] == IF i = 0 THEN [kept |-> {}, recent |-> {}]
                              ELSE GuardStep(s, r, among, g[i - 1], i)
    IN g[Len(s)].kept
LimitVisible(among) == {i \in among : Cardinality({j \in among : j > i}) < MaxShown}

(* The events on the page of the room, with no query and with show_all and
   show_heartbeats; none when the room is not found. *)
RoomPage(r, all) ==
    LET filtered == FilterLiveEvents(lines, r, all)
        guarded == IF info.public THEN Guards(lines, r, filtered) ELSE filtered
    IN IF ~RoomAllowed(r) THEN {} ELSE IF all THEN guarded ELSE LimitVisible(guarded)
(* The page says 500 while the rules cannot be read; the interface for programs takes
   them for empty. *)
RulesRead(file) == IF file = Emptied THEN EmptyRules ELSE file
(* Mutant: the page takes rules it cannot read for empty ones. *)
ShowUnread(all) == RoomPage(RulesRead(ruleFile), all)
HandleLiveRoom(all) == IF ruleFile = Emptied THEN {} ELSE RoomPage(ruleFile, all)
HandleAPILiveRoom(all) == RoomPage(RulesRead(ruleFile), all)
PendingRoom(r) == IF RoomAllowed(r) /\ BlockedLiveEvents(lines, r) = {} THEN {} ELSE BlockedLiveEvents(lines, r)
HandleLivePendingRoom == IF ruleFile = Emptied THEN {} ELSE PendingRoom(ruleFile)
HandleAPILivePendingRoom == PendingRoom(RulesRead(ruleFile))
(* The lists of rooms: of those let in, and of those with something that waits.  The list
   for programs leaves nothing out while the rules cannot be read. *)
BuildLivePendingRooms(r) == ~info.public /\ (~RoomAllowed(r) \/ BlockedLiveEvents(lines, r) # {})
HandleLiveIndex == ruleFile # Emptied /\ RoomAllowed(ruleFile)
HandleAPILiveRooms == ruleFile = Emptied \/ RoomAllowed(ruleFile)
HandleLivePendingIndex == ruleFile # Emptied /\ BuildLivePendingRooms(ruleFile)
HandleAPILivePendingRooms == BuildLivePendingRooms(RulesRead(ruleFile))
-----------------------------------------------------------------------------
(* The rules. *)
Answered(u) == asker' = [asker EXCEPT ![u] = Idle]
(* handleLivePublicModerationUpdate: the rules of the file, with what the form sets. *)
SendForm(u, f) ==
    /\ asker[u] = Idle /\ requests < MaxAsked /\ ruleFile # Emptied
    /\ requests' = requests + 1
    /\ asker' = [asker EXCEPT ![u] = [pc |-> "merge", form |-> f, rules |-> ruleFile]]
    /\ UNCHANGED <<info, lines, liveTime, histories, daily, ruleFile, lastRules, promised, liveStops>>
(* mergeLivePublicRules: into what the file holds by now, unless it is empty. *)
MergedRules(u) ==
    LET base == IF ruleFile = Emptied THEN asker[u].rules ELSE ruleFile IN
    [base EXCEPT !.muted = asker[u].form.muted, !.mutedParents = asker[u].form.mutedParents,
                 !.limit = asker[u].form.limit, !.window = asker[u].form.window]
(* saveLivePublicRules reads, and os.WriteFile empties the file before it writes. *)
MergeLivePublicRules(u) ==
    /\ asker[u].pc = "merge" /\ ruleFile' = Emptied
    /\ asker' = [asker EXCEPT ![u] = [pc |-> "write", rules |-> MergedRules(u)]]
    /\ UNCHANGED <<info, lines, liveTime, histories, daily, lastRules, promised, requests, liveStops>>
SaveLivePublicRules(u) ==
    /\ asker[u].pc = "write" /\ ruleFile' = asker[u].rules /\ lastRules' = asker[u].rules /\ Answered(u)
    /\ UNCHANGED <<info, lines, liveTime, histories, daily, promised, requests, liveStops>>
-----------------------------------------------------------------------------
(* The archives. *)
(* archiveDisplayEvents, and the first of them in the file. *)
IsDisplayed(e) == e.kind # "notice"
Displayed == {e \in RangeOf(lines) : IsDisplayed(e)}
FirstPlace == CHOOSE i \in DOMAIN lines : IsDisplayed(lines[i]) /\ \A j \in DOMAIN lines : IsDisplayed(lines[j]) => i <= j
FirstDisplayed == lines[FirstPlace]
(* Mutant: neither end of a window belongs to it. *)
Inside(events, start, end) == {e \in events : start < e.at /\ e.at < end}
(* filterArchiveEventsByWindow. *)
FilterByWindow(events, start, end) == {e \in events : start <= e.at /\ e.at < end}
(* liveArchiveWindowEnd. *)
WindowEnd(t) == (t \div Day) * Day
FirstWindowEnd(at) == IF WindowEnd(at) < at THEN WindowEnd(at) + Day ELSE WindowEnd(at)
DailyID(end) == <<"daily", end>>
ManualID == <<"manual", liveTime>>
Exists(id) == id \in DOMAIN histories
(* saveHistoryArchiveRecord, under the lock: the archive that is there stays. *)
SaveRecord(id, events) ==
    histories' = IF Exists(id) THEN histories
                 ELSE [n \in DOMAIN histories \cup {id} |-> IF n = id THEN events ELSE histories[n]]

OverFor(now) == {e \in Displayed :
                    LET end == WindowEnd(e.at) + Day IN end <= WindowEnd(now) /\ ~Exists(DailyID(end))}
(* EnsureDailyHistoryArchives of the loop: from the window of the first event in the file
   to the last that is over. *)
BeginDaily ==
    LET first == FirstWindowEnd(FirstDisplayed.at) IN
    /\ daily = Idle /\ Displayed # {} /\ first <= WindowEnd(liveTime)
    /\ daily' = [pc |-> "read", next |-> first, last |-> WindowEnd(liveTime), events |-> {}]
    /\ promised' = promised \cup OverFor(liveTime)
    /\ UNCHANGED <<info, lines, liveTime, histories, asker, ruleFile, lastRules, requests, liveStops>>
NextWindow == IF daily.next + Day > daily.last THEN Idle
              ELSE [daily EXCEPT !.pc = "read", !.next = @ + Day, !.events = {}]
(* withHistoryArchive reads the file again; nothing is written for a window without
   events or with an archive. *)
ReadWindow ==
    LET found == FilterByWindow(Displayed, daily.next - Day, daily.next) IN
    /\ daily.pc = "read"
    /\ daily' = IF found = {} \/ Exists(DailyID(daily.next)) THEN NextWindow
                ELSE [daily EXCEPT !.pc = "save", !.events = found]
    /\ UNCHANGED <<info, lines, liveTime, histories, asker, ruleFile, lastRules, promised, requests, liveStops>>
SaveWindow ==
    /\ daily.pc = "save" /\ SaveRecord(DailyID(daily.next), daily.events) /\ daily' = NextWindow
    /\ UNCHANGED <<info, lines, liveTime, asker, ruleFile, lastRules, promised, requests, liveStops>>
(* handleLiveArchiveNow: everything, under a name to the second. *)
AskForArchive(u) ==
    /\ asker[u] = Idle /\ requests < MaxAsked /\ requests' = requests + 1
    /\ Displayed # {} /\ ~Exists(ManualID)
    /\ asker' = [asker EXCEPT ![u] = [pc |-> "archive", id |-> ManualID, events |-> Displayed]]
    /\ UNCHANGED <<info, lines, liveTime, histories, daily, ruleFile, lastRules, promised, liveStops>>
SaveManual(u) ==
    /\ asker[u].pc = "archive" /\ SaveRecord(asker[u].id, asker[u].events) /\ Answered(u)
    /\ UNCHANGED <<info, lines, liveTime, daily, ruleFile, lastRules, promised, requests, liveStops>>
-----------------------------------------------------------------------------
(* Around them: the clock, the events that arrive, and the end of the process. *)
Pass ==
    /\ liveTime < MaxLiveTime /\ liveTime' = liveTime + 1
    /\ UNCHANGED <<info, lines, histories, daily, asker, ruleFile, lastRules, promised, requests, liveStops>>
AppendLine(e) ==
    /\ e.at <= liveTime /\ e \notin RangeOf(lines) /\ lines' = Append(lines, e)
    /\ UNCHANGED <<info, liveTime, histories, daily, asker, ruleFile, lastRules, promised, requests, liveStops>>
ArchivedDaily == UNION {histories[id] : id \in {d \in DOMAIN histories : d[1] = "daily"}}
StopPlugin ==
    /\ liveStops < MaxLiveStops /\ liveStops' = liveStops + 1
    /\ daily' = Idle /\ asker' = [u \in Askers |-> Idle]
    /\ daily # Idle \/ \E u \in Askers : asker[u] # Idle
    /\ promised' = promised \cap ArchivedDaily
    /\ UNCHANGED <<info, lines, liveTime, histories, ruleFile, lastRules, requests>>

HistoryNext ==
    \/ Pass \/ StopPlugin \/ BeginDaily \/ ReadWindow \/ SaveWindow
    \/ \E e \in Lines : AppendLine(e)
    \/ \E u \in Askers :
          \/ MergeLivePublicRules(u) \/ SaveLivePublicRules(u) \/ AskForArchive(u) \/ SaveManual(u)
          \/ \E f \in LiveForms : SendForm(u, f)
HistorySpec == HistoryInit /\ [][HistoryNext]_historyvars
-----------------------------------------------------------------------------
HistoryTypeOK ==
    /\ RangeOf(lines) \subseteq Lines /\ promised \subseteq Lines
    /\ \A id \in DOMAIN histories : id[1] \in {"daily", "manual"} /\ histories[id] \subseteq RangeOf(lines)
    /\ \A u \in Askers : asker[u].pc \in {"idle", "merge", "write", "archive"}

(* An event that was in the file, in a window that was over, when the daily loop started,
   is in the archive of its window when the loop is done, however events arrive, people
   archive and the process stops in between, and no event is in two daily archives.
   Two kinds of events have no such promise, and never get into a daily archive: those
   that arrive after the archive of their window is there, and those stamped before the
   window of the first line of the file (live/store.go:717, 766, 940). *)
FirstStart == FirstWindowEnd(FirstDisplayed.at) - Day
DailyArchivesComplete ==
    /\ daily = Idle => \A e \in promised : e.at >= FirstStart => e \in ArchivedDaily
    /\ \A a, b \in DOMAIN histories :
           a[1] = "daily" /\ b[1] = "daily" /\ a # b => histories[a] \cap histories[b] = {}

(* As long as the messages of a sender are in the file in the order of their stamps, no
   stretch of the length of the window shows more of them than the limit, on a page or to
   a program, whatever other events are between them (aip2plive/handler.go:1252). *)
InOrder(k) == \A i, j \in DOMAIN lines : lines[i].by = k /\ lines[j].by = k /\ i < j => lines[i].at <= lines[j].at
Messages(k, among) == {i \in among : lines[i].by = k /\ lines[i].kind = "message"}
RateHolds ==
    LET r == ruleFile IN
    r # Emptied /\ info.public /\ r.limit > 0 /\ r.window > 0 =>
        \A k \in {e.by : e \in RangeOf(lines)} : InOrder(k) =>
            \A i \in Messages(k, HandleAPILiveRoom(TRUE)) :
                Cardinality({j \in Messages(k, HandleAPILiveRoom(TRUE)) :
                                lines[j].at \in (lines[i].at - r.window)..lines[i].at}) <= r.limit

(* While the rules are being rewritten, and after a stop that left the file empty, the
   pages show no room and nothing of one that the rules last in the file hide; what they
   do not show of a room waits on its pending page, and the room is in the list of those
   that wait.  The interface for programs shows what the pages show while the file can be
   read, and while it cannot it hides nothing (aip2plive/handler.go:181, 555, 761, 826). *)
BlockedStaysHidden ==
    /\ HandleLiveIndex => RoomAllowed(lastRules)
    /\ HandleLiveRoom(TRUE) \subseteq RoomPage(lastRules, TRUE)
    /\ ruleFile # Emptied =>
           /\ HandleLiveIndex = HandleAPILiveRooms /\ HandleLivePendingIndex = HandleAPILivePendingRooms
           /\ HandleLiveRoom(TRUE) = HandleAPILiveRoom(TRUE) /\ HandleLivePendingRoom = HandleAPILivePendingRoom
           /\ (\E i \in DOMAIN lines : ~info.public /\ ~lines[i].bare /\ i \notin HandleLiveRoom(TRUE))
              => HandleLivePendingIndex
    /\ ruleFile # Emptied /\ ~info.public /\ RoomAllowed(ruleFile) =>
           HandleLiveRoom(TRUE) \cup HandleLivePendingRoom = {i \in DOMAIN lines : ~lines[i].bare}

(* What the pages show of a room is what its rules let through. *)
PagesObeyRules == RateHolds /\ BlockedStaysHidden
=============================================================================

----------------------------- MODULE TeamFiles -----------------------------
(***************************************************************************)
(* The files of a team besides its tasks: members, policy, channels,       *)
(* messages, history and archives (internal/aip2p/team/store.go and        *)
(* archive.go), and the pages that change them (plugins/aip2pteam).        *)
(* Writers hold the lock of the team; loads do not.  A file is written in  *)
(* place: emptied first and filled next, so a load in between, or after a  *)
(* process stopped there, finds it empty.                                  *)
(***************************************************************************)
EXTENDS Naturals, FiniteSets, Sequences

CONSTANTS
    Agents, Channels,
    FileUsers,        \* requests that run at a time, in one process or several
    MaxFileRequests,  \* bound: requests begun
    MaxFileStops      \* bound: processes that stop

Unheld == "unheld"
ASSUME FileConstants ==
    /\ MaxFileRequests \in Nat /\ MaxFileStops \in Nat
    /\ Unheld \notin FileUsers

VARIABLES
    members,    \* members.json: its form and, when last whole, the status of each agent
    rules,      \* policy.json: its form, and whether messages must be signed
    channels,   \* channels.json: its form, and how each channel is shown
    chat,       \* messages in channels/*.jsonl: number and whether signed
    history,    \* numbers of the messages history.jsonl has an event of
    snapshot,   \* the last archive: messages and events
    fileLock,   \* who holds the lock of the team
    user,       \* what each request does
    fileRequests, fileStops

filevars == <<members, rules, channels, chat, history, snapshot, fileLock, user, fileRequests, fileStops>>

MemberStatuses == {"active", "pending", "muted", "removed"}
NoTask == [op |-> "none", pc |-> "idle", agents |-> {}, agent |-> "", to |-> "", list |-> <<>>,
           since |-> {}, signed |-> FALSE, number |-> 0, seen |-> {}, events |-> {}]
NoMembers == [a \in Agents |-> "absent"]

FilesInit ==
    /\ \E l \in [Agents -> {"active", "absent"}] :
         members = [form |-> IF l = NoMembers THEN "none" ELSE "whole", list |-> l]
    /\ rules = [form |-> "none", signed |-> FALSE]
    /\ channels = [form |-> "none", list |-> [c \in Channels |-> "shown"]]
    /\ chat = {} /\ history = {} /\ snapshot = [messages |-> {}, events |-> {}]
    /\ fileLock = Unheld /\ user = [u \in FileUsers |-> NoTask]
    /\ fileRequests = 0 /\ fileStops = 0

(* LoadMembers fails on an empty file and finds nobody where there is none. *)
Readable(f) == f.form # "empty"
Goes(u, pc) == user' = [user EXCEPT ![u].pc = pc]
Done(u) == user' = [user EXCEPT ![u] = NoTask]
Content == <<members, rules, channels, chat, history, snapshot>>
Quiet == UNCHANGED <<fileRequests, fileStops>>
-----------------------------------------------------------------------------
(* A page decodes its request and asks requireTeamAction, which reads members and policy
   and refuses when it cannot, or when the role of the actor does not allow the action. *)
BeginFile(u, task) ==
    /\ user[u].pc = "idle" /\ fileRequests < MaxFileRequests /\ fileRequests' = fileRequests + 1
    /\ Readable(members) /\ Readable(rules)
    /\ user' = [user EXCEPT ![u] = [task EXCEPT !.number = fileRequests']]
    /\ UNCHANGED <<Content, fileLock, fileStops>>

(* handleTeamMemberUpdate and its API: a status for one agent, who may be new. *)
MemberUpdate(u) ==
    \E a \in Agents, s \in {"active", "pending"} :
        BeginFile(u, [NoTask EXCEPT !.op = "upsert", !.pc = "load", !.agents = {a}, !.to = s])
(* handleTeamMemberAction: a transition of one member; normalizeMemberAction names it. *)
MemberAction(u) ==
    \E a \in Agents, s \in {"muted", "removed"} :
        BeginFile(u, [NoTask EXCEPT !.op = "action", !.pc = "load", !.agents = {a}, !.to = s])
(* handleTeamMemberBulkAction: the same for several, one after the other. *)
MemberBulkAction(u) ==
    \E s \in {"muted"} :
        BeginFile(u, [NoTask EXCEPT !.op = "bulk", !.pc = "load", !.agents = Agents, !.to = s])
PolicyUpdate(u) ==
    \E b \in BOOLEAN : BeginFile(u, [NoTask EXCEPT !.op = "policy", !.pc = "open", !.signed = b])
(* A channel is created, updated or hidden; only how it is shown is modelled. *)
ChannelSave(u) ==
    \E c \in Channels, s \in {"shown", "hidden"} :
        BeginFile(u, [NoTask EXCEPT !.op = "channel", !.pc = "open", !.agent = c, !.to = s])
MessageCreate(u) ==
    \E b \in BOOLEAN : BeginFile(u, [NoTask EXCEPT !.op = "message", !.pc = "lock", !.signed = b])
ArchiveCreate(u) == BeginFile(u, [NoTask EXCEPT !.op = "archive", !.pc = "snap"])
-----------------------------------------------------------------------------
(* Mutant: an emptied file is read as a team without members. *)
LoadListEmptyAsNobody(u) ==
    /\ user[u].pc = "load" /\ UNCHANGED <<Content, fileLock>> /\ Quiet
    /\ \E a \in user[u].agents :
        LET rest == user[u].agents \ {a}
            list == IF Readable(members) THEN members.list ELSE NoMembers IN
        IF user[u].op # "upsert" /\ list[a] = "absent"
        THEN IF rest = {} THEN Done(u) ELSE user' = [user EXCEPT ![u].agents = rest]
        ELSE user' = [user EXCEPT ![u].pc = "open", ![u].agents = rest, ![u].agent = a, ![u].since = {},
                                  ![u].list = [list EXCEPT ![a] = user[u].to]]
(* upsertTeamMember and applyTeamMemberAction load the list, change it and save it whole;
   an action on somebody who is not a member ends, or goes on with the next of a bulk. *)
LoadList(u) ==
    /\ user[u].pc = "load" /\ UNCHANGED <<Content, fileLock>> /\ Quiet
    /\ \E a \in user[u].agents :
        LET rest == user[u].agents \ {a} IN
        IF ~Readable(members) THEN Done(u)
        ELSE IF user[u].op # "upsert" /\ members.list[a] = "absent"
        THEN IF rest = {} THEN Done(u) ELSE user' = [user EXCEPT ![u].agents = rest]
        ELSE user' = [user EXCEPT ![u].pc = "open", ![u].agents = rest, ![u].agent = a, ![u].since = {},
                                  ![u].list = [members.list EXCEPT ![a] = user[u].to]]

(* Save*: take the lock, empty the file (channels.json is read again first) ... *)
OpenFile(u) ==
    /\ user[u].pc = "open" /\ fileLock = Unheld /\ fileLock' = u
    /\ UNCHANGED <<chat, history, snapshot>> /\ Quiet
    /\ user[u].op \in {"upsert", "action", "bulk"} =>
         members' = [members EXCEPT !.form = "empty"] /\ UNCHANGED <<rules, channels>>
    /\ user[u].op = "policy" => rules' = [rules EXCEPT !.form = "empty"] /\ UNCHANGED <<members, channels>>
    /\ user[u].op = "channel" =>
         /\ UNCHANGED <<members, rules>>
         /\ channels' = [form |-> "empty", list |-> IF channels.form = "whole" THEN channels.list
                                                   ELSE [c \in Channels |-> "shown"]]
    /\ Goes(u, "fill")
(* ... and fill it, give the lock back. *)
SaveChannel(c, shown) == channels' = [form |-> "whole", list |-> [channels.list EXCEPT ![c] = shown]]
Changed(old, new) == {a \in DOMAIN old : old[a] # new[a]}
FillFile(u) ==
    /\ user[u].pc = "fill" /\ fileLock' = Unheld /\ UNCHANGED <<chat, history, snapshot>> /\ Quiet
    /\ user[u].op \in {"upsert", "action", "bulk"} =>
         /\ members' = [form |-> "whole", list |-> user[u].list] /\ UNCHANGED <<rules, channels>>
         /\ user' = [v \in FileUsers |->
               IF v = u THEN [user[u] EXCEPT !.pc = "log"]
               ELSE [user[v] EXCEPT !.since = @ \cup Changed(members.list, user[u].list)]]
    /\ user[u].op = "policy" =>
         /\ rules' = [form |-> "whole", signed |-> user[u].signed] /\ UNCHANGED <<members, channels>>
         /\ Goes(u, "log")
    /\ user[u].op = "channel" =>
         SaveChannel(user[u].agent, user[u].to) /\ UNCHANGED <<members, rules>> /\ Goes(u, "log")
(* Mutant: the policy is read before the lock is taken. *)
CheckUnlocked(u) ==
    /\ user[u].pc = "lock" /\ UNCHANGED <<Content, fileLock>> /\ Quiet
    /\ IF Readable(rules) /\ (rules.signed => user[u].signed) THEN Goes(u, "append") ELSE Done(u)
(* AppendMessage: the policy is read and the message is checked and written under the lock. *)
CheckMessage(u) ==
    /\ user[u].pc = "lock" /\ fileLock = Unheld /\ UNCHANGED Content /\ Quiet
    /\ IF Readable(rules) /\ (rules.signed => user[u].signed)
       THEN fileLock' = u /\ Goes(u, "append")
       ELSE fileLock' = Unheld /\ Done(u)
AppendMessage(u) ==
    /\ user[u].pc = "append" /\ fileLock' = Unheld /\ Goes(u, "log") /\ Quiet
    /\ chat' = chat \cup {[number |-> user[u].number, signed |-> user[u].signed]}
    /\ UNCHANGED <<members, rules, channels, history, snapshot>>

(* AppendHistory takes the lock again; its failure is ignored.  A bulk action goes on. *)
NextMember(u) == IF user[u].agents # {} THEN Goes(u, "load") ELSE Done(u)
AppendHistory(u) ==
    /\ user[u].pc = "log" /\ fileLock = Unheld /\ NextMember(u) /\ Quiet
    /\ history' = IF user[u].op = "message" THEN history \cup {user[u].number} ELSE history
    /\ UNCHANGED <<members, rules, channels, chat, snapshot, fileLock>>
LoadMessages == {m.number : m \in chat}
(* Mutant: the archive is made without the lock. *)
SnapUnlocked(u) ==
    /\ user[u].pc = "snap" /\ UNCHANGED <<Content, fileLock>> /\ Quiet
    /\ IF Readable(rules) /\ Readable(members)
       THEN user' = [user EXCEPT ![u].pc = "events", ![u].seen = LoadMessages]
       ELSE Done(u)
(* CreateManualArchive reads one file after the other under the lock; it fails when one
   cannot be read.  An archive of the same second is overwritten. *)
SnapStarts(u) ==
    /\ user[u].pc = "snap" /\ fileLock = Unheld /\ UNCHANGED Content /\ Quiet
    /\ IF Readable(rules) /\ Readable(members)
       THEN fileLock' = u /\ user' = [user EXCEPT ![u].pc = "events", ![u].seen = LoadMessages]
       ELSE fileLock' = Unheld /\ Done(u)
SnapEvents(u) ==
    /\ user[u].pc = "events" /\ UNCHANGED <<Content, fileLock>> /\ Quiet
    /\ user' = [user EXCEPT ![u].pc = "keep", ![u].events = history]
SnapSaved(u) ==
    /\ user[u].pc = "keep" /\ fileLock' = Unheld /\ Done(u) /\ Quiet
    /\ snapshot' = [messages |-> user[u].seen, events |-> user[u].events]
    /\ UNCHANGED <<members, rules, channels, chat, history>>
-----------------------------------------------------------------------------
(* withTeamLock gives up after 10 s: a save or an append fails, an event is left out. *)
LockTimesOut(u) ==
    /\ user[u].pc \in {"open", "lock", "snap", "log"} /\ fileLock \notin {Unheld, u}
    /\ IF user[u].pc = "log" THEN NextMember(u) ELSE Done(u)
    /\ UNCHANGED <<Content, fileLock>> /\ Quiet
(* The process of a request stops; the system gives its lock back. *)
StopUser(u) ==
    /\ user[u].pc # "idle" /\ fileStops < MaxFileStops /\ fileStops' = fileStops + 1
    /\ Done(u) /\ fileLock' = (IF fileLock = u THEN Unheld ELSE fileLock)
    /\ UNCHANGED <<Content, fileRequests>>

MemberPages(u) == MemberUpdate(u) \/ MemberAction(u) \/ MemberBulkAction(u) \/ LoadList(u)
SavePages(u) == PolicyUpdate(u) \/ ChannelSave(u) \/ OpenFile(u) \/ FillFile(u)
MessagePages(u) == MessageCreate(u) \/ CheckMessage(u) \/ AppendMessage(u) \/ AppendHistory(u)
ArchivePages(u) == ArchiveCreate(u) \/ SnapStarts(u) \/ SnapEvents(u) \/ SnapSaved(u)
FilesNext == \E u \in FileUsers : \/ MemberPages(u) \/ SavePages(u) \/ MessagePages(u)
                                  \/ ArchivePages(u) \/ LockTimesOut(u) \/ StopUser(u)
FilesSpec == FilesInit /\ [][FilesNext]_filevars
-----------------------------------------------------------------------------
Forms == {"none", "empty", "whole"}
FilesTypeOK ==
    /\ members \in [form : Forms, list : [Agents -> MemberStatuses \cup {"absent"}]]
    /\ rules \in [form : Forms, signed : BOOLEAN]
    /\ channels \in [form : Forms, list : [Channels -> {"shown", "hidden"}]]
    /\ history \subseteq 1..MaxFileRequests /\ fileLock \in FileUsers \cup {Unheld}

(* A request that saves the list of members leaves alone what others changed before it
   loaded the list: the status of another member only goes back to an older one when it
   was changed in between (upsertTeamMemberCtx and applyTeamMemberActionCtx load the list
   outside the lock and save it whole, and a load may find the file just emptied). *)
NoLateUndo ==
    [][\A u \in FileUsers : user[u].pc = "fill" /\ members' # members =>
         Changed(members.list, members'.list) \subseteq {user[u].agent} \cup user[u].since]_filevars

(* An archive is a consistent cut: it has every message its history tells of, whatever
   was written while it was made (createManualArchiveNoCtx reads messages before history). *)
ArchiveIsCausal == snapshot.events \subseteq snapshot.messages

(* A message is stored only while the policy of that moment admits it, so once a policy
   that requires signatures is saved no unsigned message follows (appendMessageNoCtx). *)
StoredUnderPolicy ==
    [][\A m \in chat' \ chat : Readable(rules) /\ (rules.signed => m.signed)]_filevars
=============================================================================

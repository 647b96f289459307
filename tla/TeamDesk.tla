------------------------------ MODULE TeamDesk ------------------------------
(***************************************************************************)
(* The web handlers that work on the tasks and artifacts of one team       *)
(* (internal/plugins/aip2pteam): the task pages, their API and A2A forms,  *)
(* and the six room plugins.  Every handler runs in a goroutine of its     *)
(* own; the store locks the team around a single append, save or delete,   *)
(* never around the load a handler made before it.                         *)
(*                                                                         *)
(* The channel is used with one room, "room", chosen at the start; the     *)
(* review room has one thread.  All actors have one role, so a policy is   *)
(* the set of actions that role may take and the transition rules.         *)
(***************************************************************************)
EXTENDS Naturals, Sequences, FiniteSets

CONSTANTS
    Workers,         \* handlers that run at a time
    Policies,        \* the policies an owner may save
    ArtifactWindow,  \* 200: the newest artifacts LoadArtifacts returns to a room
    MaxPosts,        \* bound: messages posted, by room
    MaxRequests      \* bound: requests begun, by room

ASSUME DeskConstants ==
    /\ ArtifactWindow \in Nat \ {0}

VARIABLES
    room,      \* the room plugin the channel is used with
    msgs,      \* the room's messages, oldest first: kind and structured task_id (0: none)
    tasks,     \* the status of every task ever created, "deleted" after a delete
    recent,    \* the tasks that exist, most recently updated first
    arts,      \* artifacts distilled from the room: message, thread label, task
    policy,    \* the team policy
    req,       \* what each worker does
    requests   \* requests begun

deskvars == <<room, msgs, tasks, recent, arts, policy, req, requests>>

Statuses == {"open", "doing", "blocked", "review", "done", "failed", "cancelled", "rejected"}
Terminal == {"done", "failed", "cancelled", "rejected"}
Actions == {"message.send", "task.create", "task.update", "task.transition", "task.delete", "artifact.create"}

Kinds == [incident |-> {"incident", "update", "recovery"}, handoff |-> {"handoff", "checkpoint", "accept"},
          artifact |-> {"proposal", "revision", "publish"}, decision |-> {"proposal", "option", "decision"},
          review |-> {"review", "risk", "decision"}, plan |-> {"plan", "skill", "snippet"}]
(* The kind that ends an item: its task is done and a batch distils it. *)
Final == [incident |-> "recovery", handoff |-> "accept", artifact |-> "publish", decision |-> "decision"]

(* incidentRoomSuggestedTaskStatus and the functions of that name in the other rooms. *)
Suggested(kind) == IF kind = Final[room] THEN "done"
                   ELSE IF kind = "incident" THEN "blocked" ELSE "doing"
-----------------------------------------------------------------------------
(* IsValidTransition, and the rules of a policy that replace it for some statuses. *)
Default == [doing |-> {"blocked", "review", "done", "failed", "cancelled"},
            blocked |-> {"doing", "cancelled", "failed"},
            review |-> {"doing", "done", "rejected", "cancelled"}]
Moves(from) == IF from \in {"", "open"} THEN Statuses
               ELSE IF from \in Terminal THEN {} ELSE Default[from]
LegalMove(from, to) ==
    \/ from = to
    \/ to \in IF from \in DOMAIN policy.rules THEN policy.rules[from] ELSE Moves(from)

Allowed(action) == action \in policy.allowed

(* withTeamLock around the append, the save and the delete of a task. *)
Touched(t) == <<t>> \o SelectSeq(recent, LAMBDA u : u # t)
CanAppend(s) == LegalMove("", s)
AppendTask(s) == tasks' = Append(tasks, s) /\ recent' = <<Len(tasks) + 1>> \o recent
(* Mutant: the save checks what the handler checked, that the task is there. *)
SavesAnyStatus(t, s) == tasks[t] # "deleted"

CanSave(t, s) == tasks[t] # "deleted" /\ LegalMove(tasks[t], s)
SaveTask(t, s) == tasks' = [tasks EXCEPT ![t] = s] /\ recent' = Touched(t)
DeleteTask(t) == tasks' = [tasks EXCEPT ![t] = "deleted"]
                 /\ recent' = SelectSeq(recent, LAMBDA u : u # t)
-----------------------------------------------------------------------------
(* The artifacts a room sees, by their place in arts. *)
AppendArtifact(i, thread, t) == arts' = Append(arts, [msg |-> i, thread |-> thread, task |-> t])
Window == {k \in DOMAIN arts : k + ArtifactWindow > Len(arts)}
Distilled(i) == \E k \in Window : arts[k].msg = i
ThreadArtifacts == {k \in Window : arts[k].thread}

(* The review thread: reviewRoomSuggestedTaskStatus and the bound task, of the newest
   card that names one, or else of the newest artifact of the thread. *)
Cards(kind) == {i \in DOMAIN msgs : msgs[i].kind = kind}
Newest(s) == CHOOSE i \in s : \A j \in s : j <= i
ThreadStatus ==
    IF \E i \in Cards("risk") : ~Distilled(i) THEN "blocked"
    ELSE IF \E i \in Cards("review") : ~Distilled(i) THEN "doing"
    ELSE IF Cards("decision") # {} /\ \E i \in DOMAIN msgs : Distilled(i) THEN "done"
    ELSE IF Cards("decision") \cup Cards("review") # {} THEN "doing"
    ELSE ""
BoundCards == {i \in DOMAIN msgs : msgs[i].task # 0}
ArtifactTask == IF ThreadArtifacts = {} THEN 0 ELSE arts[Newest(ThreadArtifacts)].task
BoundTask == IF BoundCards # {} THEN msgs[Newest(BoundCards)].task ELSE ArtifactTask
Either(t, u) == IF t # 0 THEN t ELSE u
-----------------------------------------------------------------------------
NoRequest == [op |-> "idle", pc |-> "idle", todo |-> <<>>, task |-> 0, status |-> "", seen |-> 0]

DeskInit ==
    /\ room \in DOMAIN Kinds
    /\ policy \in Policies
    /\ msgs = <<>> /\ tasks = <<>> /\ recent = <<>> /\ arts = <<>>
    /\ req = [w \in Workers |-> NoRequest] /\ requests = 0

Goto(w, pc) == req' = [req EXCEPT ![w].pc = pc]
Same == UNCHANGED <<room, msgs, policy, requests>>
OnlyReq == Same /\ UNCHANGED <<tasks, recent, arts>>
TasksOnly == Same /\ UNCHANGED arts

(* A message of the room, with the task id its author put into it. *)
PostRoomMessage(kind, t) ==
    /\ Len(msgs) < MaxPosts[room] /\ Allowed("message.send")
    /\ msgs' = Append(msgs, [kind |-> kind, task |-> t])
    /\ UNCHANGED <<room, tasks, recent, arts, policy, req, requests>>
IncidentPost == room = "incident" /\ \E k \in Kinds["incident"], t \in 0..Len(tasks) : PostRoomMessage(k, t)
HandoffPost == room = "handoff" /\ \E k \in Kinds["handoff"], t \in 0..Len(tasks) : PostRoomMessage(k, t)
ArtifactPost == room = "artifact" /\ \E k \in Kinds["artifact"], t \in 0..Len(tasks) : PostRoomMessage(k, t)
DecisionPost == room = "decision" /\ \E k \in Kinds["decision"], t \in 0..Len(tasks) : PostRoomMessage(k, t)
ReviewPost == room = "review" /\ \E k \in Kinds["review"], t \in 0..Len(tasks) : PostRoomMessage(k, t)
PlanPost == room = "plan" /\ \E k \in Kinds["plan"] : PostRoomMessage(k, 0)

(* The policy page and its API. *)
SavePolicy(p) ==
    /\ p # policy /\ policy' = p
    /\ UNCHANGED <<room, msgs, tasks, recent, arts, req, requests>>

(* POST /tasks, of a page or the API: a task of any status. *)
AddTask(s) == Allowed("task.create") /\ CanAppend(s) /\ AppendTask(s)
TaskCreate(s) ==
    /\ requests < MaxRequests[room] /\ requests' = requests + 1 /\ AddTask(s)
    /\ UNCHANGED <<room, msgs, arts, policy, req>>

(* A request starts on messages ms, newest first. *)
BeginRequest(w, op, pc, ms, t, s) ==
    /\ req[w] = NoRequest /\ requests < MaxRequests[room] /\ requests' = requests + 1
    /\ req' = [req EXCEPT ![w] = [op |-> op, pc |-> pc, todo |-> ms, task |-> t, status |-> s,
                                   seen |-> Len(arts)]]
    /\ UNCHANGED <<room, msgs, tasks, recent, arts, policy>>
-----------------------------------------------------------------------------
(* The task pages and their API: the task is loaded, the actor checked, and only then
   saved. *)
Change(w, action, t, s) == Allowed(action) /\ tasks[t] # "deleted" /\ BeginRequest(w, "page", "save", <<>>, t, s)
TaskStatus(w) == \E t \in DOMAIN tasks, s \in Statuses : Change(w, "task.transition", t, s)
TaskUpdate(w) == \E t \in DOMAIN tasks, s \in Statuses : Change(w, "task.update", t, s)
A2ATaskCancel(w) == \E t \in DOMAIN tasks : Change(w, "task.transition", t, "cancelled")
TaskDelete(w) == \E t \in DOMAIN tasks : /\ Allowed("task.delete") /\ tasks[t] # "deleted"
                                          /\ BeginRequest(w, "page", "delete", <<>>, t, "")
SavePage(w) ==
    LET t == req[w].task  s == req[w].status IN
    /\ req[w].pc = "save" /\ req[w].op = "page" /\ req' = [req EXCEPT ![w] = NoRequest]
    /\ IF CanSave(t, s) THEN SaveTask(t, s) ELSE UNCHANGED <<tasks, recent>>
    /\ TasksOnly
DeleteLoaded(w) ==
    /\ req[w].pc = "delete"
    /\ IF tasks[req[w].task] # "deleted" THEN DeleteTask(req[w].task) ELSE UNCHANGED <<tasks, recent>>
    /\ req' = [req EXCEPT ![w] = NoRequest]
    /\ TasksOnly

(* The end of an item: the next one of the batch, or the response. *)
NextItem(w) ==
    LET rest == Tail(req[w].todo)  next == Head(rest) IN
    req' = [req EXCEPT ![w] =
        IF rest = <<>> THEN [@ EXCEPT !.todo = <<>>, !.pc = "synced"]
        ELSE [@ EXCEPT !.todo = rest, !.pc = "task", !.task = msgs[next].task,
                       !.status = Suggested(msgs[next].kind)]]
(* An item that failed: a batch goes on with the next, any other request answers. *)
FailItem(w) == IF req[w].op = "batch" THEN NextItem(w) ELSE req' = [req EXCEPT ![w] = NoRequest]
Respond(w) == req[w].pc = "synced" /\ req' = [req EXCEPT ![w] = NoRequest] /\ OnlyReq

(* POST .../task-sync and .../task-sync-all of the four item rooms. *)
Item(w, i) == \E t \in 0..Len(tasks) :
    BeginRequest(w, "sync", "task", <<i>>, Either(t, msgs[i].task), Suggested(msgs[i].kind))
Backwards == [k \in DOMAIN msgs |-> Len(msgs) + 1 - k]
Batch(w) ==
    /\ msgs # <<>> /\ req[w] = NoRequest /\ requests < MaxRequests[room] /\ requests' = requests + 1
    /\ req' = [req EXCEPT ![w] =
        [op |-> "batch", pc |-> "task", todo |-> Backwards, task |-> msgs[Len(msgs)].task,
         status |-> Suggested(msgs[Len(msgs)].kind), seen |-> Len(arts)]]
    /\ UNCHANGED <<room, msgs, tasks, recent, arts, policy>>
IncidentSync(w) == room = "incident" /\ \E i \in DOMAIN msgs : Item(w, i)
HandoffSync(w) == room = "handoff" /\ \E i \in DOMAIN msgs : Item(w, i)
ArtifactSync(w) == room = "artifact" /\ \E i \in DOMAIN msgs : Item(w, i)
DecisionSync(w) == room = "decision" /\ \E i \in DOMAIN msgs : Item(w, i)
IncidentSyncAll(w) == room = "incident" /\ Batch(w)
HandoffSyncAll(w) == room = "handoff" /\ Batch(w)
ArtifactSyncAll(w) == room = "artifact" /\ Batch(w)
DecisionSyncAll(w) == room = "decision" /\ Batch(w)
-----------------------------------------------------------------------------
(* syncIncidentRoomTask and its twins, and the same steps of syncReviewRoomThread.
   An unbound item gets a task of its own ... *)
CreateBound(w) ==
    LET s == IF req[w].status = "" THEN "open" ELSE req[w].status IN
    /\ req[w].pc = "task" /\ req[w].task = 0
    /\ IF Allowed("task.create") /\ CanAppend(s)
       THEN AppendTask(s) /\ Goto(w, "pick")
       ELSE FailItem(w) /\ UNCHANGED <<tasks, recent>>
    /\ TasksOnly

(* ... whose id is that of the task updated last, when the list is read back. *)
Pick(w) ==
    /\ req[w].pc = "pick"
    /\ IF recent = <<>> THEN FailItem(w)
       ELSE req' = [req EXCEPT ![w].task = recent[1], ![w].pc = "task"]
    /\ OnlyReq

(* The item is done: a batch distils its final messages, a thread its decision. *)
Synced(w) ==
    IF req[w].op = "thread"
    THEN IF Allowed("artifact.create") THEN Goto(w, "lookThread") ELSE FailItem(w)
    ELSE IF req[w].op = "batch" /\ msgs[Head(req[w].todo)].kind = Final[room]
    THEN Goto(w, "look") ELSE NextItem(w)

(* The bound task is loaded; one that has the status already is not saved. *)
LoadBound(w) ==
    LET t == req[w].task  s == req[w].status IN
    /\ req[w].pc = "task" /\ t # 0
    /\ IF s = "" THEN Synced(w)
       ELSE IF ~Allowed("task.update") \/ tasks[t] = "deleted" THEN FailItem(w)
       ELSE IF tasks[t] = s THEN Synced(w)
       ELSE Goto(w, "save")
    /\ OnlyReq

SaveLoaded(w) ==
    LET t == req[w].task  s == req[w].status IN
    /\ req[w].pc = "save" /\ req[w].op # "page"
    /\ IF CanSave(t, s) THEN SaveTask(t, s) /\ Synced(w) ELSE FailItem(w) /\ UNCHANGED <<tasks, recent>>
    /\ TasksOnly

(* The rooms have a copy of this each. *)
SyncTask(w) == CreateBound(w) \/ Pick(w) \/ LoadBound(w) \/ SaveLoaded(w)
SyncIncidentRoomTask(w) == room = "incident" /\ SyncTask(w)
SyncHandoffRoomTask(w) == room = "handoff" /\ SyncTask(w)
SyncArtifactRoomTask(w) == room = "artifact" /\ SyncTask(w)
SyncDecisionRoomTask(w) == room = "decision" /\ SyncTask(w)
-----------------------------------------------------------------------------
(* ensureIncidentRoomArtifact and its twins look for the artifact of the message among
   the newest ones and append it when there is none. *)
Distil(w, i) == Allowed("artifact.create") /\ BeginRequest(w, "distil", "look", <<i>>, 0, "")
IncidentDistil(w) == room = "incident" /\ \E i \in DOMAIN msgs : Distil(w, i)
HandoffDistil(w) == room = "handoff" /\ \E i \in DOMAIN msgs : Distil(w, i)
ArtifactDistil(w) == room = "artifact" /\ \E i \in DOMAIN msgs : Distil(w, i)
DecisionDistil(w) == room = "decision" /\ \E i \in DOMAIN msgs : Distil(w, i)
(* Mutant: the artifacts are not looked at. *)
LookNowhere(w) == req[w].pc = "look" /\ Goto(w, "add") /\ OnlyReq

LookForArtifact(w) ==
    /\ req[w].pc = "look"
    /\ IF Distilled(Head(req[w].todo)) THEN NextItem(w) ELSE Goto(w, "add")
    /\ OnlyReq

AddArtifact(w) ==
    LET i == Head(req[w].todo) IN
    /\ req[w].pc = "add"
    /\ AppendArtifact(i, FALSE, msgs[i].task)
    /\ NextItem(w)
    /\ Same /\ UNCHANGED <<tasks, recent>>

EnsureArtifact(w) == LookForArtifact(w) \/ AddArtifact(w)
EnsureIncidentRoomArtifact(w) == room = "incident" /\ EnsureArtifact(w)
EnsureHandoffRoomArtifact(w) == room = "handoff" /\ EnsureArtifact(w)
EnsureArtifactRoomArtifact(w) == room = "artifact" /\ EnsureArtifact(w)
EnsureDecisionRoomArtifact(w) == room = "decision" /\ EnsureArtifact(w)

(* The distillation of a review card or a skill appends without looking. *)
Copy(i) ==
    /\ requests < MaxRequests[room] /\ requests' = requests + 1
    /\ Allowed("artifact.create")
    /\ AppendArtifact(i, FALSE, 0)
    /\ UNCHANGED <<room, msgs, tasks, recent, policy, req>>
ReviewDistil == room = "review" /\ \E i \in DOMAIN msgs : Copy(i)
SkillDistil == room = "plan" /\ \E i \in Cards("skill") : Copy(i)
-----------------------------------------------------------------------------
(* The review thread: sync, batch sync (which passes the bound task it read for the
   page), a status chosen by hand, and an artifact of the thread. *)
ThreadSync(w) == room = "review" /\ msgs # <<>> /\ \E t \in 0..Len(tasks) :
    BeginRequest(w, "thread", "thread", <<>>, t, "")
ThreadSyncAll(w) == room = "review" /\ msgs # <<>> /\ BeginRequest(w, "thread", "thread", <<>>, BoundTask, "")
ReadThread(w) ==
    /\ req[w].pc = "thread"
    /\ req' = [req EXCEPT ![w].task = Either(@, BoundTask), ![w].status = ThreadStatus, ![w].pc = "task"]
    /\ OnlyReq
ThreadTask(w) ==
    /\ room = "review" /\ msgs # <<>> /\ Allowed("task.update")
    /\ \E t \in DOMAIN tasks \cup {BoundTask}, s \in {"open", "doing", "blocked", "done"} :
          t # 0 /\ tasks[t] # "deleted" /\ BeginRequest(w, "page", "save", <<>>, t, s)
ThreadArtifact(w) ==
    /\ room = "review" /\ msgs # <<>> /\ Allowed("artifact.create")
    /\ \E t \in 0..Len(tasks) : BeginRequest(w, "distil", "lookThread", <<>>, t, "")

(* ensureReviewRoomThreadArtifact: the artifact carries the newest card of the thread
   as its source message, and the task of the sync. *)
LookForThread(w) ==
    /\ req[w].pc = "lookThread"
    /\ IF ThreadArtifacts # {} THEN Goto(w, "synced")
       ELSE req' = [req EXCEPT ![w].pc = "addThread", ![w].todo = <<Len(msgs)>>,
                               ![w].task = Either(@, BoundTask)]
    /\ OnlyReq
AddThread(w) ==
    /\ req[w].pc = "addThread"
    /\ AppendArtifact(Head(req[w].todo), TRUE, req[w].task)
    /\ req' = [req EXCEPT ![w].todo = <<>>, ![w].pc = "synced"]
    /\ Same /\ UNCHANGED <<tasks, recent>>
-----------------------------------------------------------------------------
Post == IncidentPost \/ HandoffPost \/ ArtifactPost \/ DecisionPost \/ ReviewPost \/ PlanPost
TaskPages(w) == TaskStatus(w) \/ TaskUpdate(w) \/ A2ATaskCancel(w) \/ TaskDelete(w)
RoomRequests(w) ==
    \/ IncidentSync(w) \/ HandoffSync(w) \/ ArtifactSync(w) \/ DecisionSync(w)
    \/ IncidentSyncAll(w) \/ HandoffSyncAll(w) \/ ArtifactSyncAll(w) \/ DecisionSyncAll(w)
    \/ IncidentDistil(w) \/ HandoffDistil(w) \/ ArtifactDistil(w) \/ DecisionDistil(w)
    \/ ThreadSync(w) \/ ThreadSyncAll(w) \/ ThreadTask(w) \/ ThreadArtifact(w)
SyncReviewRoomThread(w) ==
    room = "review" /\ (SyncTask(w) \/ ReadThread(w) \/ LookForThread(w) \/ AddThread(w))
Handle(w) ==
    \/ SyncIncidentRoomTask(w) \/ SyncHandoffRoomTask(w) \/ SyncArtifactRoomTask(w)
    \/ SyncDecisionRoomTask(w) \/ SyncReviewRoomThread(w)
    \/ EnsureIncidentRoomArtifact(w) \/ EnsureHandoffRoomArtifact(w)
    \/ EnsureArtifactRoomArtifact(w) \/ EnsureDecisionRoomArtifact(w)
    \/ SavePage(w) \/ DeleteLoaded(w) \/ Respond(w)

DeskNext ==
    \/ Post \/ ReviewDistil \/ SkillDistil
    \/ \E p \in Policies : SavePolicy(p)
    \/ \E s \in Statuses : TaskCreate(s)
    \/ \E w \in Workers : TaskPages(w) \/ RoomRequests(w) \/ Handle(w)
DeskSpec == DeskInit /\ [][DeskNext]_deskvars
-----------------------------------------------------------------------------
DeskTypeOK ==
    /\ room \in DOMAIN Kinds /\ policy \in Policies /\ requests \in 0..MaxRequests[room]
    /\ \A i \in DOMAIN msgs : msgs[i].kind \in Kinds[room] /\ msgs[i].task \in 0..Len(tasks)
    /\ \A t \in DOMAIN tasks : tasks[t] \in Statuses \cup {"deleted"}
    /\ {recent[k] : k \in DOMAIN recent} = {t \in DOMAIN tasks : tasks[t] # "deleted"}
    /\ \A k \in DOMAIN arts : /\ arts[k].msg \in DOMAIN msgs /\ arts[k].task \in 0..Len(tasks)
                              /\ arts[k].thread => room = "review"
    /\ \A w \in Workers :
        /\ \A k \in DOMAIN req[w].todo : req[w].todo[k] \in DOMAIN msgs
        /\ req[w].task \in 0..Len(tasks) /\ req[w].seen <= Len(arts)

(* Whatever was loaded before, a task that was deleted stays deleted, and one in a
   terminal status keeps it until it is deleted, unless the policy of that moment has a
   rule for leaving the status: the save checks the task and the policy again under the
   lock of the team (internal/aip2p/team/store.go:1690). *)
ClosedStaysClosed ==
    [][\A t \in DOMAIN tasks :
         /\ tasks[t] = "deleted" => tasks'[t] = "deleted"
         /\ tasks[t] \in Terminal \ DOMAIN policy.rules => tasks'[t] \in {tasks[t], "deleted"}]_deskvars

(* A request that finds out whether a message is distilled never adds an artifact of a
   message that had one, still among the newest, when the request began: batches and
   distillations repeated one after the other do not duplicate artifacts
   (rooms/incidentroom/handler.go:1003). *)
NoSecondDistil ==
    [][\A w \in Workers : req[w].pc \in {"add", "addThread"} /\ arts' # arts /\ req'[w] # req[w] =>
          ~\E k \in Window : /\ k <= req[w].seen
                             /\ IF req[w].pc = "add" THEN arts[k].msg = Head(req[w].todo)
                                ELSE arts[k].thread]_deskvars

(* "A thread that has no task gets one, and the artifact of the thread makes the
   binding stable": when a sync of the thread has answered, the thread has a task. *)
SyncBindsThread ==
    \A w \in Workers : req[w].op = "thread" /\ req[w].pc = "synced" => BoundTask # 0
=============================================================================

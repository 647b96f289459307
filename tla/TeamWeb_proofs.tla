---------------------------- MODULE TeamWeb_proofs ----------------------------
(***************************************************************************)
(* Proofs about the web side of teams: the files of a team under the       *)
(* requests that change them (TeamFiles), the desks of a room (TeamDesk) and *)
(* the records of webhook deliveries (WebhookDelivery).                    *)
(***************************************************************************)
EXTENDS TeamFiles, TeamDesk, WebhookDelivery, FiniteSetTheorems, SequenceTheorems, WellFoundedInduction, TLAPS

(* The requests that may be at each place, and the lock some of them hold there. *)
ListOps == {"upsert", "action", "bulk"}
FileOps == ListOps \cup {"policy", "channel"}
Locked == {"fill", "append", "events", "keep"}
Places == {"idle", "load", "open", "fill", "lock", "append", "log", "snap", "events", "keep"}
Lists == [Agents -> MemberStatuses \cup {"absent"}]
Numbers == {m.number : m \in chat}
Asked == [op : FileOps \cup {"none", "message", "archive"}, pc : Places,
          agents : SUBSET Agents, agent : Agents \cup Channels \cup {""},
          to : MemberStatuses \cup {"shown", "hidden", ""}, list : Lists \cup {<<>>},
          since : SUBSET Agents, signed : BOOLEAN, number : 0..MaxFileRequests,
          seen : SUBSET (1..MaxFileRequests), events : SUBSET (1..MaxFileRequests)]

RightPlace(r) ==
    /\ r.pc = "idle" => r.op = "none"
    /\ r.pc = "load" => r.op \in ListOps
    /\ r.pc \in {"open", "fill"} => r.op \in FileOps
    /\ r.pc \in {"lock", "append"} => r.op = "message"
    /\ r.pc = "log" => r.op \in FileOps \cup {"message"}
    /\ r.pc \in {"snap", "events", "keep"} => r.op = "archive"
    /\ r.op \notin ListOps => r.agents = {}
    /\ r.op \in ListOps => r.to \in MemberStatuses
    /\ r.op = "channel" => r.to \in {"shown", "hidden"}
    /\ r.pc # "idle" => r.number # 0
(* A message is in the files before its event, and an archive reads them in that order. *)
InOrder(r) ==
    /\ r.pc = "log" /\ r.op = "message" => r.number \in Numbers
    /\ r.pc = "events" => history \subseteq r.seen
    /\ r.pc = "keep" => r.events \subseteq r.seen
(* A message that is being written is one the policy admits. *)
Admitted(r) == r.pc = "append" => Readable(rules) /\ (rules.signed => r.signed)
(* A list that will be saved differs from the stored one where it was meant to, or where
   the stored one changed since. *)
OnlyIntended(r) ==
    r.pc \in {"open", "fill"} /\ r.op \in ListOps =>
        r.list \in Lists /\ Changed(members.list, r.list) \subseteq {r.agent} \cup r.since
Sound(r) == r \in Asked /\ RightPlace(r) /\ InOrder(r) /\ Admitted(r) /\ OnlyIntended(r)

StoredTypes ==
    /\ members \in [form : Forms, list : Lists]
    /\ rules \in [form : Forms, signed : BOOLEAN]
    /\ channels \in [form : Forms, list : [Channels -> {"shown", "hidden"}]]
    /\ chat \in SUBSET [number : 1..MaxFileRequests, signed : BOOLEAN]
    /\ history \subseteq 1..MaxFileRequests /\ fileRequests \in 0..MaxFileRequests
    /\ DOMAIN user = FileUsers
HeldBy == fileLock \in FileUsers \cup {Unheld} /\ \A u \in FileUsers : user[u].pc \in Locked <=> fileLock = u
FInv == /\ StoredTypes /\ HeldBy /\ history \subseteq Numbers /\ ArchiveIsCausal
        /\ \A u \in FileUsers : Sound(user[u])

(* A request that changes only itself, and perhaps takes the lock or gives it back. *)
LEMMA OneMoves ==
  ASSUME FInv, NEW u \in FileUsers, NEW r, user' = [user EXCEPT ![u] = r], Sound(r),
         UNCHANGED Content, fileRequests' \in 0..MaxFileRequests,
         fileLock' \in FileUsers \cup {Unheld}, r.pc \in Locked <=> fileLock' = u,
         \A v \in FileUsers \ {u} : fileLock' = v <=> fileLock = v
  PROVE  FInv'
<1>1. StoredTypes' /\ HeldBy'
  BY DEF FInv, StoredTypes, HeldBy, Content
<1>2. (history \subseteq Numbers /\ ArchiveIsCausal)'
  BY DEF FInv, Content, ArchiveIsCausal, Numbers
<1>3. \A v \in FileUsers : Sound(user[v])'
  <2> SUFFICES ASSUME NEW v \in FileUsers PROVE Sound(user[v])'
    OBVIOUS
  <2>1. Sound(user'[v])
    BY DEF FInv, StoredTypes
  <2> QED
    BY <2>1 DEF Sound, InOrder, Admitted, OnlyIntended, RightPlace, Content, Numbers, Readable, Changed
<1> QED BY <1>1, <1>2, <1>3 DEF FInv

LEMMA NoTaskSound == Sound(NoTask)
BY FileConstants DEF Sound, NoTask, Asked, RightPlace, InOrder, Admitted, OnlyIntended, Places, ListOps, FileOps

LEMMA FilesInitInv == FilesInit => FInv
<1> SUFFICES ASSUME FilesInit PROVE FInv
  OBVIOUS
<1>1. PICK l \in [Agents -> {"active", "absent"}] :
        members = [form |-> IF l = NoMembers THEN "none" ELSE "whole", list |-> l]
  BY DEF FilesInit
<1>2. StoredTypes
  BY <1>1, FileConstants DEF FilesInit, StoredTypes, Lists, Forms, MemberStatuses
<1>3. HeldBy
  BY FileConstants DEF FilesInit, HeldBy, NoTask, Locked, Unheld
<1>4. history \subseteq Numbers /\ ArchiveIsCausal
  BY DEF FilesInit, ArchiveIsCausal
<1>5. \A u \in FileUsers : Sound(user[u])
  BY NoTaskSound DEF FilesInit
<1> QED BY <1>2, <1>3, <1>4, <1>5 DEF FInv

(* Every request begins with the number of the request and nothing held. *)
LEMMA BeginInv ==
  ASSUME FInv, NEW u \in FileUsers, NEW task \in Asked, BeginFile(u, task),
         task.pc \in {"load", "open", "lock", "snap"},
         task.pc = "open" => task.op \in {"policy", "channel"},
         RightPlace([task EXCEPT !.number = 1])
  PROVE  FInv'
<1>1. fileRequests' \in 0..MaxFileRequests /\ fileRequests' # 0
  BY FileConstants DEF BeginFile, FInv, StoredTypes
<1> DEFINE r == [task EXCEPT !.number = fileRequests']
<1>2. /\ r \in Asked /\ r.pc = task.pc /\ r.op = task.op /\ r.agents = task.agents /\ r.to = task.to
      /\ r.number # 0
  BY <1>1 DEF Asked
<1>3. RightPlace(r)
  BY <1>1, <1>2 DEF RightPlace, Asked
<1>7. Sound(r)
  BY <1>2, <1>3 DEF Sound, InOrder, Admitted, OnlyIntended, ListOps
<1>4. user' = [user EXCEPT ![u] = r] /\ UNCHANGED Content /\ fileLock' = fileLock
  BY DEF BeginFile
<1>5. fileLock # u
  BY DEF FInv, HeldBy, BeginFile, Locked
<1>6. r.pc \notin Locked
  BY <1>2 DEF Locked
<1> HIDE DEF r
<1> QED BY <1>1, <1>7, <1>4, <1>5, <1>6, OneMoves DEF FInv, HeldBy

LEMMA RequestsInv ==
  ASSUME FInv, NEW u \in FileUsers,
         \/ MemberUpdate(u) \/ MemberAction(u) \/ MemberBulkAction(u) \/ PolicyUpdate(u)
         \/ ChannelSave(u) \/ MessageCreate(u) \/ ArchiveCreate(u)
  PROVE  FInv'
<1>1. CASE MemberUpdate(u)
  <2>1. PICK a \in Agents, s \in {"active", "pending"} :
           BeginFile(u, [NoTask EXCEPT !.op = "upsert", !.pc = "load", !.agents = {a}, !.to = s])
    BY <1>1 DEF MemberUpdate
  <2> DEFINE t == [NoTask EXCEPT !.op = "upsert", !.pc = "load", !.agents = {a}, !.to = s]
  <2>2. t \in Asked /\ t.op = "upsert" /\ t.pc = "load"
    BY NoTaskSound DEF Sound, Asked, Places, ListOps, FileOps, MemberStatuses
  <2>3. RightPlace([t EXCEPT !.number = 1])
    BY DEF NoTask, RightPlace, ListOps, FileOps, MemberStatuses
  <2> HIDE DEF t
  <2> QED BY <2>1, <2>2, <2>3, BeginInv DEF t
<1>2. CASE MemberAction(u)
  <2>1. PICK a \in Agents, s \in {"muted", "removed"} :
           BeginFile(u, [NoTask EXCEPT !.op = "action", !.pc = "load", !.agents = {a}, !.to = s])
    BY <1>2 DEF MemberAction
  <2> DEFINE t == [NoTask EXCEPT !.op = "action", !.pc = "load", !.agents = {a}, !.to = s]
  <2>2. t \in Asked /\ t.op = "action" /\ t.pc = "load"
    BY NoTaskSound DEF Sound, Asked, Places, ListOps, FileOps, MemberStatuses
  <2>3. RightPlace([t EXCEPT !.number = 1])
    BY DEF NoTask, RightPlace, ListOps, FileOps, MemberStatuses
  <2> HIDE DEF t
  <2> QED BY <2>1, <2>2, <2>3, BeginInv DEF t
<1>3. CASE MemberBulkAction(u)
  <2>1. PICK s \in {"muted"} :
           BeginFile(u, [NoTask EXCEPT !.op = "bulk", !.pc = "load", !.agents = Agents, !.to = s])
    BY <1>3 DEF MemberBulkAction
  <2> DEFINE t == [NoTask EXCEPT !.op = "bulk", !.pc = "load", !.agents = Agents, !.to = s]
  <2>2. t \in Asked /\ t.op = "bulk" /\ t.pc = "load"
    BY NoTaskSound DEF Sound, Asked, Places, ListOps, FileOps, MemberStatuses
  <2>3. RightPlace([t EXCEPT !.number = 1])
    BY DEF NoTask, RightPlace, ListOps, FileOps, MemberStatuses
  <2> HIDE DEF t
  <2> QED BY <2>1, <2>2, <2>3, BeginInv DEF t
<1>4. CASE PolicyUpdate(u)
  <2>1. PICK b \in BOOLEAN :
           BeginFile(u, [NoTask EXCEPT !.op = "policy", !.pc = "open", !.signed = b])
    BY <1>4 DEF PolicyUpdate
  <2> DEFINE t == [NoTask EXCEPT !.op = "policy", !.pc = "open", !.signed = b]
  <2>2. t \in Asked /\ t.op = "policy" /\ t.pc = "open"
    BY NoTaskSound DEF Sound, Asked, Places, ListOps, FileOps, MemberStatuses
  <2>3. RightPlace([t EXCEPT !.number = 1])
    BY DEF NoTask, RightPlace, ListOps, FileOps, MemberStatuses
  <2> HIDE DEF t
  <2> QED BY <2>1, <2>2, <2>3, BeginInv DEF t
<1>5. CASE ChannelSave(u)
  <2>1. PICK c \in Channels, s \in {"shown", "hidden"} :
           BeginFile(u, [NoTask EXCEPT !.op = "channel", !.pc = "open", !.agent = c, !.to = s])
    BY <1>5 DEF ChannelSave
  <2> DEFINE t == [NoTask EXCEPT !.op = "channel", !.pc = "open", !.agent = c, !.to = s]
  <2>2. t \in Asked /\ t.op = "channel" /\ t.pc = "open"
    BY NoTaskSound DEF Sound, Asked, Places, ListOps, FileOps, MemberStatuses
  <2>3. RightPlace([t EXCEPT !.number = 1])
    BY DEF NoTask, RightPlace, ListOps, FileOps, MemberStatuses
  <2> HIDE DEF t
  <2> QED BY <2>1, <2>2, <2>3, BeginInv DEF t
<1>6. CASE MessageCreate(u)
  <2>1. PICK b \in BOOLEAN :
           BeginFile(u, [NoTask EXCEPT !.op = "message", !.pc = "lock", !.signed = b])
    BY <1>6 DEF MessageCreate
  <2> DEFINE t == [NoTask EXCEPT !.op = "message", !.pc = "lock", !.signed = b]
  <2>2. t \in Asked /\ t.op = "message" /\ t.pc = "lock"
    BY NoTaskSound DEF Sound, Asked, Places, ListOps, FileOps, MemberStatuses
  <2>3. RightPlace([t EXCEPT !.number = 1])
    BY DEF NoTask, RightPlace, ListOps, FileOps, MemberStatuses
  <2> HIDE DEF t
  <2> QED BY <2>1, <2>2, <2>3, BeginInv DEF t
<1>7. CASE ArchiveCreate(u)
  <2>1. BeginFile(u, [NoTask EXCEPT !.op = "archive", !.pc = "snap"])
    BY <1>7 DEF ArchiveCreate
  <2> DEFINE t == [NoTask EXCEPT !.op = "archive", !.pc = "snap"]
  <2>2. t \in Asked /\ t.op = "archive" /\ t.pc = "snap"
    BY NoTaskSound DEF Sound, Asked, Places, ListOps, FileOps, MemberStatuses
  <2>3. RightPlace([t EXCEPT !.number = 1])
    BY DEF NoTask, RightPlace, ListOps, FileOps, MemberStatuses
  <2> HIDE DEF t
  <2> QED BY <2>1, <2>2, <2>3, BeginInv DEF t
<1> QED BY <1>1, <1>2, <1>3, <1>4, <1>5, <1>6, <1>7

(* A request that ends without having the lock, or gives it back. *)
LEMMA DoneInv ==
  ASSUME FInv, NEW u \in FileUsers, Done(u), UNCHANGED <<Content, fileRequests>>,
         fileLock' = IF fileLock = u THEN Unheld ELSE fileLock
  PROVE  FInv'
<1>1. NoTask.pc \notin Locked /\ user' = [user EXCEPT ![u] = NoTask]
  BY DEF NoTask, Locked, Done
<1>2. fileLock' \in FileUsers \cup {Unheld} /\ fileLock' # u
  BY FileConstants DEF FInv, HeldBy
<1>3. \A v \in FileUsers \ {u} : fileLock' = v <=> fileLock = v
  BY FileConstants
<1>4. fileRequests' \in 0..MaxFileRequests /\ UNCHANGED Content
  BY DEF FInv, StoredTypes
<1> HIDE DEF NoTask
<1> QED BY <1>1, <1>2, <1>3, <1>4, NoTaskSound, OneMoves

(* A request that goes on to another place. *)
LEMMA GoesInv ==
  ASSUME FInv, NEW u \in FileUsers, NEW pc \in Places, Goes(u, pc), UNCHANGED <<Content, fileRequests>>,
         Sound([user[u] EXCEPT !.pc = pc]), fileLock' \in FileUsers \cup {Unheld},
         pc \in Locked <=> fileLock' = u, \A v \in FileUsers \ {u} : fileLock' = v <=> fileLock = v
  PROVE  FInv'
<1> DEFINE r == [user[u] EXCEPT !.pc = pc]
<1>1. r.pc = pc /\ Sound(r)
  BY DEF FInv, Sound, Asked
<1>2. user' = [user EXCEPT ![u] = r]
  BY DEF Goes
<1>3. fileRequests' \in 0..MaxFileRequests /\ UNCHANGED Content
  BY DEF FInv, StoredTypes
<1> HIDE DEF r
<1> QED BY <1>1, <1>2, <1>3, OneMoves

(* A bulk action goes on with the next member. *)
LEMMA BackToLoad ==
  ASSUME FInv, NEW u \in FileUsers, user[u].pc = "log", user[u].agents # {}, Goes(u, "load"),
         UNCHANGED <<Content, fileLock, fileRequests>>
  PROVE  FInv'
<1> DEFINE r == [user[u] EXCEPT !.pc = "load"]
<1>1. Sound(user[u]) /\ fileLock # u
  BY DEF FInv, HeldBy, Locked
<1>2. /\ r \in Asked /\ r.pc = "load" /\ r.op = user[u].op /\ r.to = user[u].to
      /\ r.number = user[u].number /\ r.agents = user[u].agents
  BY <1>1 DEF Sound, Asked, Places
<1>3. Sound(r)
  BY <1>1, <1>2 DEF Sound, RightPlace, InOrder, Admitted, OnlyIntended, ListOps
<1>4. "load" \in Places /\ "load" \notin Locked
  BY DEF Places, Locked
<1> QED BY <1>1, <1>3, <1>4, GoesInv DEF FInv, HeldBy

LEMMA LoadListInv == ASSUME FInv, NEW u \in FileUsers, LoadList(u) PROVE FInv'
<1>1. PICK a \in user[u].agents :
        LET rest == user[u].agents \ {a} IN
        IF ~Readable(members) THEN Done(u)
        ELSE IF user[u].op # "upsert" /\ members.list[a] = "absent"
        THEN IF rest = {} THEN Done(u) ELSE user' = [user EXCEPT ![u].agents = rest]
        ELSE user' = [user EXCEPT ![u].pc = "open", ![u].agents = rest, ![u].agent = a, ![u].since = {},
                                  ![u].list = [members.list EXCEPT ![a] = user[u].to]]
  BY DEF LoadList
<1>2. /\ user[u].pc = "load" /\ UNCHANGED <<Content, fileLock, fileRequests>> /\ fileLock # u
      /\ user[u] \in Asked /\ user[u].op \in ListOps /\ user[u].to \in MemberStatuses
      /\ a \in Agents /\ user[u].number # 0
  BY DEF LoadList, Quiet, FInv, HeldBy, Sound, RightPlace, Locked, Asked
<1>3. CASE Done(u)
  BY <1>2, <1>3, DoneInv
<1> DEFINE rest == user[u].agents \ {a}
           r == [user[u] EXCEPT !.agents = rest]
           s == [user[u] EXCEPT !.pc = "open", !.agents = rest, !.agent = a, !.since = {},
                                !.list = [members.list EXCEPT ![a] = user[u].to]]
<1>4. CASE user' = [user EXCEPT ![u].agents = rest]
  <2>1. r \in Asked /\ r.pc = "load" /\ r.op = user[u].op /\ r.to = user[u].to /\ r.number = user[u].number
    BY <1>2 DEF Asked
  <2>2. Sound(r)
    BY <1>2, <2>1 DEF Sound, RightPlace, InOrder, Admitted, OnlyIntended, ListOps
  <2>3. user' = [user EXCEPT ![u] = r] /\ r.pc \notin Locked
    BY <1>4, <2>1 DEF Locked
  <2> HIDE DEF r
  <2> QED BY <1>2, <2>2, <2>3, OneMoves DEF FInv, HeldBy, StoredTypes
<1>5. CASE user' = [user EXCEPT ![u].pc = "open", ![u].agents = rest, ![u].agent = a, ![u].since = {},
                                  ![u].list = [members.list EXCEPT ![a] = user[u].to]]
  <2> DEFINE l == [members.list EXCEPT ![a] = user[u].to]
  <2>1. l \in Lists /\ Changed(members.list, l) \subseteq {a}
    BY <1>2 DEF Lists, Changed, FInv, StoredTypes
  <2>2. /\ s \in Asked /\ s.pc = "open" /\ s.op = user[u].op /\ s.to = user[u].to
        /\ s.number = user[u].number /\ s.list = l /\ s.agent = a
    BY <1>2, <2>1 DEF Asked, Places
  <2>3. Sound(s)
    BY <1>2, <2>1, <2>2 DEF Sound, RightPlace, InOrder, Admitted, OnlyIntended, ListOps, FileOps
  <2>4. user' = [user EXCEPT ![u] = s] /\ s.pc \notin Locked
    BY <1>5, <2>2 DEF Locked
  <2> HIDE DEF s
  <2> QED BY <1>2, <2>3, <2>4, OneMoves DEF FInv, HeldBy, StoredTypes
<1> QED BY <1>1, <1>3, <1>4, <1>5

LEMMA OnlyHolder ==
  ASSUME FInv, NEW u \in FileUsers, fileLock \in {Unheld, u}, NEW v \in FileUsers, v # u
  PROVE  user[v].pc \notin Locked
BY FileConstants DEF FInv, HeldBy

(* Emptying a file keeps the list, and nobody else is between taking the lock and giving
   it back. *)
LEMMA OpenFileInv == ASSUME FInv, NEW u \in FileUsers, OpenFile(u) PROVE FInv'
<1>0. PICK r : r = [user[u] EXCEPT !.pc = "fill"]
  OBVIOUS
<1>1. /\ user[u].pc = "open" /\ fileLock = Unheld /\ fileLock' = u /\ user' = [user EXCEPT ![u] = r]
      /\ UNCHANGED <<chat, history, snapshot, fileRequests>>
  BY <1>0 DEF OpenFile, Goes, Quiet
<1>2. user[u] \in Asked /\ RightPlace(user[u]) /\ OnlyIntended(user[u])
  BY DEF FInv, Sound
<1>3. /\ r \in Asked /\ r.pc = "fill" /\ r.op = user[u].op /\ r.to = user[u].to /\ r.number = user[u].number
      /\ r.agents = user[u].agents /\ r.list = user[u].list /\ r.agent = user[u].agent /\ r.since = user[u].since
  BY <1>0, <1>2 DEF Asked, Places
<1>4. user[u].op \in FileOps
  BY <1>1, <1>2 DEF RightPlace
<1>5. /\ members' \in [form : Forms, list : Lists] /\ members'.list = members.list
      /\ rules' \in [form : Forms, signed : BOOLEAN]
      /\ channels' \in [form : Forms, list : [Channels -> {"shown", "hidden"}]]
  <2> USE DEF FInv, StoredTypes, Forms
  <2>1. CASE user[u].op \in ListOps
    BY <2>1 DEF OpenFile, ListOps
  <2>2. CASE user[u].op = "policy"
    BY <2>2 DEF OpenFile
  <2>3. CASE user[u].op = "channel"
    <3>1. CASE channels.form = "whole"
      BY <2>3, <3>1 DEF OpenFile
    <3>2. CASE channels.form # "whole"
      BY <2>3, <3>2 DEF OpenFile
    <3> QED BY <3>1, <3>2
  <2> QED BY <1>4, <2>1, <2>2, <2>3 DEF FileOps
<1>6. StoredTypes'
  BY <1>1, <1>5 DEF FInv, StoredTypes
<1>7. HeldBy'
  BY <1>1, <1>3, OnlyHolder DEF FInv, StoredTypes, HeldBy, Locked
<1>8. (history \subseteq Numbers /\ ArchiveIsCausal)'
  BY <1>1 DEF FInv, Numbers, ArchiveIsCausal
<1>9. Sound(r)'
  BY <1>1, <1>2, <1>3, <1>5 DEF Sound, RightPlace, InOrder, Admitted, OnlyIntended, Changed
<1>10. ASSUME NEW v \in FileUsers, v # u PROVE Sound(user[v])'
  <2>1. user'[v] = user[v] /\ Sound(user[v]) /\ user[v].pc \notin Locked
    BY <1>1, <1>10, OnlyHolder DEF FInv, StoredTypes
  <2> QED BY <1>1, <1>5, <2>1 DEF Sound, InOrder, Admitted, OnlyIntended, Changed, Locked, Numbers
<1>11. user'[u] = r
  BY <1>1 DEF FInv, StoredTypes
<1> QED BY <1>6, <1>7, <1>8, <1>9, <1>10, <1>11 DEF FInv

LEMMA CheckMessageInv == ASSUME FInv, NEW u \in FileUsers, CheckMessage(u) PROVE FInv'
<1>1. /\ user[u].pc = "lock" /\ fileLock = Unheld /\ UNCHANGED <<Content, fileRequests>>
      /\ Sound(user[u])
  BY DEF CheckMessage, Quiet, FInv
<1>2. CASE Readable(rules) /\ (rules.signed => user[u].signed)
  <2> DEFINE r == [user[u] EXCEPT !.pc = "append"]
  <2>1. /\ r \in Asked /\ r.pc = "append" /\ r.op = user[u].op /\ r.to = user[u].to
        /\ r.number = user[u].number /\ r.agents = user[u].agents /\ r.signed = user[u].signed
    BY <1>1 DEF Sound, Asked, Places
  <2>2. Sound(r)
    BY <1>1, <1>2, <2>1 DEF Sound, RightPlace, InOrder, Admitted, OnlyIntended
  <2>3. fileLock' = u /\ Goes(u, "append")
    BY <1>2 DEF CheckMessage
  <2>4. "append" \in Places /\ "append" \in Locked
    BY DEF Places, Locked
  <2> QED BY <1>1, <2>2, <2>3, <2>4, GoesInv, FileConstants
<1>3. CASE ~(Readable(rules) /\ (rules.signed => user[u].signed))
  BY <1>1, <1>3, DoneInv DEF CheckMessage
<1> QED BY <1>2, <1>3

LEMMA SnapStartsInv == ASSUME FInv, NEW u \in FileUsers, SnapStarts(u) PROVE FInv'
<1>1. /\ user[u].pc = "snap" /\ fileLock = Unheld /\ UNCHANGED <<Content, fileRequests>>
      /\ Sound(user[u])
  BY DEF SnapStarts, Quiet, FInv
<1>2. CASE Readable(rules) /\ Readable(members)
  <2> DEFINE r == [user[u] EXCEPT !.pc = "events", !.seen = Numbers]
  <2>1. Numbers \in SUBSET (1..MaxFileRequests) /\ history \subseteq Numbers
    BY DEF FInv, StoredTypes, Numbers
  <2>2. /\ r \in Asked /\ r.pc = "events" /\ r.op = user[u].op /\ r.to = user[u].to
        /\ r.number = user[u].number /\ r.agents = user[u].agents /\ r.seen = Numbers
    BY <1>1, <2>1 DEF Sound, Asked, Places
  <2>3. Sound(r)
    BY <1>1, <2>1, <2>2 DEF Sound, RightPlace, InOrder, Admitted, OnlyIntended
  <2>4. fileLock' = u /\ user' = [user EXCEPT ![u] = r]
    BY <1>2 DEF SnapStarts, LoadMessages, Numbers
  <2>5. r.pc \in Locked /\ fileRequests' \in 0..MaxFileRequests
    BY <1>1, <2>2 DEF Locked, FInv, StoredTypes
  <2> HIDE DEF r
  <2> QED BY <1>1, <2>3, <2>4, <2>5, OneMoves, FileConstants
<1>3. CASE ~(Readable(rules) /\ Readable(members))
  BY <1>1, <1>3, DoneInv DEF SnapStarts
<1> QED BY <1>2, <1>3

LEMMA SnapEventsInv == ASSUME FInv, NEW u \in FileUsers, SnapEvents(u) PROVE FInv'
<1> DEFINE r == [user[u] EXCEPT !.pc = "keep", !.events = history]
<1>1. /\ user[u].pc = "events" /\ fileLock = u /\ fileLock' = fileLock
      /\ UNCHANGED <<Content, fileRequests>> /\ Sound(user[u]) /\ user' = [user EXCEPT ![u] = r]
  BY DEF SnapEvents, Quiet, FInv, HeldBy, Locked
<1>2. /\ r \in Asked /\ r.pc = "keep" /\ r.op = user[u].op /\ r.to = user[u].to
      /\ r.number = user[u].number /\ r.agents = user[u].agents /\ r.seen = user[u].seen /\ r.events = history
  BY <1>1 DEF Sound, Asked, Places, FInv, StoredTypes
<1>3. Sound(r)
  BY <1>1, <1>2 DEF Sound, RightPlace, InOrder, Admitted, OnlyIntended
<1>4. r.pc \in Locked /\ fileRequests' \in 0..MaxFileRequests
  BY <1>1, <1>2 DEF Locked, FInv, StoredTypes
<1> HIDE DEF r
<1> QED BY <1>1, <1>3, <1>4, OneMoves DEF FInv, HeldBy

LEMMA LockTimesOutInv == ASSUME FInv, NEW u \in FileUsers, LockTimesOut(u) PROVE FInv'
<1>1. /\ user[u].pc \in {"open", "lock", "snap", "log"} /\ fileLock # u /\ fileLock' = fileLock
      /\ UNCHANGED <<Content, fileRequests>> /\ Sound(user[u])
  BY DEF LockTimesOut, Quiet, FInv
<1>2. CASE Done(u)
  BY <1>1, <1>2, DoneInv
<1>3. CASE user[u].pc = "log" /\ user[u].agents # {} /\ Goes(u, "load")
  BY <1>1, <1>3, BackToLoad DEF FInv, HeldBy
<1> QED BY <1>1, <1>2, <1>3 DEF LockTimesOut, NextMember

LEMMA StopUserInv == ASSUME FInv, NEW u \in FileUsers, StopUser(u) PROVE FInv'
BY DoneInv DEF StopUser

(* The list that is saved is the one the request intended; what it changes is owed to
   those who loaded before. *)
LEMMA FillFileInv == ASSUME FInv, NEW u \in FileUsers, FillFile(u) PROVE FInv'
<1>1. /\ user[u].pc = "fill" /\ fileLock = u /\ fileLock' = Unheld
      /\ UNCHANGED <<chat, history, snapshot, fileRequests>> /\ Sound(user[u])
  BY DEF FillFile, Quiet, FInv, HeldBy, Locked
<1>2. user[u].op \in FileOps
  BY <1>1 DEF Sound, RightPlace
<1>3. PICK r : r = [user[u] EXCEPT !.pc = "log"]
  OBVIOUS
<1>4. /\ r \in Asked /\ r.pc = "log" /\ r.op = user[u].op /\ r.to = user[u].to /\ r.number = user[u].number
      /\ r.agents = user[u].agents
  BY <1>1, <1>3 DEF Sound, Asked, Places
<1>5. Sound(r)'
  BY <1>1, <1>2, <1>4 DEF Sound, RightPlace, InOrder, Admitted, OnlyIntended, FileOps, ListOps
<1>6. ASSUME NEW v \in FileUsers, v # u PROVE user[v].pc \notin Locked /\ Sound(user[v])
  BY <1>1, <1>6, OnlyHolder DEF FInv
<1>7. CASE user[u].op \in ListOps
  <2>1. /\ members' = [form |-> "whole", list |-> user[u].list] /\ UNCHANGED <<rules, channels>>
        /\ user' = [v \in FileUsers |->
             IF v = u THEN r ELSE [user[v] EXCEPT !.since = @ \cup Changed(members.list, user[u].list)]]
    BY <1>3, <1>7 DEF FillFile, ListOps
  <2>2. user[u].list \in Lists /\ members.list \in Lists
    BY <1>1, <1>7 DEF Sound, OnlyIntended, FInv, StoredTypes
  <2>3. PICK gap : gap = Changed(members.list, user[u].list)
    OBVIOUS
  <2>4. gap \subseteq Agents
    BY <2>2, <2>3 DEF Changed, Lists
  <2>5. StoredTypes'
    BY <1>1, <2>1, <2>2 DEF FInv, StoredTypes, Forms
  <2>6. ASSUME NEW v \in FileUsers, v # u PROVE Sound(user[v])' /\ user'[v].pc \notin Locked
    <3>1. PICK w : w = [user[v] EXCEPT !.since = @ \cup gap]
      OBVIOUS
    <3>2. user'[v] = w
      BY <2>1, <2>3, <2>6, <3>1
    <3>3. /\ w \in Asked /\ w.pc = user[v].pc /\ w.op = user[v].op /\ w.to = user[v].to
          /\ w.number = user[v].number /\ w.agents = user[v].agents /\ w.list = user[v].list
          /\ w.agent = user[v].agent /\ w.since = user[v].since \cup gap /\ w.seen = user[v].seen
          /\ w.events = user[v].events /\ w.signed = user[v].signed
      BY <1>6, <2>4, <2>6, <3>1 DEF Sound, Asked
    <3>4. OnlyIntended(w)'
      <4> SUFFICES ASSUME w.pc \in {"open", "fill"}, w.op \in ListOps
                   PROVE  w.list \in Lists /\ Changed(members'.list, w.list) \subseteq {w.agent} \cup w.since
        BY DEF OnlyIntended, Changed, Lists
      <4>1. w.list \in Lists /\ Changed(members.list, w.list) \subseteq {w.agent} \cup user[v].since
        BY <1>6, <2>6, <3>3 DEF Sound, OnlyIntended
      <4>2. members'.list = user[u].list
        BY <2>1
      <4>3. Changed(user[u].list, w.list) \subseteq Changed(members.list, w.list) \cup gap
        BY <2>2, <2>3, <4>1 DEF Changed, Lists
      <4> QED BY <3>3, <4>1, <4>2, <4>3
    <3>5. InOrder(w)' /\ Admitted(w)' /\ RightPlace(w)
      BY <1>1, <1>6, <2>6, <3>3 DEF Sound, RightPlace, InOrder, Admitted, Numbers, Locked
    <3>6. Sound(w)'
      BY <3>3, <3>4, <3>5 DEF Sound, RightPlace
    <3> QED BY <1>6, <2>6, <3>2, <3>3, <3>6
  <2>7. user'[u] = r
    BY <2>1
  <2>8. HeldBy'
    BY <1>1, <1>4, <2>6, <2>7, FileConstants DEF HeldBy, Locked
  <2>9. (history \subseteq Numbers /\ ArchiveIsCausal)'
    BY <1>1 DEF FInv, Numbers, ArchiveIsCausal
  <2> QED BY <1>5, <2>5, <2>6, <2>7, <2>8, <2>9 DEF FInv
<1>8. CASE user[u].op \in {"policy", "channel"}
  <2>1. /\ UNCHANGED members /\ user' = [user EXCEPT ![u] = r]
        /\ rules' \in [form : Forms, signed : BOOLEAN]
        /\ channels' \in [form : Forms, list : [Channels -> {"shown", "hidden"}]]
    <3>1. user[u].signed \in BOOLEAN
      BY <1>1 DEF Sound, Asked
    <3>2. CASE user[u].op = "policy"
      BY <1>3, <3>1, <3>2 DEF FillFile, SaveChannel, Goes, FInv, StoredTypes, Forms
    <3>3. CASE user[u].op = "channel"
      <4>1. user[u].to \in {"shown", "hidden"}
        BY <1>1, <3>3 DEF Sound, RightPlace
      <4> QED BY <1>3, <3>3, <4>1 DEF FillFile, SaveChannel, Goes, FInv, StoredTypes, Forms
    <3> QED BY <1>8, <3>2, <3>3
  <2>2. user'[u] = r /\ \A v \in FileUsers \ {u} : user'[v] = user[v]
    BY <2>1 DEF FInv, StoredTypes
  <2>3. StoredTypes'
    BY <1>1, <2>1 DEF FInv, StoredTypes
  <2>4. HeldBy'
    BY <1>1, <1>4, <1>6, <2>2, FileConstants DEF HeldBy, Locked
  <2>5. (history \subseteq Numbers /\ ArchiveIsCausal)'
    BY <1>1 DEF FInv, Numbers, ArchiveIsCausal
  <2>6. ASSUME NEW v \in FileUsers, v # u PROVE Sound(user[v])'
    BY <1>1, <1>6, <2>1, <2>2, <2>6
    DEF Sound, InOrder, Admitted, OnlyIntended, Changed, Locked, Numbers
  <2> QED BY <1>5, <2>2, <2>3, <2>4, <2>5, <2>6 DEF FInv
<1> QED BY <1>2, <1>7, <1>8 DEF FileOps

LEMMA AppendMessageInv == ASSUME FInv, NEW u \in FileUsers, AppendMessage(u) PROVE FInv'
<1>1. PICK r : r = [user[u] EXCEPT !.pc = "log"]
  OBVIOUS
<1>2. /\ user[u].pc = "append" /\ fileLock = u /\ fileLock' = Unheld /\ Sound(user[u])
      /\ chat' = chat \cup {[number |-> user[u].number, signed |-> user[u].signed]}
      /\ user' = [user EXCEPT ![u] = r]
      /\ UNCHANGED <<members, rules, channels, history, snapshot, fileRequests>>
  BY <1>1 DEF AppendMessage, Goes, Quiet, FInv, HeldBy, Locked
<1>3. /\ r \in Asked /\ r.pc = "log" /\ r.op = user[u].op /\ r.to = user[u].to /\ r.number = user[u].number
      /\ r.agents = user[u].agents
  BY <1>1, <1>2 DEF Sound, Asked, Places
<1>4. user[u].number \in 1..MaxFileRequests /\ user[u].signed \in BOOLEAN
  <2>1. user[u].number \in 0..MaxFileRequests /\ user[u].signed \in BOOLEAN
    BY <1>2 DEF Sound, Asked
  <2>2. user[u].number # 0
    BY <1>2 DEF Sound, RightPlace
  <2> QED BY <2>1, <2>2, FileConstants
<1>5. Numbers' = Numbers \cup {user[u].number}
  <2>1. PICK m : m = [number |-> user[u].number, signed |-> user[u].signed]
    OBVIOUS
  <2>2. m.number = user[u].number /\ chat' = chat \cup {m}
    BY <1>2, <2>1
  <2> QED BY <2>2 DEF Numbers
<1>6. StoredTypes'
  BY <1>2, <1>4 DEF FInv, StoredTypes
<1>7. user'[u] = r /\ \A v \in FileUsers \ {u} : user'[v] = user[v]
  BY <1>2 DEF FInv, StoredTypes
<1>8. HeldBy'
  BY <1>2, <1>3, <1>7, OnlyHolder, FileConstants DEF HeldBy, Locked
<1>9. (history \subseteq Numbers /\ ArchiveIsCausal)'
  BY <1>2, <1>5 DEF FInv, ArchiveIsCausal
<1>10. Sound(r)'
  BY <1>2, <1>3, <1>5 DEF Sound, RightPlace, InOrder, Admitted, OnlyIntended
<1>11. ASSUME NEW v \in FileUsers, v # u PROVE Sound(user[v])'
  <2>1. Sound(user[v]) /\ user'[v] = user[v]
    BY <1>7, <1>11 DEF FInv
  <2> QED BY <1>2, <1>5, <2>1 DEF Sound, InOrder, Admitted, OnlyIntended, Changed
<1> QED BY <1>6, <1>7, <1>8, <1>9, <1>10, <1>11 DEF FInv

(* An event is written only after its message is stored, and never while an archive reads. *)
LEMMA AppendHistoryInv == ASSUME FInv, NEW u \in FileUsers, AppendHistory(u) PROVE FInv'
<1>1. /\ user[u].pc = "log" /\ fileLock = Unheld /\ fileLock' = Unheld /\ Sound(user[u])
      /\ UNCHANGED <<members, rules, channels, chat, snapshot, fileRequests>>
  BY DEF AppendHistory, Quiet, FInv
<1>2. history \subseteq history' /\ history' \subseteq Numbers /\ history' \subseteq 1..MaxFileRequests
  <2>1. user[u].op = "message" => user[u].number \in Numbers
    BY <1>1 DEF Sound, InOrder
  <2>2. Numbers \subseteq 1..MaxFileRequests
    BY DEF FInv, StoredTypes, Numbers
  <2> QED BY <2>1, <2>2 DEF AppendHistory, FInv
<1>3. PICK r : r = IF user[u].agents # {} THEN [user[u] EXCEPT !.pc = "load"] ELSE NoTask
  OBVIOUS
<1>4. user' = [user EXCEPT ![u] = r]
  BY <1>3 DEF AppendHistory, NextMember, Goes, Done
<1>5. Sound(r)' /\ r.pc \notin Locked
  <2>1. CASE user[u].agents # {}
    <3>1. /\ r \in Asked /\ r.pc = "load" /\ r.op = user[u].op /\ r.to = user[u].to
          /\ r.number = user[u].number /\ r.agents = user[u].agents
      BY <1>1, <1>3, <2>1 DEF Sound, Asked, Places
    <3> QED BY <1>1, <2>1, <3>1 DEF Sound, RightPlace, InOrder, Admitted, OnlyIntended, ListOps, Locked
  <2>2. CASE user[u].agents = {}
    <3>1. r = NoTask /\ r \in Asked /\ RightPlace(r) /\ r.pc = "idle"
      BY <1>3, <2>2, NoTaskSound DEF Sound, NoTask
    <3> QED BY <3>1 DEF Sound, RightPlace, InOrder, Admitted, OnlyIntended, Locked
  <2> QED BY <2>1, <2>2
<1>6. user'[u] = r /\ \A v \in FileUsers \ {u} : user'[v] = user[v]
  BY <1>4 DEF FInv, StoredTypes
<1>7. StoredTypes'
  BY <1>1, <1>2, <1>4 DEF FInv, StoredTypes
<1>8. HeldBy'
  BY <1>1, <1>5, <1>6, OnlyHolder, FileConstants DEF HeldBy
<1>9. (history \subseteq Numbers /\ ArchiveIsCausal)'
  BY <1>1, <1>2 DEF FInv, ArchiveIsCausal, Numbers
<1>10. ASSUME NEW v \in FileUsers, v # u PROVE Sound(user[v])'
  <2>1. Sound(user[v]) /\ user'[v] = user[v] /\ user[v].pc \notin Locked
    BY <1>1, <1>6, <1>10, OnlyHolder DEF FInv
  <2> QED BY <1>1, <2>1 DEF Sound, InOrder, Admitted, OnlyIntended, Changed, Locked, Numbers
<1> QED BY <1>5, <1>6, <1>7, <1>8, <1>9, <1>10 DEF FInv

LEMMA SnapSavedInv == ASSUME FInv, NEW u \in FileUsers, SnapSaved(u) PROVE FInv'
<1>1. /\ user[u].pc = "keep" /\ fileLock = u /\ fileLock' = Unheld /\ Sound(user[u])
      /\ user' = [user EXCEPT ![u] = NoTask] /\ snapshot' = [messages |-> user[u].seen, events |-> user[u].events]
      /\ UNCHANGED <<members, rules, channels, chat, history, fileRequests>>
  BY DEF SnapSaved, Done, Quiet, FInv, HeldBy, Locked
<1>2. user'[u] = NoTask /\ \A v \in FileUsers \ {u} : user'[v] = user[v]
  BY <1>1 DEF FInv, StoredTypes
<1>3. ArchiveIsCausal'
  BY <1>1 DEF Sound, InOrder, ArchiveIsCausal
<1>4. StoredTypes' /\ (history \subseteq Numbers)'
  BY <1>1 DEF FInv, StoredTypes, Numbers
<1>5. HeldBy'
  <2>1. NoTask.pc \notin Locked
    BY DEF NoTask, Locked
  <2>2. \A v \in FileUsers \ {u} : user[v].pc \notin Locked
    BY <1>1, OnlyHolder
  <2> QED BY <1>1, <1>2, <2>1, <2>2, FileConstants DEF HeldBy
<1>6. ASSUME NEW v \in FileUsers PROVE Sound(user[v])'
  <2>1. Sound(user'[v])
    BY <1>2, NoTaskSound DEF FInv
  <2> QED BY <1>1, <2>1 DEF Sound, InOrder, Admitted, OnlyIntended, Changed, Numbers
<1> QED BY <1>3, <1>4, <1>5, <1>6 DEF FInv

LEMMA FilesNextInv == FInv /\ [FilesNext]_filevars => FInv'
<1> SUFFICES ASSUME FInv, [FilesNext]_filevars PROVE FInv'
  OBVIOUS
<1>1. CASE UNCHANGED filevars
  <2>1. \A v \in FileUsers : Sound(user[v])'
    BY <1>1 DEF filevars, FInv, Sound, InOrder, Admitted, OnlyIntended, Changed, Numbers, Readable
  <2> QED BY <1>1, <2>1 DEF filevars, FInv, StoredTypes, HeldBy, ArchiveIsCausal, Numbers
<1>2. ASSUME NEW u \in FileUsers,
             \/ MemberPages(u) \/ SavePages(u) \/ MessagePages(u)
             \/ ArchivePages(u) \/ LockTimesOut(u) \/ StopUser(u)
      PROVE  FInv'
  BY <1>2, RequestsInv, LoadListInv, OpenFileInv, FillFileInv, CheckMessageInv, AppendMessageInv,
     AppendHistoryInv, SnapStartsInv, SnapEventsInv, SnapSavedInv, LockTimesOutInv, StopUserInv
  DEF MemberPages, SavePages, MessagePages, ArchivePages
<1> QED BY <1>1, <1>2 DEF FilesNext

(* What ties the requests in flight, the lock and the files of a team together: a list
   about to be saved differs from the stored one only where its request meant it to or
   where others changed it since, whoever holds the lock is rewriting a file, and an
   archive being made has read the messages before the history. *)
THEOREM FilesInvariant == FilesSpec => []FInv
<1>1. FilesInit => FInv
  BY FilesInitInv
<1>2. FInv /\ [FilesNext]_filevars => FInv'
  BY FilesNextInv
<1> QED BY <1>1, <1>2, PTL DEF FilesSpec

(* The types of the files of a team (internal/aip2p/team/store.go). *)
THEOREM FilesTypes == FilesSpec => []FilesTypeOK
<1>1. FInv => FilesTypeOK
  BY DEF FInv, StoredTypes, HeldBy, FilesTypeOK, Lists
<1> QED BY <1>1, FilesInvariant, PTL

(* An archive is a consistent cut of messages and history, whatever is written while it is
   made (createManualArchiveNoCtx). *)
THEOREM ArchiveIsCausalHolds == FilesSpec => []ArchiveIsCausal
<1>1. FInv => ArchiveIsCausal
  BY DEF FInv
<1> QED BY <1>1, FilesInvariant, PTL

(* A message is stored only while the policy of that moment admits it (appendMessageNoCtx). *)
THEOREM StoredUnderPolicyHolds == FilesSpec => StoredUnderPolicy
<1>1. FInv /\ [FilesNext]_filevars =>
        [\A m \in chat' \ chat : Readable(rules) /\ (rules.signed => m.signed)]_filevars
  <2> SUFFICES ASSUME FInv, FilesNext, NEW m \in chat' \ chat
               PROVE  Readable(rules) /\ (rules.signed => m.signed)
    OBVIOUS
  <2>1. PICK u \in FileUsers : AppendMessage(u)
    <3>1. PICK u \in FileUsers : MemberPages(u) \/ SavePages(u) \/ MessagePages(u)
                                 \/ ArchivePages(u) \/ LockTimesOut(u) \/ StopUser(u)
      BY DEF FilesNext
    <3>2. AppendMessage(u) \/ UNCHANGED chat
      BY <3>1 DEF MemberPages, SavePages, MessagePages, ArchivePages, MemberUpdate, MemberAction,
         MemberBulkAction, LoadList, PolicyUpdate, ChannelSave, OpenFile, FillFile, MessageCreate,
         CheckMessage, AppendHistory, ArchiveCreate, SnapStarts, SnapEvents, SnapSaved, LockTimesOut,
         StopUser, BeginFile, Content
    <3> QED BY <3>2
  <2>2. m.signed = user[u].signed
    BY <2>1 DEF AppendMessage
  <2>3. Readable(rules) /\ (rules.signed => user[u].signed)
    BY <2>1 DEF AppendMessage, FInv, Sound, Admitted
  <2> QED BY <2>2, <2>3
<1> QED BY <1>1, FilesInvariant, PTL DEF FilesSpec, StoredUnderPolicy

(* Only the request that holds the lock and rewrites members.json changes the members. *)
LEMMA MembersChange ==
  ASSUME FInv, FilesNext, NEW u \in FileUsers, user[u].pc = "fill", members' # members
  PROVE  FillFile(u) /\ user[u].op \in ListOps
<1>1. fileLock = u /\ fileLock # Unheld
  BY FileConstants DEF FInv, HeldBy, Locked
<1>2. PICK v \in FileUsers : MemberPages(v) \/ SavePages(v) \/ MessagePages(v)
                             \/ ArchivePages(v) \/ LockTimesOut(v) \/ StopUser(v)
  BY DEF FilesNext
<1>3. OpenFile(v) \/ FillFile(v)
  BY <1>2 DEF MemberPages, SavePages, MessagePages, ArchivePages, MemberUpdate, MemberAction,
     MemberBulkAction, LoadList, PolicyUpdate, ChannelSave, MessageCreate, AppendMessage,
     CheckMessage, AppendHistory, ArchiveCreate, SnapStarts, SnapEvents, SnapSaved, LockTimesOut,
     StopUser, BeginFile, Content
<1>4. FillFile(v) /\ v = u
  BY <1>1, <1>3 DEF OpenFile, FillFile, FInv, HeldBy, Locked
<1>5. user[u].op \in FileOps
  BY DEF FInv, Sound, RightPlace
<1> QED BY <1>4, <1>5 DEF FillFile, FileOps

(* NoLateUndo: a saved list undoes no change made before the list was loaded. *)
THEOREM NoLateUndoHolds == FilesSpec => NoLateUndo
<1>1. FInv /\ [FilesNext]_filevars =>
        [\A u \in FileUsers : user[u].pc = "fill" /\ members' # members =>
           Changed(members.list, members'.list) \subseteq {user[u].agent} \cup user[u].since]_filevars
  <2> SUFFICES ASSUME FInv, FilesNext, NEW u \in FileUsers, user[u].pc = "fill", members' # members
               PROVE  Changed(members.list, members'.list) \subseteq {user[u].agent} \cup user[u].since
    OBVIOUS
  <2>1. FillFile(u) /\ user[u].op \in ListOps
    BY MembersChange
  <2>2. members'.list = user[u].list
    BY <2>1 DEF FillFile, ListOps
  <2>3. Changed(members.list, user[u].list) \subseteq {user[u].agent} \cup user[u].since
    BY <2>1 DEF FInv, Sound, OnlyIntended
  <2> QED BY <2>2, <2>3
<1> QED BY <1>1, FilesInvariant, PTL DEF FilesSpec, NoLateUndo

-----------------------------------------------------------------------------
(* TeamDesk. *)
ASeq(s) == \E S : s \in Seq(S)
IsRequest(r) == r = [op |-> r.op, pc |-> r.pc, todo |-> r.todo, task |-> r.task,
                     status |-> r.status, seen |-> r.seen]
(* A request about to add an artifact saw none among those it began with. *)
Looked(r) ==
    /\ r.pc = "add" => ~\E k \in Window : k <= r.seen /\ arts[k].msg = Head(r.todo)
    /\ r.pc = "addThread" => ~\E k \in Window : k <= r.seen /\ arts[k].thread
DeskInv ==
    /\ ASeq(tasks) /\ ASeq(arts) /\ DOMAIN req = Workers
    /\ \A w \in Workers : IsRequest(req[w]) /\ req[w].seen \in 0..Len(arts) /\ Looked(req[w])

LEMMA AppendTo ==
  ASSUME NEW s, ASeq(s), NEW e
  PROVE  /\ ASeq(Append(s, e)) /\ Len(s) \in Nat /\ DOMAIN s = 1..Len(s)
         /\ Len(Append(s, e)) = Len(s) + 1
         /\ DOMAIN Append(s, e) = 1..(Len(s) + 1)
         /\ \A k \in 1..Len(s) : Append(s, e)[k] = s[k]
<1>1. PICK S : s \in Seq(S)
  BY DEF ASeq
<1>2. s \in Seq(S \cup {e}) /\ e \in S \cup {e}
  BY <1>1, SeqDef, LenProperties
<1>3. Append(s, e) \in Seq(S \cup {e})
  BY <1>2, AppendProperties
<1> QED BY <1>2, <1>3, AppendProperties, LenProperties DEF ASeq

LEMMA ExceptOf ==
  ASSUME NEW s, ASeq(s), NEW t, NEW e
  PROVE  ASeq([s EXCEPT ![t] = e])
<1>1. PICK S : s \in Seq(S)
  BY DEF ASeq
<1>2. Len(s) \in Nat /\ s \in [1..Len(s) -> S]
  BY <1>1, LenProperties
<1>3. [s EXCEPT ![t] = e] \in [1..Len(s) -> S \cup {e}]
  BY <1>2
<1>4. [s EXCEPT ![t] = e] \in Seq(S \cup {e})
  BY <1>2, <1>3, SeqDef
<1> QED BY <1>4 DEF ASeq

(* The artifacts only grow, and the newest of them that were there before were among the
   newest before. *)
LEMMA LookedStays ==
  ASSUME DeskInv, NEW r, r.seen \in 0..Len(arts), Looked(r),
         arts' = arts \/ \E e : arts' = Append(arts, e)
  PROVE  /\ r.seen \in 0..Len(arts') /\ ASeq(arts')
         /\ r.pc = "add" => ~\E k \in Window' : k <= r.seen /\ arts'[k].msg = Head(r.todo)
         /\ r.pc = "addThread" => ~\E k \in Window' : k <= r.seen /\ arts'[k].thread
<1>1. CASE arts' = arts
  BY <1>1 DEF DeskInv, Looked, Window
<1>2. CASE \E e : arts' = Append(arts, e)
  <2>1. PICK e : arts' = Append(arts, e)
    BY <1>2
  <2>2. /\ ASeq(arts') /\ Len(arts) \in Nat /\ DOMAIN arts = 1..Len(arts) /\ Len(arts') = Len(arts) + 1
        /\ \A k \in 1..Len(arts) : arts'[k] = arts[k]
        /\ DOMAIN arts' = 1..(Len(arts) + 1)
    BY <2>1, AppendTo DEF DeskInv
  <2>3. ASSUME NEW k \in Window', k <= r.seen PROVE k \in Window /\ arts'[k] = arts[k]
    <3>1. k \in 1..(Len(arts) + 1) /\ k + ArtifactWindow > Len(arts) + 1
      BY <2>2 DEF Window
    <3>2. k \in 1..Len(arts) /\ k + ArtifactWindow > Len(arts)
      BY <2>2, <2>3, <3>1, DeskConstants
    <3> QED BY <2>2, <3>2 DEF Window
  <2>4. r.seen \in 0..Len(arts')
    BY <2>2
  <2> QED BY <2>2, <2>3, <2>4 DEF Looked
<1> QED BY <1>1, <1>2

(* The shapes of a step: of the tasks, of the artifacts, and of the requests. *)
Tasked ==
    \/ UNCHANGED tasks
    \/ \E s : tasks' = Append(tasks, s)
    \/ \E t, s : CanSave(t, s) /\ tasks' = [tasks EXCEPT ![t] = s]
    \/ \E t : tasks' = [tasks EXCEPT ![t] = "deleted"]
Grown == arts' = arts \/ \E e : arts' = Append(arts, e)
Turned(w) == \E r : /\ IsRequest(r) /\ req' = [req EXCEPT ![w] = r] /\ r.seen \in 0..Len(arts)
                    /\ r.pc \notin {"add", "addThread"} \/ (Looked(r) /\ arts' = arts)

LEMMA ShapesKeep ==
  ASSUME DeskInv, Tasked, Grown, req' = req \/ \E w \in Workers : Turned(w)
  PROVE  DeskInv'
<1>1. ASeq(tasks')
  <2>1. ASeq(tasks)
    BY DEF DeskInv
  <2>2. ASSUME NEW s, tasks' = Append(tasks, s) PROVE ASeq(tasks')
    BY <2>1, <2>2, AppendTo
  <2>3. ASSUME NEW t, NEW s, tasks' = [tasks EXCEPT ![t] = s] PROVE ASeq(tasks')
    BY <2>1, <2>3, ExceptOf
  <2> QED BY <2>1, <2>2, <2>3 DEF Tasked
<1>2. ASeq(arts')
  BY AppendTo DEF DeskInv, Grown
<1>3. \A v \in Workers : IsRequest(req[v]) /\ req[v].seen \in 0..Len(arts) /\ Looked(req[v])
  BY DEF DeskInv
<1>4. ASSUME NEW v \in Workers, req'[v] = req[v]
      PROVE  IsRequest(req'[v]) /\ req'[v].seen \in 0..Len(arts') /\ Looked(req[v])'
  BY <1>3, <1>4, LookedStays DEF Grown, Looked
<1>5. CASE req' = req
  BY <1>1, <1>2, <1>4, <1>5 DEF DeskInv
<1>6. ASSUME NEW w \in Workers, Turned(w) PROVE DeskInv'
  <2>1. PICK r : /\ IsRequest(r) /\ req' = [req EXCEPT ![w] = r] /\ r.seen \in 0..Len(arts)
                 /\ r.pc \notin {"add", "addThread"} \/ (Looked(r) /\ arts' = arts)
    BY <1>6 DEF Turned
  <2>2. req'[w] = r /\ DOMAIN req' = Workers /\ \A v \in Workers \ {w} : req'[v] = req[v]
    BY <2>1 DEF DeskInv
  <2>3. r.seen \in 0..Len(arts') /\ Looked(req[w])'
    <3>1. Looked(r)
      BY <2>1 DEF Looked
    <3> QED BY <2>1, <2>2, <3>1, LookedStays DEF Grown, Looked
  <2> QED BY <1>1, <1>2, <1>4, <2>1, <2>2, <2>3 DEF DeskInv
<1> QED BY <1>5, <1>6

LEMMA GotoTurns ==
  ASSUME DeskInv, NEW w \in Workers, NEW pc, Goto(w, pc), pc \notin {"add", "addThread"}
  PROVE  Turned(w)
<1>1. PICK r : r = [req[w] EXCEPT !.pc = pc]
  OBVIOUS
<1>2. IsRequest(req[w]) /\ req[w].seen \in 0..Len(arts)
  BY DEF DeskInv
<1>3. IsRequest(r) /\ r.seen = req[w].seen /\ r.pc = pc
  BY <1>1, <1>2 DEF IsRequest
<1>4. req' = [req EXCEPT ![w] = r]
  BY <1>1 DEF Goto
<1> QED BY <1>2, <1>3, <1>4 DEF Turned

LEMMA RestTurns ==
  ASSUME DeskInv, NEW w \in Workers, req' = [req EXCEPT ![w] = NoRequest]
  PROVE  Turned(w)
<1>1. IsRequest(NoRequest) /\ NoRequest.pc = "idle" /\ NoRequest.seen = 0
  BY DEF NoRequest, IsRequest
<1>2. 0 \in 0..Len(arts)
  BY AppendTo DEF DeskInv
<1> QED BY <1>1, <1>2 DEF Turned

LEMMA NextItemTurns == ASSUME DeskInv, NEW w \in Workers, NextItem(w) PROVE Turned(w)
<1>1. IsRequest(req[w]) /\ req[w].seen \in 0..Len(arts)
  BY DEF DeskInv
<1>2. CASE Tail(req[w].todo) = <<>>
  <2>1. PICK r : r = [req[w] EXCEPT !.todo = <<>>, !.pc = "synced"]
    OBVIOUS
  <2>2. IsRequest(r) /\ r.seen = req[w].seen /\ r.pc = "synced"
    BY <1>1, <2>1 DEF IsRequest
  <2>3. req' = [req EXCEPT ![w] = r]
    BY <1>2, <2>1 DEF NextItem
  <2> QED BY <1>1, <2>2, <2>3 DEF Turned
<1>3. CASE Tail(req[w].todo) # <<>>
  <2>1. PICK r : r = [req[w] EXCEPT !.todo = Tail(req[w].todo), !.pc = "task",
                                    !.task = msgs[Head(Tail(req[w].todo))].task,
                                    !.status = Suggested(msgs[Head(Tail(req[w].todo))].kind)]
    OBVIOUS
  <2>2. IsRequest(r) /\ r.seen = req[w].seen /\ r.pc = "task"
    BY <1>1, <2>1 DEF IsRequest
  <2>3. req' = [req EXCEPT ![w] = r]
    BY <1>3, <2>1 DEF NextItem
  <2> QED BY <1>1, <2>2, <2>3 DEF Turned
<1> QED BY <1>2, <1>3

LEMMA FailItemTurns == ASSUME DeskInv, NEW w \in Workers, FailItem(w) PROVE Turned(w)
BY NextItemTurns, RestTurns DEF FailItem

LEMMA SyncedTurns == ASSUME DeskInv, NEW w \in Workers, Synced(w) PROVE Turned(w)
BY NextItemTurns, FailItemTurns, GotoTurns DEF Synced

LEMMA BeginTurns ==
  ASSUME DeskInv, NEW w \in Workers, NEW op, NEW pc, NEW ms, NEW t, NEW s,
         BeginRequest(w, op, pc, ms, t, s), pc \notin {"add", "addThread"}
  PROVE  Turned(w) /\ Tasked /\ Grown
<1>1. PICK r : r = [op |-> op, pc |-> pc, todo |-> ms, task |-> t, status |-> s, seen |-> Len(arts)]
  OBVIOUS
<1>2. IsRequest(r) /\ r.seen = Len(arts) /\ r.pc = pc
  BY <1>1 DEF IsRequest
<1>3. Len(arts) \in 0..Len(arts)
  BY AppendTo DEF DeskInv
<1>4. req' = [req EXCEPT ![w] = r] /\ UNCHANGED <<tasks, arts>>
  BY <1>1 DEF BeginRequest
<1> QED BY <1>2, <1>3, <1>4 DEF Turned, Tasked, Grown

LEMMA RoomRequestTurns ==
  ASSUME DeskInv, NEW w \in Workers, TaskPages(w) \/ RoomRequests(w)
  PROVE  Turned(w) /\ Tasked /\ Grown
<1>1. CASE TaskPages(w)
  <2>1. \E t, s, pc : BeginRequest(w, "page", pc, <<>>, t, s) /\ pc \in {"save", "delete"}
    BY <1>1 DEF TaskPages, TaskStatus, TaskUpdate, A2ATaskCancel, TaskDelete, Change
  <2>2. PICK t, s, pc : BeginRequest(w, "page", pc, <<>>, t, s) /\ pc \in {"save", "delete"}
    BY <2>1
  <2>3. pc \notin {"add", "addThread"}
    BY <2>2
  <2> QED BY <2>2, <2>3, BeginTurns
<1>2. CASE \E i \in DOMAIN msgs : Item(w, i)
  BY <1>2, BeginTurns DEF Item
<1>3. CASE \E i \in DOMAIN msgs : Distil(w, i)
  <2>1. PICK i \in DOMAIN msgs : BeginRequest(w, "distil", "look", <<i>>, 0, "")
    BY <1>3 DEF Distil
  <2>2. "look" \notin {"add", "addThread"}
    OBVIOUS
  <2> QED BY <2>1, <2>2, BeginTurns
<1>4. CASE Batch(w)
  <2>1. PICK r : r = [op |-> "batch", pc |-> "task", todo |-> Backwards, task |-> msgs[Len(msgs)].task,
                      status |-> Suggested(msgs[Len(msgs)].kind), seen |-> Len(arts)]
    OBVIOUS
  <2>2. IsRequest(r) /\ r.seen = Len(arts) /\ r.pc = "task"
    BY <2>1 DEF IsRequest
  <2>3. Len(arts) \in 0..Len(arts)
    BY AppendTo DEF DeskInv
  <2>4. req' = [req EXCEPT ![w] = r] /\ UNCHANGED <<tasks, arts>>
    BY <1>4, <2>1 DEF Batch
  <2> QED BY <2>2, <2>3, <2>4 DEF Turned, Tasked, Grown
<1>5. CASE ThreadSync(w) \/ ThreadSyncAll(w) \/ ThreadTask(w) \/ ThreadArtifact(w)
  <2>1. PICK op, pc, t, s : BeginRequest(w, op, pc, <<>>, t, s) /\ pc \in {"thread", "save", "lookThread"}
    BY <1>5 DEF ThreadSync, ThreadSyncAll, ThreadTask, ThreadArtifact
  <2>2. pc \notin {"add", "addThread"}
    BY <2>1
  <2> QED BY <2>1, <2>2, BeginTurns
<1> QED
  BY <1>1, <1>2, <1>3, <1>4, <1>5
  DEF RoomRequests, IncidentSync, HandoffSync, ArtifactSync, DecisionSync, IncidentSyncAll, HandoffSyncAll,
      ArtifactSyncAll, DecisionSyncAll, IncidentDistil, HandoffDistil, ArtifactDistil, DecisionDistil

LEMMA HandleTurns ==
  ASSUME DeskInv, NEW w \in Workers, Handle(w)
  PROVE  Turned(w) /\ Tasked /\ Grown
<1>0. IsRequest(req[w]) /\ req[w].seen \in 0..Len(arts)
  BY DEF DeskInv
<1> USE DEF OnlyReq, TasksOnly, Same
<1>1. CASE CreateBound(w)
  <2>1. arts' = arts /\ Tasked
    BY <1>1 DEF CreateBound, AppendTask, Tasked
  <2>2. Goto(w, "pick") \/ FailItem(w)
    BY <1>1 DEF CreateBound
  <2> QED BY <2>1, <2>2, GotoTurns, FailItemTurns DEF Grown
<1>2. CASE Pick(w)
  <2>1. UNCHANGED <<tasks, arts>>
    BY <1>2 DEF Pick
  <2>2. CASE FailItem(w)
    BY <2>1, <2>2, FailItemTurns DEF Tasked, Grown
  <2>3. CASE req' = [req EXCEPT ![w].task = recent[1], ![w].pc = "task"]
    <3>1. PICK r : r = [req[w] EXCEPT !.task = recent[1], !.pc = "task"]
      OBVIOUS
    <3>2. IsRequest(r) /\ r.seen = req[w].seen /\ r.pc = "task"
      BY <1>0, <3>1 DEF IsRequest
    <3>3. req' = [req EXCEPT ![w] = r]
      BY <2>3, <3>1
    <3> QED BY <1>0, <2>1, <3>2, <3>3 DEF Turned, Tasked, Grown
  <2> QED BY <1>2, <2>2, <2>3 DEF Pick
<1>3. CASE LoadBound(w)
  <2>1. UNCHANGED <<tasks, arts>> /\ (Synced(w) \/ FailItem(w) \/ Goto(w, "save"))
    BY <1>3 DEF LoadBound
  <2> QED BY <2>1, SyncedTurns, FailItemTurns, GotoTurns DEF Tasked, Grown
<1>4. CASE SaveLoaded(w)
  <2>1. arts' = arts /\ Tasked
    BY <1>4 DEF SaveLoaded, SaveTask, Tasked
  <2>2. Synced(w) \/ FailItem(w)
    BY <1>4 DEF SaveLoaded
  <2> QED BY <2>1, <2>2, SyncedTurns, FailItemTurns DEF Grown
<1>5. CASE DeleteLoaded(w)
  <2>1. arts' = arts /\ Tasked /\ req' = [req EXCEPT ![w] = NoRequest]
    BY <1>5 DEF DeleteLoaded, DeleteTask, Tasked
  <2> QED BY <2>1, RestTurns DEF Grown
<1>6. CASE LookForArtifact(w)
  <2>1. UNCHANGED <<tasks, arts>>
    BY <1>6 DEF LookForArtifact
  <2>2. CASE Distilled(Head(req[w].todo))
    BY <1>6, <2>1, <2>2, NextItemTurns DEF LookForArtifact, Tasked, Grown
  <2>3. CASE ~Distilled(Head(req[w].todo))
    <3>1. PICK r : r = [req[w] EXCEPT !.pc = "add"]
      OBVIOUS
    <3>2. IsRequest(r) /\ r.seen = req[w].seen /\ r.pc = "add" /\ r.todo = req[w].todo
      BY <1>0, <3>1 DEF IsRequest
    <3>3. req' = [req EXCEPT ![w] = r]
      BY <1>6, <2>3, <3>1 DEF LookForArtifact, Goto
    <3>4. Looked(r)
      BY <2>3, <3>2 DEF Looked, Distilled
    <3> QED BY <1>0, <2>1, <3>2, <3>3, <3>4 DEF Turned, Tasked, Grown
  <2> QED BY <2>2, <2>3
<1>7. CASE AddArtifact(w)
  <2>1. UNCHANGED tasks /\ Grown /\ NextItem(w)
    BY <1>7 DEF AddArtifact, AppendArtifact, Grown
  <2> QED BY <2>1, NextItemTurns DEF Tasked
<1>8. CASE ReadThread(w)
  <2>1. PICK r : r = [req[w] EXCEPT !.task = Either(@, BoundTask), !.status = ThreadStatus, !.pc = "task"]
    OBVIOUS
  <2>2. IsRequest(r) /\ r.seen = req[w].seen /\ r.pc = "task"
    BY <1>0, <2>1 DEF IsRequest
  <2>3. UNCHANGED <<tasks, arts>> /\ req' = [req EXCEPT ![w] = r]
    BY <1>8, <2>1 DEF ReadThread
  <2> QED BY <1>0, <2>2, <2>3 DEF Turned, Tasked, Grown
<1>9. CASE LookForThread(w)
  <2>1. UNCHANGED <<tasks, arts>>
    BY <1>9 DEF LookForThread
  <2>2. CASE ThreadArtifacts # {}
    BY <1>9, <2>1, <2>2, GotoTurns DEF LookForThread, Tasked, Grown
  <2>3. CASE ThreadArtifacts = {}
    <3>1. PICK r : r = [req[w] EXCEPT !.pc = "addThread", !.todo = <<Len(msgs)>>, !.task = Either(@, BoundTask)]
      OBVIOUS
    <3>2. IsRequest(r) /\ r.seen = req[w].seen /\ r.pc = "addThread"
      BY <1>0, <3>1 DEF IsRequest
    <3>3. req' = [req EXCEPT ![w] = r]
      BY <1>9, <2>3, <3>1 DEF LookForThread
    <3>4. Looked(r)
      BY <2>3, <3>2 DEF Looked, ThreadArtifacts
    <3> QED BY <1>0, <2>1, <3>2, <3>3, <3>4 DEF Turned, Tasked, Grown
  <2> QED BY <2>2, <2>3
<1>10. CASE AddThread(w)
  <2>1. PICK r : r = [req[w] EXCEPT !.todo = <<>>, !.pc = "synced"]
    OBVIOUS
  <2>2. IsRequest(r) /\ r.seen = req[w].seen /\ r.pc = "synced"
    BY <1>0, <2>1 DEF IsRequest
  <2>3. UNCHANGED tasks /\ Grown /\ req' = [req EXCEPT ![w] = r]
    BY <1>10, <2>1 DEF AddThread, AppendArtifact, Grown
  <2> QED BY <1>0, <2>2, <2>3 DEF Turned, Tasked
<1>11. CASE Respond(w)
  BY <1>11, RestTurns DEF Respond, Tasked, Grown
<1>12. CASE SavePage(w)
  <2>1. arts' = arts /\ Tasked /\ req' = [req EXCEPT ![w] = NoRequest]
    BY <1>12 DEF SavePage, SaveTask, Tasked
  <2> QED BY <2>1, RestTurns DEF Grown
<1>13. CASE SyncTask(w)
  BY <1>13, <1>1, <1>2, <1>3, <1>4 DEF SyncTask
<1>14. CASE EnsureArtifact(w)
  BY <1>14, <1>6, <1>7 DEF EnsureArtifact
<1> QED BY <1>5, <1>8, <1>9, <1>10, <1>11, <1>12, <1>13, <1>14
        DEF Handle, SyncIncidentRoomTask, SyncHandoffRoomTask, SyncArtifactRoomTask, SyncDecisionRoomTask,
            SyncReviewRoomThread, EnsureIncidentRoomArtifact, EnsureHandoffRoomArtifact,
            EnsureArtifactRoomArtifact, EnsureDecisionRoomArtifact

LEMMA DeskStep ==
  ASSUME DeskInv, DeskNext
  PROVE  Tasked /\ Grown /\ (req' = req \/ \E w \in Workers : Turned(w))
<1>1. CASE Post
  BY <1>1 DEF Post, IncidentPost, HandoffPost, ArtifactPost, DecisionPost, ReviewPost, PlanPost,
     PostRoomMessage, Tasked, Grown
<1>2. CASE ReviewDistil \/ SkillDistil
  BY <1>2 DEF ReviewDistil, SkillDistil, Copy, AppendArtifact, Tasked, Grown
<1>3. CASE (\E p \in Policies : SavePolicy(p)) \/ \E s \in Statuses : TaskCreate(s)
  BY <1>3 DEF SavePolicy, TaskCreate, AddTask, AppendTask, Tasked, Grown
<1>4. ASSUME NEW w \in Workers, TaskPages(w) \/ RoomRequests(w) \/ Handle(w)
      PROVE  Tasked /\ Grown /\ Turned(w)
  BY <1>4, RoomRequestTurns, HandleTurns
<1> QED BY <1>1, <1>2, <1>3, <1>4 DEF DeskNext

LEMMA DeskInitInv == DeskInit => DeskInv
<1> SUFFICES ASSUME DeskInit PROVE DeskInv
  OBVIOUS
<1>1. ASeq(tasks) /\ ASeq(arts) /\ Len(arts) = 0
  BY EmptySeq DEF DeskInit, ASeq
<1>2. \A w \in Workers : req[w] = NoRequest
  BY DEF DeskInit
<1>3. IsRequest(NoRequest) /\ NoRequest.seen = 0 /\ Looked(NoRequest)
  BY DEF IsRequest, NoRequest, Looked
<1> QED BY <1>1, <1>2, <1>3 DEF DeskInit, DeskInv

LEMMA DeskNextInv == DeskInv /\ [DeskNext]_deskvars => DeskInv'
<1> SUFFICES ASSUME DeskInv, [DeskNext]_deskvars PROVE DeskInv'
  OBVIOUS
<1>1. CASE UNCHANGED deskvars
  BY <1>1, ShapesKeep DEF deskvars, Tasked, Grown
<1>2. CASE DeskNext
  BY <1>2, DeskStep, ShapesKeep
<1> QED BY <1>1, <1>2

(* Requests keep the shape of their records, and one about to add an artifact saw none for
   the same message, or thread, among those it began with. *)
THEOREM DeskInvariant == DeskSpec => []DeskInv
<1>1. DeskInit => DeskInv
  BY DeskInitInv
<1>2. DeskInv /\ [DeskNext]_deskvars => DeskInv'
  BY DeskNextInv
<1> QED BY <1>1, <1>2, PTL DEF DeskSpec

(* Whatever a handler loaded before, a deleted task stays deleted and a closed one closed
   (store.go:1690). *)
THEOREM ClosedStaysClosedHolds == DeskSpec => ClosedStaysClosed
<1>1. DeskInv /\ [DeskNext]_deskvars =>
        [\A t \in DOMAIN tasks :
           /\ tasks[t] = "deleted" => tasks'[t] = "deleted"
           /\ tasks[t] \in Terminal \ DOMAIN policy.rules => tasks'[t] \in {tasks[t], "deleted"}]_deskvars
  <2> SUFFICES ASSUME DeskInv, DeskNext, NEW t \in DOMAIN tasks
               PROVE  /\ tasks[t] = "deleted" => tasks'[t] = "deleted"
                      /\ tasks[t] \in Terminal \ DOMAIN policy.rules => tasks'[t] \in {tasks[t], "deleted"}
    OBVIOUS
  <2>1. Tasked
    BY DeskStep
  <2>2. ASSUME NEW s, tasks' = Append(tasks, s) PROVE tasks'[t] = tasks[t]
    BY <2>2, AppendTo DEF DeskInv
  <2>3. ASSUME NEW u, NEW s, CanSave(u, s), tasks' = [tasks EXCEPT ![u] = s]
        PROVE  /\ tasks[t] # "deleted" \/ tasks'[t] = "deleted"
               /\ tasks[t] \in Terminal \ DOMAIN policy.rules => tasks'[t] = tasks[t]
    <3>1. CASE u = t
      <4>1. tasks'[t] = s /\ tasks[t] # "deleted" /\ LegalMove(tasks[t], s)
        BY <2>3, <3>1 DEF CanSave
      <4>2. ASSUME tasks[t] \in Terminal \ DOMAIN policy.rules PROVE s = tasks[t]
        BY <4>1, <4>2 DEF LegalMove, Moves, Terminal
      <4> QED BY <4>1, <4>2
    <3>2. CASE u # t
      BY <2>3, <3>2
    <3> QED BY <3>1, <3>2
  <2>4. ASSUME NEW u, tasks' = [tasks EXCEPT ![u] = "deleted"] PROVE tasks'[t] \in {tasks[t], "deleted"}
    BY <2>4
  <2> QED BY <2>1, <2>2, <2>3, <2>4 DEF Tasked
<1> QED BY <1>1, DeskInvariant, PTL DEF DeskSpec, ClosedStaysClosed

(* A request that looks for the artifact of a message never adds a second one
   (rooms/incidentroom/handler.go:1003). *)
THEOREM NoSecondDistilHolds == DeskSpec => NoSecondDistil
<1>1. DeskInv =>
        \A w \in Workers : req[w].pc \in {"add", "addThread"} =>
          ~\E k \in Window : /\ k <= req[w].seen
                             /\ IF req[w].pc = "add" THEN arts[k].msg = Head(req[w].todo)
                                ELSE arts[k].thread
  BY DEF DeskInv, Looked
<1>2. DeskInv /\ [DeskNext]_deskvars =>
        [\A w \in Workers : req[w].pc \in {"add", "addThread"} /\ arts' # arts /\ req'[w] # req[w] =>
          ~\E k \in Window : /\ k <= req[w].seen
                             /\ IF req[w].pc = "add" THEN arts[k].msg = Head(req[w].todo)
                                ELSE arts[k].thread]_deskvars
  BY <1>1
<1> QED BY <1>2, DeskInvariant, PTL DEF DeskSpec, NoSecondDistil

-----------------------------------------------------------------------------
(* The records of s that are newer than r. *)
Newer(s, r) == {q \in s : q.at > r.at}

LEMMA NewestOfSet ==
  ASSUME NEW s, IsFiniteSet(s), s # {}, \A r \in s : r.at \in Nat
  PROVE  \E m \in s : \A r \in s : r.at <= m.at
<1> DEFINE B == {Newer(s, r) : r \in s}
<1>1. B \subseteq FiniteSubsetsOf(s) /\ B # {}
  <2> SUFFICES ASSUME NEW r \in s PROVE Newer(s, r) \in FiniteSubsetsOf(s)
    OBVIOUS
  <2>1. Newer(s, r) \in SUBSET s
    BY DEF Newer
  <2>2. IsFiniteSet(Newer(s, r))
    BY <2>1, FS_Subset
  <2> QED BY <2>1, <2>2 DEF FiniteSubsetsOf
<1>2. PICK b \in B : \A c \in B : ~(<<c, b>> \in StrictSubsetOrdering(s))
  <2> HIDE DEF B
  <2> QED BY <1>1, FS_StrictSubsetOrderingWellFounded, WFMin
<1>3. PICK m \in s : b = Newer(s, m)
  OBVIOUS
<1>4. ASSUME NEW r \in s, ~(r.at <= m.at) PROVE FALSE
  <2>1. r.at \in Nat /\ m.at \in Nat /\ r.at > m.at
    BY <1>4
  <2>2. \A q \in s : q.at \in Nat /\ (q.at > r.at => q.at > m.at)
    BY <2>1
  <2>3. Newer(s, r) \subseteq Newer(s, m) /\ r \in Newer(s, m) /\ r \notin Newer(s, r)
    BY <2>1, <2>2 DEF Newer
  <2>4. Newer(s, r) \in SUBSET s /\ Newer(s, m) \in SUBSET s
    BY DEF Newer
  <2>5. <<Newer(s, r), Newer(s, m)>> \in StrictSubsetOrdering(s)
    BY <2>3, <2>4 DEF StrictSubsetOrdering
  <2> QED BY <1>2, <1>3, <2>5
<1> QED BY <1>4

(* When the record of one delivery is replaced, no set of newer records gets smaller. *)
LEMMA SwapOne ==
  ASSUME NEW a, NEW b, IsFiniteSet(a), IsFiniteSet(b), NEW d, NEW x, x.id = d,
         \A r \in a : r.id # d => r \in b,
         \A r \in a : r.id = d => x \in b,
         \A r, q \in a : r.id = d /\ q.id = d => r = q
  PROVE  Cardinality(a) <= Cardinality(b)
<1>1. CASE \A r \in a : r.id # d
  BY <1>1, FS_Subset
<1>2. CASE \E r \in a : r.id = d
  <2>1. PICK o \in a : o.id = d
    BY <1>2
  <2> DEFINE c == a \ {o}
  <2>2. IsFiniteSet(c) /\ Cardinality(c) = Cardinality(a) - 1
    BY <2>1, FS_RemoveElement
  <2>3. x \notin c /\ c \cup {x} \subseteq b
    BY <2>1
  <2>4. Cardinality(c \cup {x}) = Cardinality(c) + 1
    BY <2>2, <2>3, FS_AddElement
  <2>5. Cardinality(c \cup {x}) <= Cardinality(b)
    BY <2>3, FS_Subset
  <2>6. Cardinality(a) \in Nat
    BY FS_CardinalityType
  <2> QED BY <2>2, <2>4, <2>5, <2>6
<1> QED BY <1>1, <1>2

(* The newest records after one of them was replaced do not depend on the older records
   that were forgotten before. *)
LEMMA RecentOfReplaced ==
  ASSUME NEW w, IsFiniteSet(w), \A r \in w : r.at \in Nat, NEW d, NEW x, x.id = d, x.at \in Nat,
         \A r \in w : r.id = d => r.at <= x.at,
         \A r, q \in w : r.id = d /\ q.id = d => r = q
  PROVE  Recent({r \in Recent(w) : r.id # d} \cup {x}) = Recent({r \in w : r.id # d} \cup {x})
<1> DEFINE k == {r \in Recent(w) : r.id # d} \cup {x}
           n == {r \in w : r.id # d} \cup {x}
<1>1. /\ k \subseteq n /\ \A r \in n : r.at \in Nat
      /\ \A s : Recent(s) = {r \in s : Cardinality(Newer(s, r)) < KeepDeliveries}
  BY DEF Recent, Newer
<1>2. IsFiniteSet(n)
  <2>1. IsFiniteSet({r \in w : r.id # d})
    BY FS_Subset
  <2> QED BY <2>1, FS_AddElement
<1>3. \A r \in n \cup w : /\ IsFiniteSet(Newer(n, r)) /\ IsFiniteSet(Newer(k, r)) /\ IsFiniteSet(Newer(w, r))
                   /\ Cardinality(Newer(n, r)) \in Nat /\ Cardinality(Newer(w, r)) \in Nat
                   /\ Cardinality(Newer(k, r)) \in Nat /\ Cardinality(Newer(k, r)) <= Cardinality(Newer(n, r))
  <2> SUFFICES ASSUME NEW r \in n \cup w
               PROVE  /\ IsFiniteSet(Newer(n, r)) /\ IsFiniteSet(Newer(k, r)) /\ IsFiniteSet(Newer(w, r))
                      /\ Cardinality(Newer(n, r)) \in Nat /\ Cardinality(Newer(w, r)) \in Nat
                      /\ Cardinality(Newer(k, r)) \in Nat
                      /\ Cardinality(Newer(k, r)) <= Cardinality(Newer(n, r))
    OBVIOUS
  <2>1. Newer(n, r) \in SUBSET n /\ Newer(k, r) \in SUBSET Newer(n, r) /\ Newer(w, r) \in SUBSET w
    BY <1>1 DEF Newer
  <2>2. IsFiniteSet(Newer(n, r)) /\ IsFiniteSet(Newer(w, r))
    BY <1>2, <2>1, FS_Subset
  <2> HIDE DEF n, k
  <2>3. IsFiniteSet(Newer(k, r)) /\ Cardinality(Newer(k, r)) <= Cardinality(Newer(n, r))
    BY <2>1, <2>2, FS_Subset
  <2> QED BY <2>2, <2>3, FS_CardinalityType
<1>4. KeepDeliveries \in Nat
  BY HookConstants
<1>5. ASSUME NEW y \in Recent(n) PROVE y \in Recent(k)
  <2>1. y \in n /\ Cardinality(Newer(n, y)) < KeepDeliveries
    BY <1>1
  <2>2. y \in k
    <3>1. CASE y = x
      BY <3>1
    <3>2. CASE y # x
      <4>1. y \in w /\ y.id # d
        BY <2>1, <3>2
      <4>2. \A r \in Newer(w, y) : r.id # d => r \in Newer(n, y)
        BY DEF Newer
      <4>3. \A r \in Newer(w, y) : r.id = d => x \in Newer(n, y)
        <5> SUFFICES ASSUME NEW r \in Newer(w, y), r.id = d PROVE x.at > y.at
          BY DEF Newer
        <5>1. r.at > y.at /\ r.at <= x.at /\ r.at \in Nat /\ y.at \in Nat
          BY <4>1 DEF Newer
        <5> QED BY <5>1
      <4>4. \A r, q \in Newer(w, y) : r.id = d /\ q.id = d => r = q
        BY DEF Newer
      <4>5. IsFiniteSet(Newer(w, y)) /\ IsFiniteSet(Newer(n, y))
        BY <1>3, <2>1
      <4>6. Cardinality(Newer(w, y)) <= Cardinality(Newer(n, y))
        <5> HIDE DEF n, k
        <5> QED BY <4>2, <4>3, <4>4, <4>5, SwapOne
      <4>7. Cardinality(Newer(w, y)) < KeepDeliveries
        <5>1. Cardinality(Newer(w, y)) \in Nat /\ Cardinality(Newer(n, y)) \in Nat
          BY <4>5, FS_CardinalityType
        <5> QED BY <1>4, <2>1, <4>6, <5>1
      <4> QED BY <1>1, <4>1, <4>7
    <3> QED BY <3>1, <3>2
  <2>3. Cardinality(Newer(k, y)) < KeepDeliveries
    BY <1>3, <1>4, <2>1
  <2> QED BY <1>1, <2>2, <2>3
<1>6. ASSUME NEW y \in Recent(k), y \notin Recent(n) PROVE FALSE
  <2>1. y \in k /\ y \in n /\ Cardinality(Newer(k, y)) < KeepDeliveries
    BY <1>1
  <2>2. ~(Cardinality(Newer(n, y)) < KeepDeliveries)
    BY <1>1, <1>6, <2>1
  <2>3. PICK q \in Newer(n, y) : q \notin Newer(k, y)
    <3>1. Newer(n, y) # Newer(k, y)
      BY <2>1, <2>2
    <3> QED BY <1>1, <3>1 DEF Newer
  <2> DEFINE gone == {r \in w : r \notin Recent(w)}
  <2>4. q \in gone /\ q.at > y.at
    BY <2>3 DEF Newer
  <2>5. IsFiniteSet(gone) /\ \A r \in gone : r.at \in Nat
    BY FS_Subset
  <2>6. PICK m \in gone : \A r \in gone : r.at <= m.at
    <3> HIDE DEF gone
    <3> QED BY <2>4, <2>5, NewestOfSet
  <2>7. m.at \in Nat /\ q.at \in Nat /\ y.at \in Nat /\ m.at >= q.at
    BY <1>1, <2>1, <2>4, <2>5, <2>6
  <2>8. ~(Cardinality(Newer(w, m)) < KeepDeliveries)
    BY <1>1
  <2>9. \A r \in Newer(w, m) : r \in Recent(w) /\ r.at > y.at /\ r.at \in Nat
    <3> SUFFICES ASSUME NEW r \in Newer(w, m) PROVE r \in Recent(w) /\ r.at > y.at /\ r.at \in Nat
      OBVIOUS
    <3>1. r \in w /\ r.at > m.at /\ r.at \in Nat
      BY DEF Newer
    <3>2. r \notin gone
      BY <2>6, <2>7, <3>1
    <3>3. r.at > y.at
      BY <2>4, <2>7, <3>1
    <3> QED BY <3>1, <3>2, <3>3
  <2>10. \A r \in Newer(w, m) : r.id # d => r \in Newer(k, y)
    BY <2>9 DEF Newer
  <2>11. \A r \in Newer(w, m) : r.id = d => x \in Newer(k, y)
    <3> SUFFICES ASSUME NEW r \in Newer(w, m), r.id = d PROVE x.at > y.at
      BY DEF Newer
    <3>1. r.at > y.at /\ r.at \in Nat /\ r.at <= x.at
      BY <2>9 DEF Newer
    <3> QED BY <2>7, <3>1
  <2>12. \A r, s \in Newer(w, m) : r.id = d /\ s.id = d => r = s
    BY DEF Newer
  <2>13. IsFiniteSet(Newer(w, m)) /\ IsFiniteSet(Newer(k, y))
    BY <1>3, <2>1
  <2>14. Cardinality(Newer(w, m)) <= Cardinality(Newer(k, y))
    <3> HIDE DEF n, k, gone
    <3> QED BY <2>10, <2>11, <2>12, <2>13, SwapOne
  <2>15. m \in w
    OBVIOUS
  <2>16. Cardinality(Newer(w, m)) \in Nat /\ Cardinality(Newer(k, y)) \in Nat
    BY <2>13, FS_CardinalityType
  <2> QED BY <1>4, <2>1, <2>8, <2>14, <2>16
<1>7. Recent(k) \subseteq k /\ Recent(n) \subseteq n
  BY <1>1
<1> QED BY <1>5, <1>6

SenderPlaces == {"unused", "open", "fill", "post", "wait", "gone"}
DeliveryStates == FinalStates \cup {"pending", "retrying"}
Records == [id : Deliveries, status : DeliveryStates, at : Nat]
Senders == [pc : SenderPlaces, attempt : 0..MaxAttempts, status : DeliveryStates, at : Nat,
            read : SUBSET Records]

HookTypes ==
    /\ hooks \subseteq EventKinds /\ stream \in 0..StreamRoom /\ hookLock \in Deliveries \cup {NoOne}
    /\ stamp \in Nat /\ sender \in [Deliveries -> Senders]
    /\ deliveries \in [readable : BOOLEAN, records : SUBSET Records]
    /\ wrote \in SUBSET Records /\ IsFiniteSet(wrote)
(* A delivery writes records with rising stamps, one at a time. *)
LastWritten ==
    /\ \A r, q \in wrote : r.id = q.id => r = q
    /\ \A r \in wrote : /\ sender[r.id].pc # "unused"
                        /\ sender[r.id].pc # "gone" => r.at <= sender[r.id].at
    /\ \A d \in Deliveries : sender[d].at <= stamp
(* What the holder of the lock read is what the file holds until it is rewritten. *)
ReadUnderLock ==
    \A d \in Deliveries : sender[d].pc = "fill" => hookLock = d /\ sender[d].read = deliveries.records
AttemptsLeft == \A d \in Deliveries : sender[d].pc = "post" => sender[d].attempt < MaxAttempts
HInv == HookTypes /\ LastWritten /\ ReadUnderLock /\ AttemptsLeft /\ deliveries.records = Recent(wrote)

(* One goroutine goes on and writes nothing. *)
LEMMA SenderMoves ==
  ASSUME HInv, NEW d \in Deliveries, NEW s \in Senders, sender' = [sender EXCEPT ![d] = s],
         stamp' \in Nat, stamp <= stamp', s.at <= stamp', s.pc # "unused",
         s.pc # "gone" => sender[d].pc # "gone" /\ sender[d].at <= s.at,
         s.pc = "post" => s.attempt < MaxAttempts,
         UNCHANGED <<wrote, deliveries.records>>, deliveries'.readable \in BOOLEAN,
         deliveries' \in [readable : BOOLEAN, records : SUBSET Records],
         s.pc = "fill" => hookLock' = d /\ s.read = deliveries.records,
         hookLock' \in Deliveries \cup {NoOne},
         \A e \in Deliveries \ {d} : sender[e].pc = "fill" => hookLock' = e,
         hooks' \subseteq EventKinds, stream' \in 0..StreamRoom
  PROVE  HInv'
<1>1. sender'[d] = s /\ (\A e \in Deliveries \ {d} : sender'[e] = sender[e])
      /\ sender' \in [Deliveries -> Senders] /\ sender \in [Deliveries -> Senders]
  BY DEF HInv, HookTypes
<1>2. HookTypes'
  BY <1>1 DEF HInv, HookTypes
<1>3. LastWritten'
  <2>1. \A e \in Deliveries : sender'[e].at <= stamp'
    <3> SUFFICES ASSUME NEW e \in Deliveries PROVE sender'[e].at <= stamp'
      OBVIOUS
    <3>1. CASE e = d
      BY <1>1, <3>1
    <3>2. CASE e # d
      <4>1. sender'[e] = sender[e] /\ sender[e].at \in Nat /\ sender[e].at <= stamp /\ stamp \in Nat
        BY <1>1, <3>2 DEF HInv, HookTypes, LastWritten, Senders
      <4> QED BY <4>1
    <3> QED BY <3>1, <3>2
  <2>2. ASSUME NEW r \in wrote
        PROVE  sender'[r.id].pc # "unused" /\ (sender'[r.id].pc # "gone" => r.at <= sender'[r.id].at)
    <3>1. r.id \in Deliveries /\ r.at \in Nat
      BY DEF HInv, HookTypes, Records
    <3>2. CASE r.id = d
      <4> SUFFICES ASSUME s.pc # "gone" PROVE r.at <= s.at
        BY <1>1, <3>2
      <4>1. r.at <= sender[d].at /\ sender[d].at <= s.at
        BY <3>2 DEF HInv, LastWritten
      <4>2. sender[d].at \in Nat /\ s.at \in Nat
        BY <1>1 DEF Senders
      <4> QED BY <3>1, <4>1, <4>2
    <3>3. CASE r.id # d
      BY <1>1, <3>1, <3>3 DEF HInv, LastWritten
    <3> QED BY <3>2, <3>3
  <2> QED BY <2>1, <2>2 DEF HInv, LastWritten
<1>4. ReadUnderLock'
  BY <1>1 DEF HInv, ReadUnderLock
<1>5. (deliveries.records = Recent(wrote))'
  BY DEF HInv, Recent
<1>6. AttemptsLeft'
  BY <1>1 DEF HInv, AttemptsLeft
<1> QED BY <1>2, <1>3, <1>4, <1>5, <1>6 DEF HInv

LEMMA UnusedSender == Unused \in Senders /\ Gone \in Senders /\ Gone.pc = "gone" /\ Gone.at = 0
BY HookConstants DEF Unused, Gone, Senders, SenderPlaces, DeliveryStates, FinalStates

LEMMA HooksInitInv == HooksInit => HInv
<1> SUFFICES ASSUME HooksInit PROVE HInv
  OBVIOUS
<1>1. HookTypes
  BY UnusedSender, FS_EmptySet, HookConstants DEF HooksInit, HookTypes, NoOne
<1>2. LastWritten /\ ReadUnderLock /\ AttemptsLeft
  BY DEF HooksInit, LastWritten, ReadUnderLock, AttemptsLeft, Unused
<1>3. deliveries.records = Recent(wrote)
  BY DEF HooksInit, Recent
<1> QED BY <1>1, <1>2, <1>3 DEF HInv

(* What Proceeds does to its goroutine. *)
LEMMA ProceedsTo ==
  ASSUME HInv, NEW d \in Deliveries, sender[d].pc \in {"open", "fill"}, Proceeds(d)
  PROVE  /\ stamp' \in Nat /\ stamp <= stamp'
         /\ \E s \in Senders : /\ sender' = [sender EXCEPT ![d] = s] /\ s.at <= stamp'
                               /\ s.pc \in {"gone", "post", "open"}
                               /\ s.pc = "post" => s.attempt < MaxAttempts
                               /\ s.pc # "gone" => sender[d].at <= s.at
<1>1. sender[d] \in Senders /\ stamp \in Nat /\ sender[d].at \in Nat /\ sender[d].at <= stamp
  BY DEF HInv, HookTypes, LastWritten, Senders
<1>2. stamp + 1 \in Nat /\ stamp <= stamp /\ stamp <= stamp + 1 /\ stamp + 1 <= stamp + 1 /\ 0 <= stamp
      /\ sender[d].at <= stamp + 1 /\ sender[d].at <= sender[d].at
  BY <1>1
<1>3. CASE sender[d].status \in FinalStates
  <2>1. sender' = [sender EXCEPT ![d] = Gone] /\ stamp' = stamp
    BY <1>3 DEF Proceeds
  <2>2. Gone \in Senders /\ Gone.at <= stamp /\ Gone.pc = "gone" /\ Gone.pc # "post"
    BY <1>2, UnusedSender
  <2> HIDE DEF Gone
  <2> QED BY <1>1, <1>2, <2>1, <2>2
<1>4. CASE sender[d].status \notin FinalStates /\ sender[d].attempt < MaxAttempts
  <2>1. PICK s : s = [sender[d] EXCEPT !.pc = "post", !.read = {}]
    OBVIOUS
  <2>2. sender' = [sender EXCEPT ![d] = s] /\ stamp' = stamp
    BY <1>4, <2>1 DEF Proceeds
  <2>3. s \in Senders /\ s.pc = "post" /\ s.at = sender[d].at /\ s.attempt < MaxAttempts
    BY <1>1, <1>4, <2>1 DEF Senders, SenderPlaces
  <2> QED BY <1>1, <1>2, <2>2, <2>3
<1>5. CASE sender[d].status \notin FinalStates /\ ~(sender[d].attempt < MaxAttempts)
  <2>1. PICK s : s = [sender[d] EXCEPT !.pc = "open", !.status = "dead_letter", !.at = stamp + 1, !.read = {}]
    OBVIOUS
  <2>2. sender' = [sender EXCEPT ![d] = s] /\ stamp' = stamp + 1
    BY <1>5, <2>1 DEF Proceeds
  <2>3. s \in Senders /\ s.pc = "open" /\ s.at = stamp + 1
    BY <1>1, <1>2, <2>1 DEF Senders, SenderPlaces, DeliveryStates, FinalStates
  <2> QED BY <1>1, <1>2, <2>2, <2>3
<1> QED BY <1>3, <1>4, <1>5

LEMMA SendInv ==
  ASSUME HInv, NEW d \in Deliveries, Send(d), hooks' \subseteq EventKinds, stream' \in 0..StreamRoom
  PROVE  HInv'
<1>1. PICK s : s = [Unused EXCEPT !.pc = "open", !.at = stamp + 1]
  OBVIOUS
<1>2. sender[d].pc = "unused" /\ stamp' = stamp + 1 /\ sender' = [sender EXCEPT ![d] = s]
      /\ UNCHANGED <<deliveries, hookLock, wrote>>
  BY <1>1 DEF Send, Startable
<1>3. stamp \in Nat /\ sender[d].at \in Nat /\ sender[d].at <= stamp
  BY DEF HInv, HookTypes, LastWritten, Senders
<1>4. stamp + 1 \in Nat /\ stamp <= stamp + 1 /\ stamp + 1 <= stamp + 1 /\ sender[d].at <= stamp + 1
  BY <1>3
<1>5. s \in Senders /\ s.pc = "open" /\ s.at = stamp + 1
  BY <1>1, <1>4, UnusedSender DEF Senders, SenderPlaces
<1>6. deliveries' \in [readable : BOOLEAN, records : SUBSET Records] /\ deliveries'.readable \in BOOLEAN
      /\ hookLock' \in Deliveries \cup {NoOne}
  BY <1>2 DEF HInv, HookTypes
<1>7. \A e \in Deliveries \ {d} : sender[e].pc = "fill" => hookLock' = e
  BY <1>2 DEF HInv, ReadUnderLock
<1> QED BY <1>2, <1>3, <1>4, <1>5, <1>6, <1>7, SenderMoves

LEMMA AttemptInv == ASSUME HInv, NEW d \in Deliveries, StartAttempt(d) \/ Answer(d) PROVE HInv'
<1>1. sender[d] \in Senders /\ stamp \in Nat /\ sender[d].at \in Nat /\ sender[d].at <= stamp
  BY DEF HInv, HookTypes, LastWritten, Senders
<1>2. /\ UNCHANGED <<hooks, stream, deliveries, hookLock, wrote>> /\ sender[d].pc \in {"post", "wait"}
  BY DEF StartAttempt, Answer
<1>3. deliveries' \in [readable : BOOLEAN, records : SUBSET Records] /\ deliveries'.readable \in BOOLEAN
      /\ hookLock' \in Deliveries \cup {NoOne} /\ hooks' \subseteq EventKinds /\ stream' \in 0..StreamRoom
  BY <1>2 DEF HInv, HookTypes
<1>4. \A e \in Deliveries \ {d} : sender[e].pc = "fill" => hookLock' = e
  BY <1>2 DEF HInv, ReadUnderLock
<1>5. stamp + 1 \in Nat /\ stamp <= stamp /\ stamp <= stamp + 1 /\ stamp + 1 <= stamp + 1
      /\ sender[d].at <= stamp + 1 /\ sender[d].at <= sender[d].at
  BY <1>1
<1>6. CASE StartAttempt(d)
  <2>1. PICK s : s = [sender[d] EXCEPT !.pc = "wait", !.attempt = @ + 1, !.at = stamp + 1]
    OBVIOUS
  <2>2. sender' = [sender EXCEPT ![d] = s] /\ stamp' = stamp + 1
    BY <1>6, <2>1 DEF StartAttempt
  <2>3. sender[d].attempt < MaxAttempts
    BY <1>6 DEF StartAttempt, HInv, AttemptsLeft
  <2>4. sender[d].attempt + 1 \in 0..MaxAttempts
    BY <1>1, <2>3, HookConstants DEF Senders
  <2>5. s \in Senders /\ s.pc = "wait" /\ s.at = stamp + 1
    BY <1>1, <1>5, <2>1, <2>4 DEF Senders, SenderPlaces
  <2> QED BY <1>2, <1>3, <1>4, <1>5, <2>2, <2>5, SenderMoves
<1>7. CASE Answer(d)
  <2>1. PICK a \in {"delivered", "failed", "retrying"} :
          sender' = [sender EXCEPT ![d].pc = "open", ![d].status = a]
    BY <1>7 DEF Answer
  <2>2. PICK s : s = [sender[d] EXCEPT !.pc = "open", !.status = a]
    OBVIOUS
  <2>3. s \in Senders /\ s.pc = "open" /\ s.at = sender[d].at
    BY <1>1, <2>2 DEF Senders, SenderPlaces, DeliveryStates, FinalStates
  <2>4. sender' = [sender EXCEPT ![d] = s] /\ stamp' = stamp
    BY <1>7, <2>1, <2>2 DEF Answer
  <2> QED BY <1>1, <1>2, <1>3, <1>4, <1>5, <2>3, <2>4, SenderMoves
<1> QED BY <1>6, <1>7

LEMMA OpenDeliveriesInv ==
  ASSUME HInv, NEW d \in Deliveries, OpenDeliveries(d) \/ UpdateTimesOut(d) PROVE HInv'
<1>1. /\ sender[d].pc = "open" /\ UNCHANGED <<hooks, stream, wrote>> /\ sender[d] \in Senders
      /\ stamp \in Nat /\ sender[d].at \in Nat /\ sender[d].at <= stamp
      /\ hooks' \subseteq EventKinds /\ stream' \in 0..StreamRoom
  BY DEF OpenDeliveries, UpdateTimesOut, HInv, HookTypes, LastWritten, Senders
<1>2. CASE UNCHANGED <<deliveries, hookLock>> /\ Proceeds(d)
  <2>1. /\ stamp' \in Nat /\ stamp <= stamp'
        /\ \E s \in Senders : /\ sender' = [sender EXCEPT ![d] = s] /\ s.at <= stamp'
                              /\ s.pc \in {"gone", "post", "open"}
                              /\ s.pc = "post" => s.attempt < MaxAttempts
                              /\ s.pc # "gone" => sender[d].at <= s.at
    BY <1>1, <1>2, ProceedsTo
  <2>2. deliveries' \in [readable : BOOLEAN, records : SUBSET Records] /\ deliveries'.readable \in BOOLEAN
        /\ hookLock' \in Deliveries \cup {NoOne}
    BY <1>2 DEF HInv, HookTypes
  <2>3. \A e \in Deliveries \ {d} : sender[e].pc = "fill" => hookLock' = e
    BY <1>2 DEF HInv, ReadUnderLock
  <2> QED BY <1>1, <1>2, <2>1, <2>2, <2>3, SenderMoves
<1>3. CASE /\ OpenDeliveries(d) /\ hookLock = NoOne /\ deliveries.readable
  <2>1. PICK s : s = [sender[d] EXCEPT !.pc = "fill", !.read = deliveries.records]
    OBVIOUS
  <2>2. /\ sender' = [sender EXCEPT ![d] = s] /\ stamp' = stamp /\ hookLock' = d
        /\ deliveries' = [deliveries EXCEPT !.readable = FALSE]
    BY <1>3, <2>1 DEF OpenDeliveries
  <2>3. s \in Senders /\ s.pc = "fill" /\ s.at = sender[d].at /\ s.read = deliveries.records
    BY <1>1, <2>1 DEF Senders, SenderPlaces, HInv, HookTypes
  <2>4. /\ deliveries' \in [readable : BOOLEAN, records : SUBSET Records] /\ deliveries'.readable \in BOOLEAN
        /\ deliveries'.records = deliveries.records
    BY <2>2 DEF HInv, HookTypes
  <2>5. \A e \in Deliveries \ {d} : sender[e].pc # "fill"
    BY <1>3, HookConstants DEF HInv, ReadUnderLock, NoOne
  <2>6. stamp <= stamp /\ sender[d].at <= sender[d].at
    BY <1>1
  <2> QED BY <1>1, <2>2, <2>3, <2>4, <2>5, <2>6, SenderMoves
<1> QED BY <1>2, <1>3 DEF OpenDeliveries, UpdateTimesOut

(* The rewritten file and the history of all records have the same newest ones. *)
LEMMA FillInv == ASSUME HInv, NEW d \in Deliveries, FillDeliveries(d) PROVE HInv'
<1>1. /\ sender[d].pc = "fill" /\ hookLock = d /\ hookLock' = NoOne /\ sender[d] \in Senders
      /\ sender[d].read = Recent(wrote) /\ wrote' = Replaced(wrote, d)
      /\ deliveries' = [readable |-> TRUE, records |-> Recent(Replaced(sender[d].read, d))]
      /\ Proceeds(d) /\ UNCHANGED <<hooks, stream>>
      /\ stamp \in Nat /\ sender[d].at \in Nat /\ sender[d].at <= stamp
  BY DEF FillDeliveries, HInv, HookTypes, ReadUnderLock, LastWritten, Senders
<1>2. PICK x : x = RecordOf(d)
  OBVIOUS
<1>3. x \in Records /\ x.id = d /\ x.at = sender[d].at
  BY <1>1, <1>2 DEF RecordOf, Records, Senders
<1>4. wrote' = {r \in wrote : r.id # d} \cup {x}
  BY <1>1, <1>2 DEF Replaced
<1>5. IsFiniteSet(wrote') /\ wrote' \in SUBSET Records
  <2>1. IsFiniteSet({r \in wrote : r.id # d})
    BY FS_Subset DEF HInv, HookTypes
  <2>2. IsFiniteSet({r \in wrote : r.id # d} \cup {x})
    BY <2>1, FS_AddElement
  <2> QED BY <1>3, <1>4, <2>2 DEF HInv, HookTypes
<1>6. deliveries'.records = Recent(wrote')
  <2>1. deliveries'.records = Recent({r \in Recent(wrote) : r.id # d} \cup {x})
    BY <1>1, <1>2 DEF Replaced
  <2>2. \A r \in wrote : r.at \in Nat
    BY DEF HInv, HookTypes, Records
  <2>3. \A r \in wrote : r.id = d => r.at <= x.at
    BY <1>1, <1>3 DEF HInv, LastWritten
  <2>4. \A r, q \in wrote : r.id = d /\ q.id = d => r = q
    BY DEF HInv, LastWritten
  <2>5. Recent({r \in Recent(wrote) : r.id # d} \cup {x}) = Recent({r \in wrote : r.id # d} \cup {x})
    BY <1>1, <1>3, <2>2, <2>3, <2>4, RecentOfReplaced DEF HInv, HookTypes
  <2> QED BY <1>4, <2>1, <2>5
<1>7. /\ stamp' \in Nat /\ stamp <= stamp'
      /\ \E s \in Senders : /\ sender' = [sender EXCEPT ![d] = s] /\ s.at <= stamp'
                            /\ s.pc \in {"gone", "post", "open"}
                            /\ s.pc = "post" => s.attempt < MaxAttempts
                            /\ s.pc # "gone" => sender[d].at <= s.at
  BY <1>1, ProceedsTo
<1>8. PICK s \in Senders : /\ sender' = [sender EXCEPT ![d] = s] /\ s.at <= stamp'
                           /\ s.pc \in {"gone", "post", "open"}
                           /\ s.pc = "post" => s.attempt < MaxAttempts
                           /\ s.pc # "gone" => sender[d].at <= s.at
  BY <1>7
<1>9. sender'[d] = s /\ (\A e \in Deliveries \ {d} : sender'[e] = sender[e])
      /\ sender' \in [Deliveries -> Senders]
  BY <1>8 DEF HInv, HookTypes
<1>10. HookTypes'
  <2>1. Recent(wrote') \subseteq Records
    BY <1>5 DEF Recent
  <2>2. deliveries' \in [readable : BOOLEAN, records : SUBSET Records]
    BY <1>1, <1>6, <2>1
  <2> QED BY <1>1, <1>5, <1>7, <1>9, <2>2 DEF HInv, HookTypes
<1>11. LastWritten'
  <2>1. \A r, q \in wrote' : r.id = q.id => r = q
    BY <1>3, <1>4 DEF HInv, LastWritten
  <2>2. ASSUME NEW r \in wrote'
        PROVE  sender'[r.id].pc # "unused" /\ (sender'[r.id].pc # "gone" => r.at <= sender'[r.id].at)
    <3>1. CASE r = x
      BY <1>3, <1>8, <1>9, <3>1
    <3>2. CASE r \in wrote /\ r.id # d
      BY <1>9, <3>2 DEF HInv, LastWritten, HookTypes, Records
    <3> QED BY <1>4, <3>1, <3>2
  <2>3. ASSUME NEW e \in Deliveries PROVE sender'[e].at <= stamp'
    <3>1. CASE e = d
      BY <1>8, <1>9, <3>1
    <3>2. CASE e # d
      <4>1. sender'[e] = sender[e] /\ sender[e].at \in Nat /\ sender[e].at <= stamp
        BY <1>9, <3>2 DEF HInv, HookTypes, LastWritten, Senders
      <4> QED BY <1>1, <1>7, <4>1
    <3> QED BY <3>1, <3>2
  <2> QED BY <2>1, <2>2, <2>3 DEF LastWritten
<1>12. ReadUnderLock' /\ AttemptsLeft'
  <2>1. \A e \in Deliveries \ {d} : sender[e].pc # "fill"
    BY <1>1 DEF HInv, ReadUnderLock
  <2> QED BY <1>8, <1>9, <2>1 DEF HInv, ReadUnderLock, AttemptsLeft
<1> QED BY <1>6, <1>10, <1>11, <1>12 DEF HInv, Recent

LEMMA StopHooksInv == ASSUME HInv, StopHooks PROVE HInv'
<1>1. /\ hookLock' = NoOne /\ stream' = 0 /\ UNCHANGED <<hooks, deliveries, stamp, wrote>>
      /\ sender' = [d \in Deliveries |-> IF sender[d] = Unused THEN Unused ELSE Gone]
  BY DEF StopHooks
<1>2. Unused.pc = "unused" /\ Unused.at = 0 /\ Gone.pc = "gone" /\ Gone.at = 0
  BY DEF Unused, Gone
<1>3. \A d \in Deliveries : /\ sender'[d].pc \in {"unused", "gone"} /\ sender'[d].at = 0
                            /\ sender[d].pc # "unused" => sender'[d].pc = "gone"
  BY <1>1, <1>2
<1>4. HookTypes'
  BY <1>1, UnusedSender, HookConstants DEF HInv, HookTypes
<1>5. LastWritten'
  <2>1. stamp \in Nat /\ 0 <= stamp
    BY DEF HInv, HookTypes
  <2>2. \A r \in wrote : r.id \in Deliveries
    BY DEF HInv, HookTypes, Records
  <2> QED BY <1>1, <1>3, <2>1, <2>2 DEF HInv, LastWritten
<1>6. ReadUnderLock' /\ AttemptsLeft'
  BY <1>3 DEF ReadUnderLock, AttemptsLeft
<1> QED BY <1>1, <1>4, <1>5, <1>6 DEF HInv, Recent

LEMMA HooksNextInv == HInv /\ [HooksNext]_hookvars => HInv'
<1> SUFFICES ASSUME HInv, [HooksNext]_hookvars PROVE HInv'
  OBVIOUS
<1>1. CASE /\ UNCHANGED <<deliveries, hookLock, sender, stamp, wrote>>
           /\ hooks' \subseteq EventKinds /\ stream' \in 0..StreamRoom
  BY <1>1 DEF HInv, HookTypes, LastWritten, ReadUnderLock, AttemptsLeft, Recent
<1>2. stream \in 0..StreamRoom /\ hooks \subseteq EventKinds /\ StreamRoom \in Nat
  BY HookConstants DEF HInv, HookTypes
<1>3. CASE UNCHANGED hookvars
  BY <1>1, <1>2, <1>3 DEF hookvars
<1>4. CASE SaveWebhooks
  BY <1>1, <1>2, <1>4 DEF SaveWebhooks
<1>5. CASE Publish
  <2>1. stream' \in 0..StreamRoom /\ hooks' \subseteq EventKinds
    BY <1>2, <1>5 DEF Publish
  <2>2. (\E d \in Deliveries : Send(d)) \/ UNCHANGED <<deliveries, hookLock, sender, stamp, wrote>>
    BY <1>5 DEF Publish
  <2> QED BY <1>1, <2>1, <2>2, SendInv
<1>6. CASE TakeEvent
  <2>1. stream' \in 0..StreamRoom
    BY <1>2, <1>6 DEF TakeEvent
  <2> QED BY <1>1, <1>2, <1>6, <2>1 DEF TakeEvent
<1>7. CASE Replay
  BY <1>2, <1>7, SendInv DEF Replay
<1>8. CASE StopHooks
  BY <1>8, StopHooksInv
<1>9. ASSUME NEW d \in Deliveries, Deliver(d) PROVE HInv'
  BY <1>9, AttemptInv, OpenDeliveriesInv, FillInv DEF Deliver
<1> QED BY <1>3, <1>4, <1>5, <1>6, <1>7, <1>8, <1>9 DEF HooksNext

(* The delivery file holds the newest of the last records of all deliveries, the holder of
   the lock rewrites what it read, and each delivery writes records with rising stamps. *)
THEOREM HooksInvariant == HooksSpec => []HInv
<1>1. HooksInit => HInv
  BY HooksInitInv
<1>2. HInv /\ [HooksNext]_hookvars => HInv'
  BY HooksNextInv
<1> QED BY <1>1, <1>2, PTL DEF HooksSpec

(* A delivery file that can be read holds the newest records, whatever was forgotten and
   came back (webhook_delivery.go:170). *)
THEOREM NewestDeliveriesKeptHolds == HooksSpec => []NewestDeliveriesKept
<1>1. HInv => NewestDeliveriesKept
  BY DEF HInv, NewestDeliveriesKept
<1> QED BY <1>1, HooksInvariant, PTL

(* The types of the webhook deliveries; a sender never goes beyond its attempts. *)
THEOREM HooksTypes == HooksSpec => []HooksTypeOK
<1>1. HInv => HooksTypeOK
  <2> SUFFICES ASSUME HInv PROVE HooksTypeOK
    OBVIOUS
  <2>1. /\ \A d \in Deliveries : sender[d] \in Senders
        /\ deliveries.readable \in BOOLEAN /\ deliveries.records \subseteq Records
    BY DEF HInv, HookTypes
  <2>2. \A d \in Deliveries : sender[d].attempt \in 0..MaxAttempts
    BY <2>1 DEF Senders
  <2>3. \A r \in deliveries.records : r.id \in Deliveries
    BY <2>1 DEF Records
  <2> QED BY <2>1, <2>2, <2>3 DEF HInv, HookTypes, HooksTypeOK
<1> QED BY <1>1, HooksInvariant, PTL
=============================================================================

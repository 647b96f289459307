-------------------------- MODULE TeamSyncStateFile --------------------------
(***************************************************************************)
(* sync/team_sync_state.json: the memory of the team sync runtime on disk. *)
(* Two goroutines of the daemon (the scan and the pubsub handler) and the  *)
(* conflict resolver of the web server each write the WHOLE file with      *)
(* writeTeamSyncState of internal/aip2p/team_sync.go: read it, merge the   *)
(* conflicts on disk into what is to be written, write <path>.tmp and      *)
(* rename it.  The mutex of the runtime is released before, the name of    *)
(* the temporary file is shared, and the two processes share no lock.      *)
(*                                                                         *)
(* A descriptor follows its file: when <path>.tmp is renamed, a writer     *)
(* that has it open goes on writing to what is now <path>.                 *)
(***************************************************************************)
EXTENDS Naturals, FiniteSets

CONSTANTS
  Conflict,   \* keys of the conflicts
  MaxCursor,  \* bound on the checkpoints taken
  MaxStamp,   \* bound on the instants given to conflicts
  MaxCrashes  \* bound on the crashes of both processes

ASSUME StateFileAssumption == MaxCursor \in Nat /\ MaxStamp \in Nat /\ MaxCrashes \in Nat

Daemon == {"scan", "handler"}
Writer == Daemon \cup {"resolver"}

VARIABLES
  mem,      \* r.state of the daemon
  path,     \* content of the state file
  tmp,      \* content of the temporary file
  pc,       \* pc[w]: step of the call of w
  fd,       \* fd[w]: the file w has open: "tmp", "path", "gone" or "none"
  image,    \* image[w]: the state w is about to write
  topic,    \* the conflict the resolver works on
  stamp,    \* latest instant given
  off,      \* TRUE after a start that could not read the state file
  crashes,
  asked,    \* asked[w]: the checkpoint the call of w is to save
  saved,    \* largest checkpoint of a persist call that has returned
  resolved, \* history: conflicts whose resolver has returned
  met,      \* history: calls under way that have overlapped another
  disturbed,\* history: such a call has renamed since the last daemon call that ran alone
  held      \* history: conflicts resolved by a call that ran alone, and not recorded
            \* again while another call was under way or the file was torn

vars == <<mem, path, tmp, pc, fd, image, topic, stamp, off, crashes, asked, saved,
          resolved, met, disturbed, held>>
files == <<path, tmp>>
ghosts == <<asked, saved, resolved, met, disturbed, held>>

-----------------------------------------------------------------------------
Record == [at : 0..MaxStamp, done : BOOLEAN]
NoRecord == [at |-> 0, done |-> FALSE]
State == [cursor : 0..MaxCursor, conflicts : [Conflict -> Record]]
EmptyState == [cursor |-> 0, conflicts |-> [c \in Conflict |-> NoRecord]]

\* What a file holds: a state, or nothing, or bytes that do not parse.
Whole(s) == [kind |-> "whole", state |-> s]
Missing == [kind |-> "missing", state |-> EmptyState]
Torn == [kind |-> "torn", state |-> EmptyState]

Readable(f) == f.kind # "torn"

\* Mutant: only the newer of two conflict records counts, resolved or not.
NewerRecord(ours, theirs) == IF theirs.at > ours.at THEN theirs ELSE ours

\* mergeTeamSyncConflictState, for one key: `theirs` is the record on disk.
MergedRecord(ours, theirs) ==
  IF theirs.at > ours.at \/ (theirs.done /\ ~ours.done) THEN theirs ELSE ours

\* Mutant: the arguments of mergeTeamSyncState are swapped.
MergedSwapped(ours, theirs) ==
  [theirs EXCEPT !.conflicts =
     [c \in Conflict |-> MergedRecord(ours.conflicts[c], theirs.conflicts[c])]]

\* mergeTeamSyncState: conflicts (and peer acks) are merged, cursors are ours.
Merged(ours, theirs) ==
  [ours EXCEPT !.conflicts =
     [c \in Conflict |-> MergedRecord(ours.conflicts[c], theirs.conflicts[c])]]

-----------------------------------------------------------------------------
Goto(w, step) == pc' = [pc EXCEPT ![w] = step]

\* Nothing keeps two calls apart: w starts whatever the others do.
Others(w) == {v \in Writer \ {w} : pc[v] # "idle"}
Called(w) ==
  /\ pc[w] = "idle"
  /\ met' = IF Others(w) = {} THEN met ELSE met \cup Others(w) \cup {w}
  /\ UNCHANGED <<saved, resolved, disturbed>>

\* persistCheckpoint, persistPending and the like, by the scan or a handler.
Advance(w) ==
  /\ w \in Daemon /\ ~off /\ Called(w) /\ mem.cursor < MaxCursor
  /\ mem' = [mem EXCEPT !.cursor = @ + 1]
  /\ asked' = [asked EXCEPT ![w] = mem'.cursor]
  /\ Goto(w, "merge")
  /\ UNCHANGED <<files, fd, image, topic, stamp, off, crashes, held>>

\* persistConflict: the record of a conflict seen again is written anew, unresolved.
RecordConflict(c) ==
  /\ ~off /\ Called("handler") /\ stamp < MaxStamp
  /\ stamp' = stamp + 1
  /\ mem' = [mem EXCEPT !.conflicts[c] = [at |-> stamp', done |-> FALSE]]
  /\ asked' = [asked EXCEPT !["handler"] = mem.cursor]
  /\ held' = IF Others("handler") # {} \/ ~Readable(path) THEN held \ {c} ELSE held
  /\ Goto("handler", "merge")
  /\ UNCHANGED <<files, fd, image, topic, off, crashes>>

\* ResolveTeamSyncConflict reads the file, applies the remote object if asked to ...
ResolveRead(c) ==
  /\ Called("resolver")
  /\ Readable(path) /\ path.state.conflicts[c] # NoRecord
  /\ image' = [image EXCEPT !["resolver"] = path.state]
  /\ topic' = c
  /\ Goto("resolver", "stamp")
  /\ UNCHANGED <<mem, files, fd, stamp, off, crashes, asked, held>>

\* ... and stamps the resolution.
ResolveStamp ==
  /\ pc["resolver"] = "stamp" /\ stamp < MaxStamp
  /\ stamp' = stamp + 1
  /\ image' = [image EXCEPT !["resolver"].conflicts[topic] = [at |-> stamp', done |-> TRUE]]
  /\ Goto("resolver", "merge")
  /\ UNCHANGED <<mem, files, fd, topic, off, crashes, ghosts>>

-----------------------------------------------------------------------------
(* writeTeamSyncState.                                                     *)

\* The maps of the state to be written are those of the daemon, not copies: the merge
\* changes the daemon's memory.  A file that cannot be read is not merged.
Merge(w) ==
  /\ pc[w] = "merge"
  /\ IF w \in Daemon
     THEN /\ mem' = IF Readable(path) THEN Merged(mem, path.state) ELSE mem
          /\ UNCHANGED image
     ELSE /\ image' = [image EXCEPT ![w] = IF Readable(path) THEN Merged(@, path.state) ELSE @]
          /\ UNCHANGED mem
  /\ Goto(w, "marshal")
  /\ UNCHANGED <<files, fd, topic, stamp, off, crashes, ghosts>>

Marshal(w) ==
  /\ pc[w] = "marshal"
  /\ image' = IF w \in Daemon THEN [image EXCEPT ![w] = mem] ELSE image
  /\ Goto(w, "open")
  /\ UNCHANGED <<mem, files, fd, topic, stamp, off, crashes, ghosts>>

\* os.WriteFile creates or truncates the temporary file ...
Open(w) ==
  /\ pc[w] = "open"
  /\ tmp' = Torn
  /\ fd' = [fd EXCEPT ![w] = "tmp"]
  /\ Goto(w, "fill")
  /\ UNCHANGED <<mem, path, image, topic, stamp, off, crashes, ghosts>>

\* What writing the image of w from the start of f leaves: the tail of a longer text stays.
Filled(w, f) == {Whole(image[w])} \cup (IF f.kind = "whole" THEN {Torn} ELSE {})

\* ... and writes to it, wherever it is by now.
Fill(w) ==
  /\ pc[w] = "fill"
  /\ tmp' \in IF fd[w] = "tmp" THEN Filled(w, tmp) ELSE {tmp}
  /\ path' \in IF fd[w] = "path" THEN Filled(w, path) ELSE {path}
  /\ fd' = [fd EXCEPT ![w] = "none"]
  /\ Goto(w, "rename")
  /\ UNCHANGED <<mem, image, topic, stamp, off, crashes, ghosts>>

\* Where an open file is after the temporary file became the state file.
Moved == [w \in Writer |->
  CASE fd[w] = "tmp" -> "path" [] fd[w] = "path" -> "gone" [] OTHER -> fd[w]]

AtLeast(a, b) == IF a > b THEN a ELSE b

\* os.Rename; it fails when another writer has renamed the file already.
Rename(w) ==
  /\ pc[w] = "rename"
  /\ met' = met \ {w}
  /\ IF tmp = Missing
     THEN UNCHANGED <<files, fd, saved, resolved, disturbed, held>>
     ELSE /\ path' = tmp /\ tmp' = Missing
          /\ fd' = Moved
          /\ disturbed' = (w \in met \/ (disturbed /\ w \notin Daemon))
          /\ IF w \in Daemon
             THEN saved' = AtLeast(saved, asked[w]) /\ UNCHANGED <<resolved, held>>
             ELSE /\ resolved' = resolved \cup {topic}
                  /\ held' = IF w \in met THEN held ELSE held \cup {topic}
                  /\ UNCHANGED saved
  /\ Goto(w, "idle")
  /\ UNCHANGED <<mem, image, topic, stamp, off, crashes, asked>>

-----------------------------------------------------------------------------
Stopped(ws) ==
  /\ crashes < MaxCrashes
  /\ crashes' = crashes + 1
  /\ pc' = [w \in Writer |-> IF w \in ws THEN "idle" ELSE pc[w]]
  /\ fd' = [w \in Writer |-> IF w \in ws THEN "none" ELSE fd[w]]
  /\ met' = met \ ws

\* The daemon stops and starts again: startTeamPubSubRuntime fails when the state file
\* does not parse, and RunSync goes on without team sync.  What a disturbed file lacks is
\* lost for good, and no longer counts as saved.
DaemonCrash ==
  /\ Stopped(Daemon)
  /\ off' = ~Readable(path)
  /\ mem' = path.state
  /\ saved' = IF disturbed /\ path.state.cursor < saved THEN path.state.cursor ELSE saved
  /\ UNCHANGED <<files, image, topic, stamp, asked, resolved, disturbed, held>>

\* The web server stops and starts again.
ServerCrash ==
  /\ Stopped({"resolver"})
  /\ UNCHANGED <<mem, files, image, topic, stamp, off, asked, saved, resolved, disturbed, held>>

Init ==
  /\ mem = EmptyState
  /\ path = Missing /\ tmp = Missing
  /\ pc = [w \in Writer |-> "idle"]
  /\ fd = [w \in Writer |-> "none"]
  /\ image = [w \in Writer |-> EmptyState]
  /\ topic \in Conflict
  /\ stamp = 0 /\ off = FALSE /\ crashes = 0
  /\ asked = [w \in Daemon |-> 0]
  /\ saved = 0 /\ resolved = {} /\ met = {} /\ disturbed = FALSE /\ held = {}

Next ==
  \/ \E w \in Writer :
       Advance(w) \/ Merge(w) \/ Marshal(w) \/ Open(w) \/ Fill(w) \/ Rename(w)
  \/ \E c \in Conflict : RecordConflict(c) \/ ResolveRead(c)
  \/ ResolveStamp
  \/ DaemonCrash \/ ServerCrash

Spec == Init /\ [][Next]_vars

-----------------------------------------------------------------------------
Content == [kind : {"whole", "missing", "torn"}, state : State]

TypeOK ==
  /\ mem \in State
  /\ path \in Content /\ tmp \in Content
  /\ pc \in [Writer -> {"idle", "stamp", "merge", "marshal", "open", "fill", "rename"}]
  /\ fd \in [Writer -> {"none", "tmp", "path", "gone"}]
  /\ image \in [Writer -> State]
  /\ topic \in Conflict
  /\ stamp \in 0..MaxStamp
  /\ off \in BOOLEAN
  /\ crashes \in 0..MaxCrashes
  /\ asked \in [Daemon -> 0..MaxCursor]
  /\ saved \in 0..MaxCursor
  /\ resolved \subseteq Conflict /\ held \subseteq Conflict
  /\ met \subseteq Writer /\ disturbed \in BOOLEAN

\* A start of the daemon can read the state file.
FileWhole == Readable(path)

\* What was saved stays saved: the file parses and is not behind a checkpoint whose persist
\* call has returned, whatever step a process stopped at, so a restart publishes nothing
\* again and skips nothing.  Calls that overlap write and rename one temporary file
\* (writeTeamSyncState) and may leave an older or a torn file; that lasts until a call of the
\* daemon runs alone, which writes all that the daemon's memory holds.
SavedCursorStays == ~disturbed => FileWhole /\ path.state.cursor >= saved

\* What was resolved stays resolved, as the repository says of it.
ResolutionSticks ==
  Readable(path) => \A c \in resolved : path.state.conflicts[c].done

\* What was resolved stays resolved, also when the daemon, which learns of it only from
\* the file, records the same conflict again (mergeTeamSyncConflictState), and whatever
\* other calls overlap: all it takes is that the resolver ran alone, and that the conflict
\* is not recorded again while another call is under way or the file is torn.
ResolutionHeld ==
  Readable(path) => \A c \in held : path.state.conflicts[c].done

=============================================================================

--------------------------- MODULE TaskIndexStore ---------------------------
(***************************************************************************)
(* The files that hold the tasks of a team (internal/aip2p/team:           *)
(* index_store.go, backend_helpers.go; artifacts are stored the same way): *)
(*                                                                         *)
(*   tasks.data.jsonl   one record per version saved, only appended to,    *)
(*   tasks.index.json   for each task where its current record starts,     *)
(*   tasks.jsonl        the older layout, migrated when there is no index. *)
(*                                                                         *)
(* Writers hold the flock of the team; readers of the HTTP API and of the  *)
(* publishing scan do not.  The two files are written one after the other  *)
(* and the index in place (os.WriteFile truncates it first), so a reader   *)
(* meets every intermediate state, and so does whoever comes after a       *)
(* writer that stopped half way.                                           *)
(***************************************************************************)
EXTENDS Naturals, Sequences, FiniteSets

CONSTANTS
  Task, Reader,
  Legacy,          \* Legacy[t]: version of t in tasks.jsonl, 0 when absent
  MaxVersion,      \* bound on the versions written
  MaxCompactions,  \* bound on the compactions
  MaxStops         \* bound on the calls that stop half way

ASSUME StoreAssumption ==
  /\ IsFiniteSet(Task)
  /\ Legacy \in [Task -> 0..1]
  /\ MaxVersion \in Nat \ {0} /\ MaxCompactions \in Nat /\ MaxStops \in Nat

VARIABLES
  data,         \* what tasks.data.jsonl holds, record after record
  gen,          \* how often the data file was replaced; 0: there is none
  file,         \* the index file: "missing", "torn" or "whole"
  entries,      \* entries of the index file when it was last whole
  op,           \* the call that holds the lock of the team
  reader,       \* reader[r]: the load under way, or the last one
  clock,        \* last version given
  compactions, stops,
  cut           \* history: a call stopped after the index was opened or the
                \* records had moved away from the index

vars == <<data, gen, file, entries, op, reader, clock, compactions, stops, cut>>

-----------------------------------------------------------------------------
Version == 1..MaxVersion
Record == [task : Task, ver : Version]
Garbage == [task |-> "none", ver |-> 0]     \* a record whose write was cut short

\* Offset and length of a record are its place; `gen` names the data file they are for.
Entry == [pos : Nat, gen : Nat]
NoEntry == [pos |-> 0, gen |-> 0]           \* no entry, or one marked deleted
Live(es) == {t \in Task : es[t].pos # 0}

Op == [kind : {"put", "save", "delete", "compact", "ensure"}, task : Task, ver : Version,
       step : {"locked", "work", "append", "update", "open", "fill"},
       pos : Nat, entries : [Task -> Entry], then : {"work", "unlock"}]
NoOp == [kind |-> "none"]
Unlocked == op = NoOp

HasIndex == file # "missing" /\ gen > 0

\* What loadTaskFromIndex finds at an entry.  At an entry made for an older data file there
\* is the middle of a record, which does not parse, or by chance some other record.
Found(e) ==
  IF e.gen = gen THEN {data[e.pos]}
                 ELSE {Garbage} \cup {data[i] : i \in DOMAIN data}

\* The tasks `kept` written one after the other into a fresh file, in some order (the code
\* sorts them by time), and the index of that file.
Packings(kept) ==
  {d \in [1..Cardinality(kept) -> kept] : \A k \in kept : \E i \in DOMAIN d : d[i] = k}
PackedIndex(d) ==
  [t \in Task |-> IF \E i \in DOMAIN d : d[i].task = t
                  THEN [pos |-> CHOOSE i \in DOMAIN d : d[i].task = t, gen |-> gen + 1]
                  ELSE NoEntry]

LegacyTasks == {[task |-> t, ver |-> Legacy[t]] : t \in {u \in Task : Legacy[u] # 0}}

\* Mutant: the records are taken from the data file, old and deleted ones too.
LoadedFromData == {[i \in {j \in DOMAIN data : data[j] # Garbage} |-> data[i]]}

\* loadTasksFromIndex: a record for every live task, all of them current unless an earlier
\* compaction was cut short.
Loaded ==
  {l \in [Live(entries) -> {data[i] : i \in DOMAIN data} \ {Garbage}] :
     \A t \in Live(entries) : l[t] \in Found(entries[t])}

-----------------------------------------------------------------------------
(* A call under the lock.                                                  *)

Begin(kind, t) ==
  /\ Unlocked
  /\ IF kind \in {"put", "save"} THEN clock < MaxVersion /\ clock' = clock + 1
                                 ELSE UNCHANGED clock
  /\ IF kind = "compact" THEN compactions < MaxCompactions /\ compactions' = compactions + 1
                         ELSE UNCHANGED compactions
  /\ op' = [kind |-> kind, task |-> t, ver |-> clock', step |-> "locked", pos |-> 0,
            entries |-> [u \in Task |-> NoEntry], then |-> "unlock"]
  /\ UNCHANGED <<data, gen, file, entries, reader, stops, cut>>

Step(from, to) == op.step = from /\ op' = [op EXCEPT !.step = to]

Unlock == op' = NoOp

\* ensureTaskIndexLocked, when both files are there.
Ensured ==
  /\ ~Unlocked /\ op.step = "locked" /\ HasIndex
  /\ IF op.kind = "ensure" THEN Unlock ELSE Step("locked", "work")
  /\ UNCHANGED <<data, gen, file, entries, reader, clock, compactions, stops, cut>>

\* rewriteTaskIndexLocked renames the new data file over the old one, then writes the index.
Rewrite(kept, then) ==
  /\ \E d \in Packings(kept) :
       /\ data' = d
       /\ op' = [op EXCEPT !.step = "open", !.entries = PackedIndex(d), !.then = then]
  /\ gen' = gen + 1
  /\ UNCHANGED <<file, entries, reader, clock, compactions, stops, cut>>

\* ensureTaskIndexLocked, when one is missing.
Migrate ==
  /\ ~Unlocked /\ op.step = "locked" /\ ~HasIndex
  /\ Rewrite(LegacyTasks, IF op.kind = "ensure" THEN "unlock" ELSE "work")

\* CompactTasks.
Compact ==
  /\ ~Unlocked /\ op.step = "work" /\ op.kind = "compact" /\ file = "whole"
  /\ \E l \in Loaded : Rewrite({l[t] : t \in DOMAIN l}, "unlock")

\* An error return that leaves the files alone: the index does not parse, or the task
\* to save or delete is not in it or cannot be read.
Refuse ==
  /\ ~Unlocked /\ op.step = "work"
  /\ \/ op.kind \in {"save", "delete", "compact"} /\ file # "whole"
     \/ op.kind \in {"save", "delete"} /\ op.task \notin Live(entries)
     \/ op.kind = "save" /\ Garbage \in Found(entries[op.task])
     \/ op.kind = "compact" /\ \E t \in Live(entries) : Garbage \in Found(entries[t])
  /\ Unlock
  /\ UNCHANGED <<data, gen, file, entries, reader, clock, compactions, stops, cut>>

MayAppend ==
  /\ ~Unlocked /\ op.step = "work" /\ op.kind \in {"put", "save"}
  /\ op.kind = "save" =>
       file = "whole" /\ op.task \in Live(entries) /\ Found(entries[op.task]) # {Garbage}

\* Mutant: an update writes over the record it replaces.
AppendInPlace ==
  /\ MayAppend
  /\ LET p == IF op.task \in Live(entries) /\ entries[op.task].gen = gen
              THEN entries[op.task].pos ELSE Len(data) + 1
     IN /\ data' = IF p > Len(data) THEN Append(data, Garbage) ELSE [data EXCEPT ![p] = Garbage]
        /\ op' = [op EXCEPT !.step = "append", !.pos = p]
  /\ UNCHANGED <<gen, file, entries, reader, clock, compactions, stops, cut>>

\* appendJSONLRecord, first half: the offset is the end of the file, whatever ends there.
AppendStart ==
  /\ MayAppend
  /\ data' = Append(data, Garbage)
  /\ op' = [op EXCEPT !.step = "append", !.pos = Len(data) + 1]
  /\ UNCHANGED <<gen, file, entries, reader, clock, compactions, stops, cut>>

AppendEnd ==
  /\ ~Unlocked /\ Step("append", "update")
  /\ data' = [data EXCEPT ![op.pos] = [task |-> op.task, ver |-> op.ver]]
  /\ UNCHANGED <<gen, file, entries, reader, clock, compactions, stops, cut>>

\* appendTaskIndexedLocked and saveTaskIndexedLocked load the index after the record is
\* written: when it does not parse the call fails and the record stays behind, unnamed.
Update ==
  /\ ~Unlocked /\ op.step = "update"
  /\ IF file = "whole"
     THEN op' = [op EXCEPT !.step = "open",
                   !.entries = [entries EXCEPT ![op.task] = [pos |-> op.pos, gen |-> gen]]]
     ELSE Unlock
  /\ UNCHANGED <<data, gen, file, entries, reader, clock, compactions, stops, cut>>

Deleted(es, t) == [es EXCEPT ![t] = NoEntry]

\* deleteTaskIndexedLocked.
Delete ==
  /\ ~Unlocked /\ op.step = "work" /\ op.kind = "delete" /\ file = "whole"
  /\ op.task \in Live(entries)
  /\ op' = [op EXCEPT !.step = "open", !.entries = Deleted(entries, op.task)]
  /\ UNCHANGED <<data, gen, file, entries, reader, clock, compactions, stops, cut>>

\* saveTaskIndex: os.WriteFile opens with O_TRUNC and then writes.
OpenIndex ==
  /\ ~Unlocked /\ Step("open", "fill")
  /\ file' = "torn"
  /\ UNCHANGED <<data, gen, entries, reader, clock, compactions, stops, cut>>

FillIndex ==
  /\ ~Unlocked /\ op.step = "fill"
  /\ file' = "whole" /\ entries' = op.entries
  /\ IF op.then = "work" THEN op' = [op EXCEPT !.step = "work", !.then = "unlock"] ELSE Unlock
  /\ UNCHANGED <<data, gen, reader, clock, compactions, stops, cut>>

\* The call ends where it is: its process died, or the disk is full.  The flock goes with it.
Moved == ~Unlocked /\ op.step = "open" /\ op.kind = "compact" /\ op.then = "unlock"
Stop ==
  /\ ~Unlocked /\ stops < MaxStops
  /\ stops' = stops + 1
  /\ Unlock
  /\ cut' = (cut \/ op.step = "fill" \/ Moved)
  /\ UNCHANGED <<data, gen, file, entries, reader, clock, compactions>>

-----------------------------------------------------------------------------
(* A load without the lock.                                                *)

Idle == [busy |-> FALSE, ok |-> TRUE]

\* loadTaskIndex after ensureTaskIndex: the entry of t, taken from a file that parses.
ReadIndex(r, t) ==
  /\ ~reader[r].busy /\ HasIndex
  /\ file = "whole" /\ t \in Live(entries)
  /\ reader' = [reader EXCEPT ![r] =
       [busy |-> TRUE, task |-> t, entry |-> entries[t],
        want |-> IF entries[t].gen = gen THEN data[entries[t].pos].ver ELSE 0]]
  /\ UNCHANGED <<data, gen, file, entries, op, clock, compactions, stops, cut>>

\* readJSONRecordAt, by name of the file: it may be another file by now.
ReadRecord(r) ==
  /\ reader[r].busy
  /\ \E found \in Found(reader[r].entry) :
       reader' = [reader EXCEPT ![r] =
         [busy |-> FALSE,
          ok |-> reader[r].entry.gen = gen => found = [task |-> reader[r].task, ver |-> reader[r].want]]]
  /\ UNCHANGED <<data, gen, file, entries, op, clock, compactions, stops, cut>>

-----------------------------------------------------------------------------
Init ==
  /\ data = <<>> /\ gen = 0
  /\ file = "missing" /\ entries = [t \in Task |-> NoEntry]
  /\ op = NoOp
  /\ reader = [r \in Reader |-> Idle]
  /\ clock = 1 /\ compactions = 0 /\ stops = 0
  /\ cut = FALSE

Next ==
  \/ \E t \in Task, kind \in {"put", "save", "delete", "compact", "ensure"} : Begin(kind, t)
  \/ Ensured \/ Migrate \/ Compact \/ Refuse \/ AppendStart \/ AppendEnd \/ Update \/ Delete
  \/ OpenIndex \/ FillIndex \/ Stop
  \/ \E r \in Reader : ReadRecord(r) \/ \E t \in Task : ReadIndex(r, t)

Spec == Init /\ [][Next]_vars

-----------------------------------------------------------------------------
Load == [busy : {TRUE}, task : Task, entry : Entry, want : 0..MaxVersion]
Returned == [busy : {FALSE}, ok : BOOLEAN]

TypeOK ==
  /\ data \in Seq(Record \cup {Garbage})
  /\ gen \in Nat
  /\ file \in {"missing", "torn", "whole"}
  /\ entries \in [Task -> Entry]
  /\ op \in Op \cup {NoOp}
  /\ reader \in [Reader -> Load \cup Returned]
  /\ clock \in 1..MaxVersion
  /\ compactions \in 0..MaxCompactions /\ stops \in 0..MaxStops
  /\ cut \in BOOLEAN

\* The two files agree whatever was cut short before: an entry of an index that parses, made
\* for the data file that is there, names a whole record of its own task.
IndexNamesOwnRecord ==
  file = "whole" =>
    \A t \in Live(entries) : entries[t].gen = gen =>
      /\ entries[t].pos \in DOMAIN data
      /\ data[entries[t].pos] \in [task : {t}, ver : Version]

\* A load without the lock returns the version that was current when it read the index,
\* however many versions are saved before it reads the record, unless the data file was
\* replaced in between.
ReadIsCommitted == \A r \in Reader : ~reader[r].busy => reader[r].ok

\* What the files say, and what a load of them returns.
StoreSound == IndexNamesOwnRecord /\ ReadIsCommitted

\* Until a call stops after it opened the index, or between the two halves of a compaction,
\* the two files are one map: a save or a delete takes effect whole or not at all, and
\* stopped appends, stopped migrations, failed calls and compactions change nothing.
Rewriting ==
  /\ ~Unlocked /\ op.step \in {"open", "fill"}
  /\ op.kind \in {"compact", "ensure"} \/ op.then = "work"
Ver(es, t) == IF es[t].pos = 0 THEN 0 ELSE data[es[t].pos].ver
Val == [t \in Task |-> CASE cut -> 0
                          [] ~cut /\ file = "missing" -> Legacy[t]
                          [] ~cut /\ file # "missing" /\ Rewriting -> Ver(op.entries, t)
                          [] OTHER -> Ver(entries, t)]
Call == IF Unlocked \/ op.kind \notin {"put", "save", "delete"}
        THEN [ver |-> 0]
        ELSE [task |-> op.task, ver |-> IF op.kind = "delete" THEN 0 ELSE op.ver]
Map == INSTANCE TaskMap WITH val <- Val, call <- Call, intact <- ~cut
IsTaskMap == Map!TSpec

=============================================================================

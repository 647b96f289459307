------------------------ MODULE TaskIndexStore_proofs ------------------------
(***************************************************************************)
(* Proofs about TaskIndexStore, for any tasks, readers and bounds: the two *)
(* files agree at every step and after every stop, a load without the lock *)
(* returns what was current, and the files implement TaskMap.              *)
(***************************************************************************)
EXTENDS TaskIndexStore, FiniteSetTheorems, SequenceTheorems, TLAPS

-----------------------------------------------------------------------------
(* Packing.                                                                *)

\* The index `es` is right about the data file d, the one of generation g.
Names(es, d, g) ==
  \A t \in Task :
    /\ es[t].gen <= g
    /\ es[t].pos # 0 /\ es[t].gen = g =>
         es[t].pos \in 1..Len(d) /\ d[es[t].pos] \in [task : {t}, ver : Version]

\* A packing is a file of the records packed.
LEMMA PackingIsFile ==
  ASSUME NEW kept, IsFiniteSet(kept), kept \subseteq Record, NEW d \in Packings(kept)
  PROVE  /\ d \in Seq(Record) /\ d \in Seq(Record \cup {Garbage})
         /\ DOMAIN d = 1..Len(d)
         /\ \A i \in 1..Len(d) : d[i] \in kept
         /\ \A k \in kept : \E i \in 1..Len(d) : d[i] = k
<1>1. Cardinality(kept) \in Nat
  BY FS_CardinalityType
<1>2. d \in [1..Cardinality(kept) -> kept] /\ \A k \in kept : \E i \in DOMAIN d : d[i] = k
  BY DEF Packings
<1>3. d \in Seq(kept)
  BY <1>1, <1>2
<1>4. DOMAIN d = 1..Len(d) /\ \A i \in 1..Len(d) : d[i] \in kept
  BY <1>3, LenProperties, ElementOfSeq
<1>5. d \in Seq(Record) /\ d \in Seq(Record \cup {Garbage})
  BY <1>3, SeqMonotonic
<1>6. QED  BY <1>2, <1>4, <1>5

\* The index of a packing names a record of its own task in it.
LEMMA PackedNames ==
  ASSUME NEW kept, IsFiniteSet(kept), kept \subseteq Record, NEW d \in Packings(kept), gen \in Nat
  PROVE  /\ PackedIndex(d) \in [Task -> Entry]
         /\ Names(PackedIndex(d), d, gen + 1)
         /\ \A t \in Task : PackedIndex(d)[t].pos # 0 => PackedIndex(d)[t].gen = gen + 1
         /\ \A k \in kept : PackedIndex(d)[k.task].pos # 0
         /\ \A t \in Task : PackedIndex(d)[t].pos # 0 => d[PackedIndex(d)[t].pos] \in kept
<1>1. /\ DOMAIN d = 1..Len(d) /\ Len(d) \in Nat
      /\ \A i \in 1..Len(d) : d[i] \in kept
      /\ \A k \in kept : \E i \in 1..Len(d) : d[i] = k
  BY PackingIsFile, LenProperties
<1>2. ASSUME NEW t \in Task
      PROVE  /\ PackedIndex(d)[t] \in Entry
             /\ PackedIndex(d)[t].gen <= gen + 1
             /\ PackedIndex(d)[t].pos # 0 =>
                  /\ PackedIndex(d)[t].pos \in 1..Len(d) /\ PackedIndex(d)[t].gen = gen + 1
                  /\ d[PackedIndex(d)[t].pos].task = t
             /\ (\E i \in 1..Len(d) : d[i].task = t) => PackedIndex(d)[t].pos # 0
  <2>1. CASE \E i \in 1..Len(d) : d[i].task = t
    <3>1. PICK i \in 1..Len(d) : d[i].task = t /\ PackedIndex(d)[t] = [pos |-> i, gen |-> gen + 1]
      BY <1>1, <2>1 DEF PackedIndex
    <3>2. i \in Nat /\ i # 0 /\ gen + 1 \in Nat
      BY <1>1
    <3>3. QED  BY <3>1, <3>2 DEF Entry
  <2>2. CASE ~\E i \in 1..Len(d) : d[i].task = t
    <3>1. PackedIndex(d)[t] = NoEntry
      BY <1>1, <2>2 DEF PackedIndex
    <3>2. QED  BY <2>2, <3>1 DEF Entry, NoEntry
  <2>3. QED  BY <2>1, <2>2
<1>3. PackedIndex(d) \in [Task -> Entry]
  BY <1>2 DEF PackedIndex
<1>4. ASSUME NEW t \in Task, PackedIndex(d)[t].pos # 0
      PROVE  /\ d[PackedIndex(d)[t].pos] \in kept
             /\ d[PackedIndex(d)[t].pos] \in [task : {t}, ver : Version]
  <2>1. d[PackedIndex(d)[t].pos] \in Record /\ d[PackedIndex(d)[t].pos].task = t
    BY <1>1, <1>2, <1>4
  <2>2. QED  BY <1>1, <1>2, <1>4, <2>1 DEF Record
<1>5. \A k \in kept : PackedIndex(d)[k.task].pos # 0
  <2> TAKE k \in kept
  <2>1. k.task \in Task
    BY DEF Record
  <2>2. PICK i \in 1..Len(d) : d[i] = k
    BY <1>1
  <2>3. QED  BY <1>2, <2>1, <2>2
<1>6. QED  BY <1>2, <1>3, <1>4, <1>5 DEF Names

\* When every task is kept at most once, the packed index gives each task its version.
LEMMA PackedVersions ==
  ASSUME NEW S \in SUBSET Task, NEW f \in [S -> Record], \A t \in S : f[t].task = t,
         IsFiniteSet(S), NEW d \in Packings({f[t] : t \in S}), gen \in Nat
  PROVE  \A t \in Task : IF t \in S THEN PackedIndex(d)[t].pos # 0 /\ d[PackedIndex(d)[t].pos] = f[t]
                                    ELSE PackedIndex(d)[t].pos = 0
<1> DEFINE kept == {f[t] : t \in S}
<1>1. IsFiniteSet(kept) /\ kept \subseteq Record
  <2>1. f \in Surjection(S, kept)
    BY DEF Surjection
  <2>2. QED  BY <2>1, FS_Surjection DEF ExistsSurjection
<1>2. /\ \A k \in kept : PackedIndex(d)[k.task].pos # 0
      /\ \A t \in Task : PackedIndex(d)[t].pos # 0 => d[PackedIndex(d)[t].pos] \in kept
      /\ Names(PackedIndex(d), d, gen + 1)
      /\ \A t \in Task : PackedIndex(d)[t].pos # 0 => PackedIndex(d)[t].gen = gen + 1
  BY <1>1, PackedNames
<1>3. ASSUME NEW t \in Task, PackedIndex(d)[t].pos # 0
      PROVE  t \in S /\ d[PackedIndex(d)[t].pos] = f[t]
  <2>1. d[PackedIndex(d)[t].pos].task = t
    BY <1>2, <1>3 DEF Names
  <2>2. PICK u \in S : d[PackedIndex(d)[t].pos] = f[u]
    BY <1>2, <1>3
  <2>3. QED  BY <2>1, <2>2
<1>4. ASSUME NEW t \in S PROVE PackedIndex(d)[t].pos # 0
  <2>1. f[t] \in kept /\ f[t].task = t
    OBVIOUS
  <2>2. QED  BY <1>2, <2>1
<1>5. QED  BY <1>3, <1>4

-----------------------------------------------------------------------------
(* Types.                                                                  *)

LEMMA CallTyped ==
  ASSUME op \in Op \cup {NoOp}, ~Unlocked
  PROVE  op \in Op
  BY DEF Unlocked

LEMMA LiveFinite == IsFiniteSet(Live(entries)) /\ Live(entries) \subseteq Task
<1>1. Live(entries) \in SUBSET Task
  BY DEF Live
<1>2. QED  BY <1>1, FS_Subset, StoreAssumption

LEMMA LegacyFile ==
  /\ IsFiniteSet(LegacyTasks) /\ LegacyTasks \subseteq Record
  /\ LET S == {t \in Task : Legacy[t] # 0}
         f == [t \in S |-> [task |-> t, ver |-> Legacy[t]]]
     IN  IsFiniteSet(S) /\ f \in [S -> Record] /\ LegacyTasks = {f[t] : t \in S}
<1> DEFINE S == {t \in Task : Legacy[t] # 0}
           f == [t \in S |-> [task |-> t, ver |-> Legacy[t]]]
<1>1. S \in SUBSET Task
  OBVIOUS
<1>2. IsFiniteSet(S)
  BY <1>1, FS_Subset, StoreAssumption
<1>3. ASSUME NEW t \in S PROVE [task |-> t, ver |-> Legacy[t]] \in Record
  <2>1. Legacy[t] \in 1..MaxVersion
    BY StoreAssumption
  <2>2. QED  BY <2>1 DEF Record, Version
<1>4. f \in [S -> Record]
  BY <1>3
<1>5. LegacyTasks = {f[t] : t \in S}
  BY DEF LegacyTasks
<1>6. f \in Surjection(S, LegacyTasks)
  BY <1>4, <1>5 DEF Surjection
<1>7. IsFiniteSet(LegacyTasks)
  BY <1>2, <1>6, FS_Surjection
<1>8. QED  BY <1>2, <1>4, <1>5, <1>7

\* What a compaction packs: records of the data file.
LEMMA LoadedFile ==
  ASSUME TypeOK, NEW l \in Loaded
  PROVE  /\ IsFiniteSet({l[t] : t \in DOMAIN l}) /\ {l[t] : t \in DOMAIN l} \subseteq Record
         /\ DOMAIN l = Live(entries) /\ l \in [Live(entries) -> Record]
<1>1. \A i \in DOMAIN data : data[i] \in Record \cup {Garbage}
  <2>1. DOMAIN data = 1..Len(data)
    BY LenProperties DEF TypeOK
  <2>2. QED  BY <2>1, ElementOfSeq DEF TypeOK
<1>2. l \in [Live(entries) -> Record] /\ DOMAIN l = Live(entries)
  BY <1>1 DEF Loaded
<1>3. l \in Surjection(Live(entries), {l[t] : t \in DOMAIN l})
  BY <1>2 DEF Surjection
<1>4. QED  BY <1>2, <1>3, LiveFinite, FS_Surjection

\* A rewrite of tasks kept once or more often.
LEMMA RewriteTyped ==
  ASSUME TypeOK, ~Unlocked, NEW kept, IsFiniteSet(kept), kept \subseteq Record,
         NEW then \in {"work", "unlock"}, Rewrite(kept, then)
  PROVE  TypeOK'
<1>1. PICK d \in Packings(kept) :
         /\ data' = d
         /\ op' = [op EXCEPT !.step = "open", !.entries = PackedIndex(d), !.then = then]
  BY DEF Rewrite
<1>2. d \in Seq(Record \cup {Garbage})
  BY PackingIsFile
<1>3. PackedIndex(d) \in [Task -> Entry] /\ gen + 1 \in Nat
  BY PackedNames DEF TypeOK
<1>4. op' \in Op
  BY <1>1, <1>3, CallTyped DEF TypeOK, Op
<1>5. QED  BY <1>1, <1>2, <1>3, <1>4 DEF Rewrite, TypeOK

LEMMA TypeInit == Init => TypeOK
<1> SUFFICES ASSUME Init PROVE TypeOK
  OBVIOUS
<1>1. data \in Seq(Record \cup {Garbage})
  BY EmptySeq DEF Init
<1>2. entries \in [Task -> Entry]
  BY DEF Init, NoEntry, Entry
<1>3. reader \in [Reader -> Load \cup Returned]
  BY DEF Init, Idle, Returned
<1>4. clock \in 1..MaxVersion /\ compactions \in 0..MaxCompactions /\ stops \in 0..MaxStops
  BY StoreAssumption DEF Init
<1>5. gen \in Nat /\ file \in {"missing", "torn", "whole"} /\ op \in Op \cup {NoOp} /\ cut \in BOOLEAN
  BY DEF Init
<1>6. QED  BY <1>1, <1>2, <1>3, <1>4, <1>5 DEF TypeOK

LEMMA TypeNext == TypeOK /\ Names(entries, data, gen) /\ [Next]_vars => TypeOK'
<1> SUFFICES ASSUME TypeOK, Names(entries, data, gen), [Next]_vars PROVE TypeOK'
  OBVIOUS
<1>1. ASSUME NEW t \in Task, NEW kind \in {"put", "save", "delete", "compact", "ensure"},
             Begin(kind, t)
      PROVE  TypeOK'
  <2>1. clock' \in 1..MaxVersion /\ compactions' \in 0..MaxCompactions
    BY <1>1, StoreAssumption DEF Begin, TypeOK
  <2>2. [u \in Task |-> NoEntry] \in [Task -> Entry]
    BY DEF Entry, NoEntry
  <2>3. op' \in Op
    BY <1>1, <2>1, <2>2 DEF Begin, Op, Version
  <2>4. QED  BY <1>1, <2>1, <2>3 DEF Begin, TypeOK
<1>2. CASE Ensured
  <2>1. op' \in Op \cup {NoOp}
    BY <1>2, CallTyped DEF Ensured, Step, Unlock, TypeOK, Op
  <2>2. QED  BY <1>2, <2>1 DEF Ensured, TypeOK
<1>3. CASE Migrate
  BY <1>3, LegacyFile, RewriteTyped DEF Migrate
<1>4. CASE Compact
  <2>1. PICK l \in Loaded : Rewrite({l[t] : t \in DOMAIN l}, "unlock")
    BY <1>4 DEF Compact
  <2>2. QED  BY <1>4, <2>1, LoadedFile, RewriteTyped DEF Compact
<1>5. CASE Refuse
  BY <1>5 DEF Refuse, Unlock, TypeOK
<1>6. CASE AppendStart
  <2>1. Len(data) + 1 \in Nat
    BY LenProperties DEF TypeOK
  <2>2. op' \in Op
    BY <1>6, <2>1, CallTyped DEF AppendStart, MayAppend, TypeOK, Op
  <2>3. data' \in Seq(Record \cup {Garbage})
    BY <1>6 DEF AppendStart, TypeOK
  <2>4. QED  BY <1>6, <2>2, <2>3 DEF AppendStart, TypeOK
<1>7. CASE AppendEnd
  <2>1. op' \in Op
    BY <1>7, CallTyped DEF AppendEnd, Step, TypeOK, Op
  <2>2. [task |-> op.task, ver |-> op.ver] \in Record \cup {Garbage}
    BY <1>7, CallTyped DEF AppendEnd, TypeOK, Op, Record
  <2>3. data' \in Seq(Record \cup {Garbage})
    <3>1. data \in [1..Len(data) -> Record \cup {Garbage}] /\ Len(data) \in Nat
      BY LenProperties DEF TypeOK
    <3>2. data' \in [1..Len(data) -> Record \cup {Garbage}]
      BY <1>7, <2>2, <3>1 DEF AppendEnd
    <3>3. QED  BY <3>1, <3>2
  <2>4. QED  BY <1>7, <2>1, <2>3 DEF AppendEnd, TypeOK
<1>8. CASE Update
  <2>1. op' \in Op \cup {NoOp}
    <3>1. [entries EXCEPT ![op.task] = [pos |-> op.pos, gen |-> gen]] \in [Task -> Entry]
      BY <1>8, CallTyped DEF Update, TypeOK, Op, Entry
    <3>2. QED  BY <1>8, <3>1, CallTyped DEF Update, Unlock, TypeOK, Op
  <2>2. QED  BY <1>8, <2>1 DEF Update, TypeOK
<1>9. CASE Delete
  <2>1. Deleted(entries, op.task) \in [Task -> Entry]
    BY DEF Deleted, TypeOK, Entry, NoEntry
  <2>2. op' \in Op
    BY <1>9, <2>1, CallTyped DEF Delete, TypeOK, Op
  <2>3. QED  BY <1>9, <2>2 DEF Delete, TypeOK
<1>10. CASE OpenIndex
  <2>1. op' \in Op
    BY <1>10, CallTyped DEF OpenIndex, Step, TypeOK, Op
  <2>2. QED  BY <1>10, <2>1 DEF OpenIndex, TypeOK
<1>11. CASE FillIndex
  <2>1. op' \in Op \cup {NoOp} /\ op.entries \in [Task -> Entry]
    BY <1>11, CallTyped DEF FillIndex, Unlock, TypeOK, Op
  <2>2. QED  BY <1>11, <2>1 DEF FillIndex, TypeOK
<1>12. CASE Stop
  BY <1>12, StoreAssumption DEF Stop, Unlock, TypeOK
<1>13. ASSUME NEW r \in Reader, ReadRecord(r)
       PROVE  TypeOK'
  <2>1. PICK ok \in BOOLEAN : reader' = [reader EXCEPT ![r] = [busy |-> FALSE, ok |-> ok]]
    BY <1>13, Zenon DEF ReadRecord
  <2>2. reader' \in [Reader -> Load \cup Returned]
    BY <2>1 DEF TypeOK, Returned
  <2>3. QED  BY <1>13, <2>2 DEF ReadRecord, TypeOK
<1>14. ASSUME NEW r \in Reader, NEW t \in Task, ReadIndex(r, t)
       PROVE  TypeOK'
  <2>1. t \in Task /\ entries[t] \in Entry
    BY DEF TypeOK
  <2>2. entries[t].gen = gen => data[entries[t].pos].ver \in 0..MaxVersion
    BY <1>14 DEF ReadIndex, Names, Live, Version
  <2> DEFINE w == IF entries[t].gen = gen THEN data[entries[t].pos].ver ELSE 0
             load == [busy |-> TRUE, task |-> t, entry |-> entries[t], want |-> w]
  <2>3. w \in 0..MaxVersion
    BY <2>2, StoreAssumption
  <2>4. reader' \in [Reader -> Load \cup Returned]
    <3>1. reader' = [reader EXCEPT ![r] = load]
      BY <1>14 DEF ReadIndex
    <3>2. load \in Load
      BY <2>1, <2>3 DEF Load
    <3>3. QED  BY <3>1, <3>2 DEF TypeOK
  <2>5. QED  BY <1>14, <2>4 DEF ReadIndex, TypeOK
<1>15. CASE UNCHANGED vars
  BY <1>15 DEF vars, TypeOK
<1>16. QED
  BY <1>1, <1>2, <1>3, <1>4, <1>5, <1>6, <1>7, <1>8, <1>9, <1>10, <1>11, <1>12, <1>13, <1>14,
     <1>15 DEF Next

-----------------------------------------------------------------------------
(* The files agree.                                                        *)

\* The index a call is about to write is right already; the record it is writing is at a
\* place no entry names, and complete once the call goes on to the index.
CallAgrees ==
  ~Unlocked =>
    /\ op.step \in {"open", "fill"} => Names(op.entries, data, gen)
    /\ op.step \in {"append", "update"} =>
         /\ op.pos \in 1..Len(data)
         /\ \A t \in Task : entries[t].gen = gen => entries[t].pos # op.pos
    /\ op.step = "update" => data[op.pos] = [task |-> op.task, ver |-> op.ver]

\* What a reader is about to read: the record it wants, while the file is the one its entry
\* was made for.
Aims(l) ==
  /\ l.entry.gen <= gen
  /\ l.entry.gen = gen =>
       /\ l.entry.pos \in 1..Len(data)
       /\ data[l.entry.pos] = [task |-> l.task, ver |-> l.want]
       /\ ~Unlocked /\ op.step = "append" => l.entry.pos # op.pos

ReadersAgree == \A r \in Reader : IF reader[r].busy THEN Aims(reader[r]) ELSE reader[r].ok

Inv == TypeOK /\ Names(entries, data, gen) /\ CallAgrees /\ ReadersAgree

LEMMA InvInit == Init => Inv
<1> SUFFICES ASSUME Init PROVE Inv
  OBVIOUS
<1>1. Names(entries, data, gen)
  BY DEF Init, Names, NoEntry
<1>2. CallAgrees /\ ReadersAgree
  BY DEF Init, CallAgrees, ReadersAgree, Unlocked, Idle
<1>3. QED  BY <1>1, <1>2, TypeInit DEF Inv

\* A rewrite leaves every entry that was there, and every load under way, behind.
LEMMA RewriteAgrees ==
  ASSUME Inv, ~Unlocked, NEW kept, IsFiniteSet(kept), kept \subseteq Record,
         NEW then \in {"work", "unlock"}, Rewrite(kept, then)
  PROVE  Names(entries, data, gen)' /\ CallAgrees' /\ ReadersAgree'
<1>1. PICK d \in Packings(kept) :
         /\ data' = d
         /\ op' = [op EXCEPT !.step = "open", !.entries = PackedIndex(d), !.then = then]
  BY DEF Rewrite
<1>2. gen' = gen + 1 /\ gen \in Nat /\ UNCHANGED <<entries, reader>> /\ op \in Op
  BY CallTyped DEF Rewrite, Inv, TypeOK
<1>3. Names(PackedIndex(d), d, gen + 1)
  BY <1>2, PackedNames
<1>4. op'.step = "open" /\ op'.entries = PackedIndex(d)
  BY <1>1, <1>2 DEF Op
<1>5. \A t \in Task : entries[t].gen <= gen /\ entries[t].gen \in Nat
  BY DEF Inv, Names, TypeOK, Entry
<1>6. Names(entries, data, gen)'
  BY <1>2, <1>5 DEF Names
<1>7. CallAgrees'
  BY <1>1, <1>2, <1>3, <1>4 DEF CallAgrees
<1>8. ASSUME NEW r \in Reader, reader[r].busy PROVE Aims(reader[r])'
  <2>1. reader[r] \in Load /\ Aims(reader[r])
    BY <1>8 DEF Inv, TypeOK, ReadersAgree, Returned
  <2>2. reader[r].entry.gen \in Nat /\ reader[r].entry.gen <= gen
    BY <2>1 DEF Load, Entry, Aims
  <2>3. QED  BY <1>2, <2>2 DEF Aims
<1>9. ReadersAgree'
  BY <1>2, <1>8 DEF ReadersAgree, Inv
<1>10. QED  BY <1>6, <1>7, <1>9

LEMMA InvNext == Inv /\ [Next]_vars => Inv'
<1> SUFFICES ASSUME Inv, [Next]_vars PROVE Inv'
  OBVIOUS
<1> USE DEF Inv
<1>0. TypeOK'
  BY TypeNext
<1>1. ASSUME NEW t \in Task, NEW kind \in {"put", "save", "delete", "compact", "ensure"},
             Begin(kind, t)
      PROVE  Inv'
  <2>1. UNCHANGED <<data, gen, entries, reader>> /\ op'.step = "locked"
    BY <1>1 DEF Begin
  <2>2. QED  BY <1>0, <2>1 DEF Names, CallAgrees, ReadersAgree, Aims
<1>2. CASE Ensured
  <2>1. UNCHANGED <<data, gen, entries, reader>> /\ (op' = NoOp \/ op'.step = "work")
    BY <1>2, CallTyped DEF Ensured, Step, Unlock, TypeOK, Op
  <2>2. QED  BY <1>0, <2>1 DEF Names, CallAgrees, ReadersAgree, Aims, Unlocked
<1>3. CASE Migrate
  BY <1>0, <1>3, LegacyFile, RewriteAgrees DEF Migrate
<1>4. CASE Compact
  <2>1. PICK l \in Loaded : Rewrite({l[t] : t \in DOMAIN l}, "unlock")
    BY <1>4 DEF Compact
  <2>2. QED  BY <1>0, <1>4, <2>1, LoadedFile, RewriteAgrees DEF Compact
<1>5. CASE Refuse
  BY <1>0, <1>5 DEF Refuse, Unlock, Unlocked, Names, CallAgrees, ReadersAgree, Aims
<1>6. CASE AppendStart
  <2>1. /\ data' = Append(data, Garbage) /\ op'.step = "append" /\ op'.pos = Len(data) + 1
        /\ UNCHANGED <<gen, entries, reader>>
    BY <1>6, CallTyped DEF AppendStart, MayAppend, TypeOK, Op
  <2>2. /\ Len(data') = Len(data) + 1 /\ Len(data) \in Nat
        /\ \A i \in 1..Len(data) : data'[i] = data[i]
    BY <2>1, LenProperties DEF TypeOK
  <2>3. Names(entries, data, gen)'
    BY <2>1, <2>2 DEF Names
  <2>4. \A t \in Task : entries[t].gen = gen => entries[t].pos # Len(data) + 1
    BY <2>2 DEF Names
  <2>5. CallAgrees'
    BY <2>1, <2>2, <2>4 DEF CallAgrees
  <2>6. ASSUME NEW r \in Reader, reader[r].busy PROVE Aims(reader[r])'
    BY <2>1, <2>2, <2>6 DEF ReadersAgree, Aims
  <2>7. QED  BY <1>0, <2>1, <2>3, <2>5, <2>6 DEF ReadersAgree
<1>7. CASE AppendEnd
  <2>1. /\ op.step = "append" /\ ~Unlocked /\ op \in Op
        /\ op' = [op EXCEPT !.step = "update"]
        /\ data' = [data EXCEPT ![op.pos] = [task |-> op.task, ver |-> op.ver]]
        /\ UNCHANGED <<gen, entries, reader>>
    BY <1>7, CallTyped DEF AppendEnd, Step, TypeOK
  <2>2. op'.step = "update" /\ op'.pos = op.pos /\ op'.task = op.task /\ op'.ver = op.ver
    BY <2>1 DEF Op
  <2>3. /\ op.pos \in 1..Len(data)
        /\ \A t \in Task : entries[t].gen = gen => entries[t].pos # op.pos
    BY <2>1 DEF CallAgrees
  <2>4. /\ Len(data') = Len(data) /\ data'[op.pos] = [task |-> op.task, ver |-> op.ver]
        /\ \A i \in 1..Len(data) : i # op.pos => data'[i] = data[i]
    BY <2>1, <2>3, LenProperties DEF TypeOK
  <2>5. Names(entries, data, gen)'
    BY <2>1, <2>3, <2>4 DEF Names
  <2>6. CallAgrees'
    BY <2>1, <2>2, <2>3, <2>4 DEF CallAgrees
  <2>7. ASSUME NEW r \in Reader, reader[r].busy PROVE Aims(reader[r])'
    BY <2>1, <2>2, <2>4, <2>7 DEF ReadersAgree, Aims
  <2>8. QED  BY <1>0, <2>1, <2>5, <2>6, <2>7 DEF ReadersAgree
<1>8. CASE Update
  <2>1. /\ op.step = "update" /\ ~Unlocked /\ op \in Op
        /\ UNCHANGED <<data, gen, entries, reader>>
    BY <1>8, CallTyped DEF Update, TypeOK
  <2>2. op' # NoOp => /\ op'.step = "open"
                      /\ op'.entries = [entries EXCEPT ![op.task] = [pos |-> op.pos, gen |-> gen]]
    BY <1>8, <2>1 DEF Update, Unlock, Op
  <2>3. /\ op.pos \in 1..Len(data) /\ data[op.pos] = [task |-> op.task, ver |-> op.ver]
        /\ op.task \in Task /\ op.ver \in Version /\ gen \in Nat /\ entries \in [Task -> Entry]
    BY <2>1 DEF CallAgrees, TypeOK, Op
  <2>4. Names([entries EXCEPT ![op.task] = [pos |-> op.pos, gen |-> gen]], data, gen)
    <3> DEFINE es == [entries EXCEPT ![op.task] = [pos |-> op.pos, gen |-> gen]]
    <3>1. es[op.task] = [pos |-> op.pos, gen |-> gen] /\ \A t \in Task : t # op.task => es[t] = entries[t]
      BY <2>3
    <3> HIDE DEF es
    <3>2. \A t \in Task : t # op.task =>
            /\ es[t].gen <= gen
            /\ es[t].pos # 0 /\ es[t].gen = gen =>
                 es[t].pos \in 1..Len(data) /\ data[es[t].pos] \in [task : {t}, ver : Version]
      BY <3>1 DEF Names
    <3>3. /\ es[op.task].gen <= gen /\ es[op.task].pos \in 1..Len(data)
          /\ data[es[op.task].pos] \in [task : {op.task}, ver : Version]
      BY <2>3, <3>1
    <3>4. Names(es, data, gen)
      BY <3>2, <3>3 DEF Names
    <3>5. QED  BY <3>4 DEF es
  <2>5. CallAgrees'
    BY <2>1, <2>2, <2>4 DEF CallAgrees, Unlocked
  <2>6. QED  BY <1>0, <2>1, <2>2, <2>5 DEF Names, ReadersAgree, Aims, Unlocked
<1>9. CASE Delete
  <2>1. /\ op' = [op EXCEPT !.step = "open", !.entries = Deleted(entries, op.task)]
        /\ op \in Op /\ UNCHANGED <<data, gen, entries, reader>>
    BY <1>9, CallTyped DEF Delete, TypeOK
  <2>2. op'.step = "open" /\ op'.entries = Deleted(entries, op.task)
    BY <2>1 DEF Op
  <2>3. Names(Deleted(entries, op.task), data, gen)
    BY DEF Names, Deleted, NoEntry, TypeOK
  <2>4. QED  BY <1>0, <2>1, <2>2, <2>3 DEF Names, CallAgrees, ReadersAgree, Aims
<1>10. CASE OpenIndex
  <2>1. /\ op.step = "open" /\ op'.step = "fill" /\ op'.entries = op.entries /\ ~Unlocked
        /\ UNCHANGED <<data, gen, entries, reader>>
    BY <1>10, CallTyped DEF OpenIndex, Step, TypeOK, Op
  <2>2. QED  BY <1>0, <2>1 DEF Names, CallAgrees, ReadersAgree, Aims
<1>11. CASE FillIndex
  <2>1. /\ op.step = "fill" /\ ~Unlocked /\ entries' = op.entries
        /\ UNCHANGED <<data, gen, reader>> /\ (op' = NoOp \/ op'.step = "work")
    BY <1>11, CallTyped DEF FillIndex, Unlock, TypeOK, Op
  <2>2. Names(entries, data, gen)'
    BY <2>1 DEF Names, CallAgrees
  <2>3. QED  BY <1>0, <2>1, <2>2 DEF CallAgrees, ReadersAgree, Aims, Unlocked
<1>12. CASE Stop
  BY <1>0, <1>12 DEF Stop, Unlock, Unlocked, Names, CallAgrees, ReadersAgree, Aims
<1>13. ASSUME NEW r \in Reader, ReadRecord(r)
       PROVE  Inv'
  <2>1. UNCHANGED <<data, gen, entries, op>>
    BY <1>13 DEF ReadRecord
  <2>2. reader[r] \in Load /\ Aims(reader[r])
    BY <1>13 DEF ReadRecord, TypeOK, ReadersAgree, Returned
  <2>3. reader[r].entry.gen = gen =>
          Found(reader[r].entry) = {[task |-> reader[r].task, ver |-> reader[r].want]}
    BY <2>2 DEF Aims, Found
  <2>4. /\ ~reader'[r].busy /\ reader'[r].ok
        /\ \A q \in Reader : q # r => reader'[q] = reader[q]
    <3>1. PICK found \in Found(reader[r].entry) :
            reader' = [reader EXCEPT ![r] =
              [busy |-> FALSE,
               ok |-> reader[r].entry.gen = gen =>
                        found = [task |-> reader[r].task, ver |-> reader[r].want]]]
      BY <1>13 DEF ReadRecord
    <3>2. reader[r].entry.gen = gen => found = [task |-> reader[r].task, ver |-> reader[r].want]
      BY <2>3, <3>1
    <3>3. reader \in [Reader -> Load \cup Returned]
      BY DEF TypeOK
    <3>4. QED  BY <3>1, <3>2, <3>3
  <2>5. ReadersAgree'
    BY <2>1, <2>4 DEF ReadersAgree, Aims, Unlocked
  <2>6. QED  BY <1>0, <2>1, <2>5 DEF Names, CallAgrees, Unlocked
<1>14. ASSUME NEW r \in Reader, NEW t \in Task, ReadIndex(r, t)
       PROVE  Inv'
  <2>1. UNCHANGED <<data, gen, entries, op>>
    BY <1>14 DEF ReadIndex
  <2>2. /\ reader'[r].busy /\ reader'[r].task = t /\ reader'[r].entry = entries[t]
        /\ reader'[r].want = IF entries[t].gen = gen THEN data[entries[t].pos].ver ELSE 0
        /\ \A q \in Reader : q # r => reader'[q] = reader[q]
    BY <1>14 DEF ReadIndex, TypeOK
  <2>3. /\ entries[t].gen <= gen
        /\ entries[t].gen = gen =>
             /\ entries[t].pos \in 1..Len(data)
             /\ data[entries[t].pos] = [task |-> t, ver |-> data[entries[t].pos].ver]
             /\ ~Unlocked /\ op.step = "append" => entries[t].pos # op.pos
    BY <1>14 DEF ReadIndex, Live, Names, CallAgrees
  <2>4. Aims(reader'[r])
    BY <2>2, <2>3 DEF Aims
  <2>5. ReadersAgree'
    BY <2>1, <2>2, <2>4 DEF ReadersAgree, Aims, Unlocked
  <2>6. QED  BY <1>0, <2>1, <2>5 DEF Names, CallAgrees, Unlocked
<1>15. CASE UNCHANGED vars
  BY <1>0, <1>15 DEF vars, Names, CallAgrees, ReadersAgree, Aims, Unlocked
<1>16. QED
  BY <1>1, <1>2, <1>3, <1>4, <1>5, <1>6, <1>7, <1>8, <1>9, <1>10, <1>11, <1>12, <1>13, <1>14,
     <1>15 DEF Next

\* The files, the memory of the call that holds the lock and the loads under way have the
\* types TypeOK states (index_store.go), for any tasks, readers and bounds.
THEOREM TypeCorrect == Spec => []TypeOK
<1>1. Spec => []Inv
  BY InvInit, InvNext, PTL DEF Spec
<1>2. Inv => TypeOK
  BY DEF Inv
<1>3. QED  BY <1>1, <1>2, PTL

\* Whatever was cut short before, an entry of an index that parses names a whole record of
\* its own task (appendTaskIndexedLocked, saveTaskIndexedLocked, rewriteTaskIndexLocked).
THEOREM IndexNamesOwnRecordHolds == Spec => []IndexNamesOwnRecord
<1>1. Spec => []Inv
  BY InvInit, InvNext, PTL DEF Spec
<1>2. Inv => IndexNamesOwnRecord
  <2> SUFFICES ASSUME Inv PROVE IndexNamesOwnRecord
    OBVIOUS
  <2>1. DOMAIN data = 1..Len(data)
    BY LenProperties DEF Inv, TypeOK
  <2>2. QED  BY <2>1 DEF Inv, Names, IndexNamesOwnRecord, Live
<1>3. QED  BY <1>1, <1>2, PTL

\* A load without the lock returns what was current when it read the index, unless the data
\* file was replaced in between (loadTaskFromIndex, readJSONRecordAt).
THEOREM ReadIsCommittedHolds == Spec => []ReadIsCommitted
<1>1. Spec => []Inv
  BY InvInit, InvNext, PTL DEF Spec
<1>2. Inv => ReadIsCommitted
  BY DEF Inv, ReadersAgree, ReadIsCommitted
<1>3. QED  BY <1>1, <1>2, PTL

-----------------------------------------------------------------------------
(* The files are a map.                                                    *)

\* Every live entry is for the data file that is there.
Current(es) == \A t \in Task : es[t].pos # 0 => es[t].gen = gen

Migrating == op.then = "work" \/ op.kind = "ensure"

\* What a call has done by the step it is at.
Phase ==
  /\ op.then = "work" => op.kind # "ensure" /\ op.step \in {"open", "fill"}
  /\ op.kind = "ensure" => op.step \in {"locked", "open", "fill"}
  /\ op.step \in {"append", "update"} => op.kind \in {"put", "save"}
  /\ op.step = "fill" => file = "torn"
  /\ op.step = "open" => (file = "missing" <=> Migrating)
  /\ Rewriting => Current(op.entries)
  /\ Rewriting /\ Migrating => \A t \in Task : Ver(op.entries, t) = Legacy[t]
  /\ op.step \in {"open", "fill"} /\ ~Rewriting =>
       /\ op.kind \in {"put", "save", "delete"}
       /\ \E e \in Entry :
            /\ op.entries = [entries EXCEPT ![op.task] = e]
            /\ e.pos # 0 => e.gen = gen
            /\ (IF e.pos = 0 THEN 0 ELSE data[e.pos].ver) = IF op.kind = "delete" THEN 0 ELSE op.ver

Shape ==
  /\ file = "torn" => ~Unlocked /\ op.step = "fill"
  /\ file = "missing" => /\ Unlocked \/ op.step \in {"locked", "open"}
                         /\ \A t \in Task : entries[t] = NoEntry
  /\ ~Rewriting => Current(entries)
  /\ ~Unlocked => Phase

NoDataYet == gen = 0 => file = "missing" /\ (Unlocked \/ op.step = "locked")

MapInv == NoDataYet /\ (~cut => Shape)

LEMMA MapInit == Init => MapInv
  BY DEF Init, MapInv, NoDataYet, Shape, Unlocked, Current, NoEntry

LEMMA NoDataYetNext == Inv /\ NoDataYet /\ [Next]_vars => NoDataYet'
<1> SUFFICES ASSUME Inv, NoDataYet, [Next]_vars, gen' = 0
             PROVE  file' = "missing" /\ (Unlocked' \/ op'.step = "locked")
  BY DEF NoDataYet
<1> USE DEF NoDataYet
<1>1. gen \in Nat
  BY DEF Inv, TypeOK
<1>2. ASSUME NEW kept, NEW then, Rewrite(kept, then) PROVE FALSE
  BY <1>1, <1>2 DEF Rewrite
<1>3. CASE Migrate \/ Compact
  BY <1>2, <1>3 DEF Migrate, Compact
<1>4. ASSUME NEW t \in Task, NEW kind \in {"put", "save", "delete", "compact", "ensure"},
             Begin(kind, t)
      PROVE  file' = "missing" /\ op'.step = "locked"
  BY <1>4 DEF Begin
<1>5. CASE Refuse \/ Stop
  BY <1>5 DEF Refuse, Stop, Unlock, Unlocked
<1>6. CASE Ensured
  BY <1>6 DEF Ensured, HasIndex
<1>7. CASE AppendStart \/ AppendEnd \/ Update \/ Delete \/ OpenIndex \/ FillIndex
  BY <1>7 DEF AppendStart, MayAppend, AppendEnd, Update, Delete, OpenIndex, FillIndex, Step
<1>8. ASSUME NEW r \in Reader, ReadRecord(r) \/ \E t \in Task : ReadIndex(r, t)
      PROVE  UNCHANGED <<gen, file, op>>
  BY <1>8 DEF ReadRecord, ReadIndex
<1>9. CASE UNCHANGED vars
  BY <1>9 DEF vars, Unlocked
<1>10. QED  BY <1>3, <1>4, <1>5, <1>6, <1>7, <1>8, <1>9 DEF Next, Unlocked

\* A rewrite packs what the tasks hold.
LEMMA MigrateLegacy ==
  ASSUME Inv, Migrate
  PROVE  /\ Current(op.entries)'
         /\ \A t \in Task : Ver(op.entries, t)' = Legacy[t]
<1> DEFINE S == {t \in Task : Legacy[t] # 0}
           f == [t \in S |-> [task |-> t, ver |-> Legacy[t]]]
<1>1. IsFiniteSet(S) /\ f \in [S -> Record] /\ LegacyTasks = {f[t] : t \in S}
  BY LegacyFile
<1>2. PICK d \in Packings(LegacyTasks) :
         /\ data' = d /\ gen' = gen + 1 /\ op'.entries = PackedIndex(d)
  BY CallTyped DEF Migrate, Rewrite, Inv, TypeOK, Op
<1>3. \A t \in Task : IF t \in S THEN PackedIndex(d)[t].pos # 0 /\ d[PackedIndex(d)[t].pos] = f[t]
                                   ELSE PackedIndex(d)[t].pos = 0
  <2>1. S \in SUBSET Task /\ \A t \in S : f[t].task = t
    OBVIOUS
  <2>2. d \in Packings({f[t] : t \in S}) /\ gen \in Nat
    BY <1>1, <1>2 DEF Inv, TypeOK
  <2> HIDE DEF f, S
  <2>3. QED  BY <1>1, <2>1, <2>2, PackedVersions
<1>4. \A t \in Task : PackedIndex(d)[t].pos # 0 => PackedIndex(d)[t].gen = gen + 1
  BY LegacyFile, PackedNames DEF Inv, TypeOK
<1>5. Current(op.entries)'
  BY <1>2, <1>4 DEF Current
<1>6. ASSUME NEW t \in Task PROVE Ver(op.entries, t)' = Legacy[t]
  <2>1. Ver(op.entries, t)' = IF PackedIndex(d)[t].pos = 0 THEN 0 ELSE d[PackedIndex(d)[t].pos].ver
    BY <1>2 DEF Ver
  <2>2. CASE t \in S
    <3>1. f[t].ver = Legacy[t]
      BY <2>2
    <3>2. PackedIndex(d)[t].pos # 0 /\ d[PackedIndex(d)[t].pos] = f[t]
      BY <1>3, <2>2
    <3> HIDE DEF f, S
    <3>3. QED  BY <2>1, <3>1, <3>2
  <2>3. CASE t \notin S
    <3>1. Legacy[t] = 0
      BY <2>3
    <3>2. PackedIndex(d)[t].pos = 0
      BY <1>3, <2>3
    <3> HIDE DEF f, S
    <3>3. QED  BY <2>1, <3>1, <3>2
  <2>4. QED  BY <2>2, <2>3
<1>7. QED  BY <1>5, <1>6

LEMMA CompactSame ==
  ASSUME Inv, Shape, Compact
  PROVE  /\ Current(op.entries)'
         /\ \A t \in Task : Ver(op.entries, t)' = Ver(entries, t)
<1>1. PICK l \in Loaded : Rewrite({l[t] : t \in DOMAIN l}, "unlock")
  BY DEF Compact
<1>2. /\ IsFiniteSet({l[t] : t \in DOMAIN l}) /\ {l[t] : t \in DOMAIN l} \subseteq Record
      /\ DOMAIN l = Live(entries) /\ l \in [Live(entries) -> Record]
  BY LoadedFile DEF Inv
<1>3. PICK d \in Packings({l[t] : t \in DOMAIN l}) :
         /\ data' = d /\ gen' = gen + 1 /\ op'.entries = PackedIndex(d)
  BY <1>1, CallTyped DEF Compact, Rewrite, Inv, TypeOK, Op
<1>4. Current(entries)
  BY DEF Shape, Rewriting, Compact
<1>5. \A t \in Live(entries) : l[t] = data[entries[t].pos] /\ l[t].task = t
  BY <1>2, <1>4 DEF Loaded, Found, Live, Current, Inv, Names
<1>6. \A t \in Task : IF t \in Live(entries)
                      THEN PackedIndex(d)[t].pos # 0 /\ d[PackedIndex(d)[t].pos] = l[t]
                      ELSE PackedIndex(d)[t].pos = 0
  BY <1>2, <1>3, <1>5, LiveFinite, PackedVersions DEF Inv, TypeOK
<1>7. \A t \in Task : PackedIndex(d)[t].pos # 0 => PackedIndex(d)[t].gen = gen + 1
  BY <1>2, PackedNames DEF Inv, TypeOK
<1>8. Current(op.entries)'
  BY <1>3, <1>7 DEF Current
<1>9. ASSUME NEW t \in Task PROVE Ver(op.entries, t)' = Ver(entries, t)
  BY <1>3, <1>5, <1>6 DEF Ver, Live
<1>10. QED  BY <1>8, <1>9

LEMMA ShapeNext ==
  ASSUME Inv, NoDataYet, Shape, ~cut, ~cut', Next
  PROVE  Shape'
<1>0. op \in Op \/ Unlocked
  BY CallTyped DEF Inv, TypeOK
<1>1. ASSUME NEW t \in Task, NEW kind \in {"put", "save", "delete", "compact", "ensure"},
             Begin(kind, t)
      PROVE  Shape'
  <2>1. /\ Unlocked /\ op'.step = "locked" /\ op'.then = "unlock" /\ ~Rewriting /\ ~Rewriting'
        /\ UNCHANGED <<data, gen, file, entries>>
    BY <1>1 DEF Begin, Rewriting
  <2>2. QED  BY <2>1 DEF Shape, Phase, Current
<1>2. CASE Ensured
  <2>1. /\ ~Unlocked /\ op.step = "locked" /\ HasIndex /\ op \in Op
        /\ UNCHANGED <<data, gen, file, entries>>
    BY <1>0, <1>2 DEF Ensured
  <2>2. ~Rewriting /\ op.then # "work"
    BY <2>1 DEF Rewriting, Shape, Phase
  <2>3. \/ op' = NoOp
        \/ op.kind # "ensure" /\ op'.step = "work" /\ op'.then = op.then /\ op'.kind = op.kind
    BY <1>2, <2>1 DEF Ensured, Unlock, Step, Op
  <2>4. ~Rewriting'
    BY <2>3 DEF Rewriting, Unlocked
  <2>5. QED  BY <2>1, <2>2, <2>3, <2>4 DEF Shape, Phase, Current, HasIndex, Unlocked
<1>3. CASE Migrate
  <2>1. /\ ~Unlocked /\ op.step = "locked" /\ op \in Op /\ file = "missing"
        /\ UNCHANGED <<file, entries>>
    BY <1>0, <1>3 DEF Migrate, Rewrite, HasIndex, NoDataYet, Inv, TypeOK
  <2>2. /\ op'.step = "open" /\ op'.kind = op.kind /\ op' \in Op
        /\ op'.then = IF op.kind = "ensure" THEN "unlock" ELSE "work"
    <3>1. PICK d \in Packings(LegacyTasks) :
            op' = [op EXCEPT !.step = "open", !.entries = PackedIndex(d),
                             !.then = IF op.kind = "ensure" THEN "unlock" ELSE "work"]
      BY <1>3 DEF Migrate, Rewrite
    <3>2. PackedIndex(d) \in [Task -> Entry]
      BY LegacyFile, PackedNames DEF Inv, TypeOK
    <3>3. QED  BY <2>1, <3>1, <3>2 DEF Op
  <2>3. Rewriting' /\ Migrating'
    <3>1. ~Unlocked'
      BY <2>2 DEF Unlocked, NoOp, Op
    <3>2. CASE op.kind = "ensure"
      BY <2>2, <3>1, <3>2 DEF Rewriting, Migrating
    <3>3. CASE op.kind # "ensure"
      BY <2>2, <3>1, <3>3 DEF Rewriting, Migrating
    <3>4. QED  BY <3>2, <3>3
  <2>4. Phase'
    BY <1>3, <2>1, <2>2, <2>3, MigrateLegacy DEF Phase
  <2>5. QED  BY <2>1, <2>2, <2>3, <2>4 DEF Shape
<1>4. CASE Compact
  <2>1. /\ ~Unlocked /\ op.step = "work" /\ op \in Op /\ op.kind = "compact" /\ file = "whole"
        /\ UNCHANGED <<file, entries>>
    BY <1>0, <1>4 DEF Compact, Rewrite
  <2>2. op'.step = "open" /\ op'.kind = "compact" /\ op'.then = "unlock"
    BY <1>4, <2>1 DEF Compact, Rewrite, Op
  <2>3. Rewriting' /\ ~Migrating'
    BY <2>2 DEF Rewriting, Migrating, Unlocked, NoOp
  <2>4. Phase'
    BY <1>4, <2>1, <2>2, <2>3, CompactSame DEF Phase
  <2>5. QED  BY <2>1, <2>2, <2>3, <2>4 DEF Shape
<1>5. CASE Refuse
  <2>1. /\ ~Unlocked /\ op.step = "work" /\ Unlocked' /\ UNCHANGED <<data, gen, file, entries>>
    BY <1>5 DEF Refuse, Unlock, Unlocked
  <2>2. QED  BY <2>1 DEF Shape, Rewriting, Current
<1>6. CASE AppendStart
  <2>1. /\ ~Unlocked /\ op.step = "work" /\ op \in Op /\ op.kind \in {"put", "save"}
        /\ UNCHANGED <<gen, file, entries>>
    BY <1>0, <1>6 DEF AppendStart, MayAppend
  <2>2. op'.step = "append" /\ op'.kind = op.kind /\ op'.then = op.then
    BY <1>6, <2>1 DEF AppendStart, Op
  <2>3. ~Rewriting /\ ~Rewriting'
    BY <2>1, <2>2 DEF Rewriting
  <2>4. QED  BY <2>1, <2>2, <2>3 DEF Shape, Phase, Current, Unlocked
<1>7. CASE AppendEnd
  <2>1. /\ ~Unlocked /\ op.step = "append" /\ op \in Op /\ UNCHANGED <<gen, file, entries>>
    BY <1>0, <1>7 DEF AppendEnd, Step
  <2>2. op'.step = "update" /\ op'.kind = op.kind /\ op'.then = op.then
    BY <1>7, <2>1 DEF AppendEnd, Step, Op
  <2>3. ~Rewriting /\ ~Rewriting'
    BY <2>1, <2>2 DEF Rewriting
  <2>4. QED  BY <2>1, <2>2, <2>3 DEF Shape, Phase, Current, Unlocked
<1>8. CASE Update
  <2>1. /\ ~Unlocked /\ op.step = "update" /\ op \in Op /\ op.kind \in {"put", "save"}
        /\ op.then = "unlock" /\ file = "whole" /\ UNCHANGED <<data, gen, file, entries>>
    BY <1>0, <1>8 DEF Update, Shape, Phase, Op, Inv, TypeOK
  <2> DEFINE e == [pos |-> op.pos, gen |-> gen]
  <2>2. /\ op'.step = "open" /\ op'.kind = op.kind /\ op'.then = op.then /\ op'.task = op.task
        /\ op'.ver = op.ver /\ op'.entries = [entries EXCEPT ![op.task] = e]
    BY <1>8, <2>1 DEF Update, Op
  <2>3. ~Rewriting /\ ~Rewriting' /\ ~Migrating'
    BY <2>1, <2>2 DEF Rewriting, Migrating
  <2>4. /\ e \in Entry /\ e.gen = gen /\ e.pos # 0 /\ data[e.pos].ver = op.ver
    BY <2>1 DEF Inv, TypeOK, Op, Entry, CallAgrees
  <2> HIDE DEF e
  <2>5. Phase'
    BY <2>1, <2>2, <2>3, <2>4 DEF Phase
  <2>6. QED  BY <2>1, <2>2, <2>3, <2>5 DEF Shape, Current
<1>9. CASE Delete
  <2>1. /\ ~Unlocked /\ op.step = "work" /\ op \in Op /\ op.kind = "delete" /\ file = "whole"
        /\ UNCHANGED <<data, gen, file, entries>>
    BY <1>0, <1>9 DEF Delete
  <2>2. op.then = "unlock"
    BY <2>1 DEF Shape, Phase, Op
  <2>3. /\ op'.step = "open" /\ op'.kind = "delete" /\ op'.then = "unlock" /\ op'.task = op.task
        /\ op'.entries = [entries EXCEPT ![op.task] = NoEntry]
    BY <1>9, <2>1, <2>2 DEF Delete, Deleted, Op
  <2>4. ~Rewriting /\ ~Rewriting' /\ ~Migrating'
    BY <2>1, <2>3 DEF Rewriting, Migrating
  <2>5. NoEntry \in Entry /\ NoEntry.pos = 0
    BY DEF NoEntry, Entry
  <2>6. Phase'
    BY <2>1, <2>3, <2>4, <2>5 DEF Phase
  <2>7. QED  BY <2>1, <2>3, <2>4, <2>6 DEF Shape, Current
<1>10. CASE OpenIndex
  <2>1. /\ ~Unlocked /\ op.step = "open" /\ op \in Op /\ file' = "torn"
        /\ UNCHANGED <<data, gen, entries>> /\ Phase
    BY <1>0, <1>10 DEF OpenIndex, Step, Shape
  <2>2. /\ op'.step = "fill" /\ op'.kind = op.kind /\ op'.then = op.then /\ op'.task = op.task
        /\ op'.ver = op.ver /\ op'.entries = op.entries /\ ~Unlocked'
    BY <1>10, <2>1 DEF OpenIndex, Step, Op, Unlocked, NoOp
  <2>3. Rewriting' = Rewriting /\ Migrating' = Migrating
    BY <2>1, <2>2 DEF Rewriting, Migrating
  <2>4. Phase'
    BY <2>1, <2>2, <2>3 DEF Phase, Current, Ver
  <2>5. QED  BY <2>1, <2>2, <2>3, <2>4 DEF Shape, Current
<1>11. CASE FillIndex
  <2>1. /\ ~Unlocked /\ op.step = "fill" /\ op \in Op /\ file' = "whole" /\ entries' = op.entries
        /\ UNCHANGED <<data, gen>> /\ Phase
    BY <1>0, <1>11 DEF FillIndex, Shape
  <2>2. \/ op' = NoOp
        \/ /\ op.then = "work" /\ op'.step = "work" /\ op'.kind = op.kind /\ op'.then = "unlock"
    BY <1>11, <2>1 DEF FillIndex, Unlock, Op
  <2>3. ~Rewriting'
    BY <2>2 DEF Rewriting, Unlocked
  <2>4. Current(op.entries)
    <3>1. CASE Rewriting
      BY <2>1, <3>1 DEF Phase
    <3>2. CASE ~Rewriting
      <4>1. Current(entries)
        BY <3>2 DEF Shape
      <4>2. PICK e \in Entry : /\ op.entries = [entries EXCEPT ![op.task] = e]
                               /\ e.pos # 0 => e.gen = gen
        BY <2>1, <3>2 DEF Phase
      <4>3. entries \in [Task -> Entry]
        BY DEF Inv, TypeOK
      <4>4. QED  BY <4>1, <4>2, <4>3 DEF Current
    <3>3. QED  BY <3>1, <3>2
  <2>5. CASE op' = NoOp
    BY <2>1, <2>4, <2>5 DEF Shape, Current, Unlocked
  <2>6. CASE op.then = "work" /\ op'.step = "work" /\ op'.kind = op.kind /\ op'.then = "unlock"
    <3>1. op.kind # "ensure"
      BY <2>1, <2>6 DEF Phase
    <3>2. Phase'
      BY <2>3, <2>6, <3>1 DEF Phase
    <3>3. QED  BY <2>1, <2>3, <2>4, <3>2 DEF Shape, Current
  <2>7. QED  BY <2>2, <2>5, <2>6
<1>12. CASE Stop
  <2>1. ~Unlocked /\ Unlocked' /\ UNCHANGED <<data, gen, file, entries>> /\ op.step # "fill" /\ ~Moved
    BY <1>12 DEF Stop, Unlock, Unlocked
  <2>2. Current(entries)
    <3>1. CASE Rewriting
      <4>1. op \in Op /\ op.step = "open" /\ op.then \in {"work", "unlock"} /\ Phase
        BY <1>0, <2>1, <3>1 DEF Rewriting, Shape, Op
      <4>2. op.kind # "compact" \/ op.then = "work"
        BY <2>1, <4>1 DEF Moved
      <4>3. Migrating
        BY <3>1, <4>1, <4>2 DEF Rewriting, Migrating
      <4>4. file = "missing"
        BY <4>1, <4>3 DEF Phase
      <4>5. QED  BY <4>4 DEF Shape, Current, NoEntry
    <3>2. CASE ~Rewriting
      BY <3>2 DEF Shape
    <3>3. QED  BY <3>1, <3>2
  <2>3. file # "torn" /\ ~Rewriting'
    BY <2>1 DEF Shape, Rewriting
  <2>4. QED  BY <2>1, <2>2, <2>3 DEF Shape, Current
<1>13. ASSUME NEW r \in Reader, ReadRecord(r) \/ \E t \in Task : ReadIndex(r, t)
       PROVE  Shape'
  <2>1. UNCHANGED <<data, gen, file, entries, op>>
    BY <1>13 DEF ReadRecord, ReadIndex
  <2>2. QED  BY <2>1 DEF Shape, Phase, Rewriting, Migrating, Unlocked, Current, Ver
<1>14. QED
  BY <1>1, <1>2, <1>3, <1>4, <1>5, <1>6, <1>7, <1>8, <1>9, <1>10, <1>11, <1>12, <1>13 DEF Next

LEMMA MapInvNext == Inv /\ MapInv /\ [Next]_vars => MapInv'
<1> SUFFICES ASSUME Inv, MapInv, [Next]_vars PROVE MapInv'
  OBVIOUS
<1>1. NoDataYet'
  BY NoDataYetNext DEF MapInv
<1>2. CASE UNCHANGED vars
  BY <1>1, <1>2 DEF vars, MapInv, Shape, Phase, Rewriting, Migrating, Unlocked, Current, Ver
<1>3. CASE Next
  <2>1. cut => cut'
    BY <1>3 DEF Next, Begin, Ensured, Migrate, Compact, Rewrite, Refuse, AppendStart, AppendEnd,
                Update, Delete, OpenIndex, FillIndex, Stop, ReadRecord, ReadIndex
  <2>2. ~cut' => Shape'
    BY <1>3, <2>1, ShapeNext DEF MapInv
  <2>3. QED  BY <1>1, <2>2 DEF MapInv
<1>4. QED  BY <1>2, <1>3

\* The value of the map, branch by branch.
ValAt(t) ==
  IF cut THEN 0
  ELSE IF file = "missing" THEN Legacy[t]
  ELSE IF Rewriting THEN Ver(op.entries, t)
  ELSE Ver(entries, t)

LEMMA ValBranches ==
  /\ Val = [t \in Task |-> ValAt(t)]
  /\ Val' = [t \in Task |-> ValAt(t)']
<1>1. ASSUME NEW t \in Task
      PROVE  (CASE cut -> 0
                [] ~cut /\ file = "missing" -> Legacy[t]
                [] ~cut /\ file # "missing" /\ Rewriting -> Ver(op.entries, t)
                [] OTHER -> Ver(entries, t)) = ValAt(t)
  BY DEF ValAt
<1>2. ASSUME NEW t \in Task
      PROVE  (CASE cut -> 0
                [] ~cut /\ file = "missing" -> Legacy[t]
                [] ~cut /\ file # "missing" /\ Rewriting -> Ver(op.entries, t)
                [] OTHER -> Ver(entries, t))' = ValAt(t)'
  BY DEF ValAt
<1>3. QED  BY <1>1, <1>2 DEF Val

\* What the map sees of the call that holds the lock.
Saving == ~Unlocked /\ op.kind \in {"put", "save", "delete"}

LEMMA CallBranches ==
  /\ Saving => Call = [task |-> op.task, ver |-> IF op.kind = "delete" THEN 0 ELSE op.ver]
  /\ ~Saving => Call = Map!NoCall
  /\ Saving' => Call' = [task |-> op'.task, ver |-> IF op'.kind = "delete" THEN 0 ELSE op'.ver]
  /\ ~Saving' => Call' = Map!NoCall
  BY DEF Call, Saving, Map!NoCall, Map!Absent

\* A step of the map: the call ends where it began, begins, takes effect, or has none.
LEMMA MapStep ==
  ASSUME ~cut, ~cut', TypeOK, TypeOK',
         \/ /\ \A t \in Task : ValAt(t)' = ValAt(t)
            /\ \/ Saving /\ Saving' /\ UNCHANGED <<op.task, op.kind, op.ver>>
               \/ ~Saving /\ ~Saving'
               \/ ~Saving /\ Saving'
               \/ Saving /\ ~Saving'
         \/ /\ Saving /\ ~Saving'
            /\ \A t \in Task : ValAt(t)' =
                 IF t # op.task THEN ValAt(t) ELSE IF op.kind = "delete" THEN 0 ELSE op.ver
  PROVE  [Map!TNext]_(Map!tvars)
<1>1. (~cut) = TRUE /\ (~cut') = TRUE /\ (~cut') = (~cut)
  OBVIOUS
<1>2. Saving => Call \in Map!Call
  BY CallBranches, CallTyped DEF TypeOK, Saving, Op, Map!Call, Map!Absent
<1>3. Saving' => Call' \in Map!Call
  <2> SUFFICES ASSUME Saving' PROVE Call' \in Map!Call
    OBVIOUS
  <2>1. op' \in Op
    BY DEF TypeOK, Saving, Unlocked
  <2>2. QED  BY <2>1, CallBranches DEF Op, Map!Call, Map!Absent
<1>4. ASSUME \A t \in Task : ValAt(t)' = ValAt(t) PROVE Val' = Val
  BY <1>4, ValBranches
<1>5. CASE /\ \A t \in Task : ValAt(t)' = ValAt(t)
           /\ Saving /\ Saving' /\ UNCHANGED <<op.task, op.kind, op.ver>>
  <2>1. Val' = Val /\ Call' = Call
    BY <1>4, <1>5, CallBranches
  <2>2. QED  BY <1>1, <2>1 DEF Map!tvars
<1>6. CASE (\A t \in Task : ValAt(t)' = ValAt(t)) /\ ~Saving /\ ~Saving'
  <2>1. Val' = Val /\ Call' = Call
    BY <1>4, <1>6, CallBranches
  <2>2. QED  BY <1>1, <2>1 DEF Map!tvars
<1>7. CASE (\A t \in Task : ValAt(t)' = ValAt(t)) /\ ~Saving /\ Saving'
  <2>1. Map!Start
    BY <1>3, <1>4, <1>7, CallBranches DEF Map!Start
  <2>2. QED  BY <1>1, <2>1 DEF Map!TNext
<1>8. CASE (\A t \in Task : ValAt(t)' = ValAt(t)) /\ Saving /\ ~Saving'
  <2>1. Map!Drop
    BY <1>2, <1>4, <1>8, CallBranches DEF Map!Drop
  <2>2. QED  BY <1>1, <2>1 DEF Map!TNext
<1>9. CASE /\ Saving /\ ~Saving'
           /\ \A t \in Task : ValAt(t)' =
                IF t # op.task THEN ValAt(t) ELSE IF op.kind = "delete" THEN 0 ELSE op.ver
  <2>1. Call.task = op.task /\ Call.ver = IF op.kind = "delete" THEN 0 ELSE op.ver
    BY <1>9, CallBranches
  <2>2. Val' = [Val EXCEPT ![Call.task] = Call.ver]
    BY <1>9, <2>1, ValBranches
  <2>3. Map!Commit
    BY <1>2, <1>9, <2>2, CallBranches DEF Map!Commit
  <2>4. QED  BY <1>1, <2>3 DEF Map!TNext
<1>10. QED  BY <1>5, <1>6, <1>7, <1>8, <1>9

LEMMA NamesKept ==
  ASSUME Inv, NEW t \in Task, entries[t].pos # 0, entries[t].gen = gen
  PROVE  entries[t].pos \in 1..Len(data) /\ (~Unlocked /\ op.step = "append" => entries[t].pos # op.pos)
  BY DEF Inv, Names, CallAgrees

LEMMA MapSteps ==
  ASSUME Inv, Inv', NoDataYet, Shape, ~cut, ~cut', Next
  PROVE  [Map!TNext]_(Map!tvars)
<1>0. /\ TypeOK /\ TypeOK' /\ (op \in Op \/ Unlocked)
  BY CallTyped DEF Inv, TypeOK
<1>1. ASSUME NEW t \in Task, NEW kind \in {"put", "save", "delete", "compact", "ensure"},
             Begin(kind, t)
      PROVE  [Map!TNext]_(Map!tvars)
  <2>1. Unlocked /\ op'.step = "locked" /\ UNCHANGED <<data, file, entries, cut>>
    BY <1>1 DEF Begin
  <2>2. ~Rewriting /\ ~Rewriting' /\ ~Saving
    BY <2>1 DEF Rewriting, Saving
  <2>3. \A u \in Task : ValAt(u)' = ValAt(u)
    BY <2>1, <2>2 DEF ValAt, Ver
  <2>4. QED  BY <1>0, <2>2, <2>3, MapStep
<1>2. CASE Ensured
  <2>1. /\ ~Unlocked /\ op.step = "locked" /\ op \in Op /\ UNCHANGED <<data, file, entries, cut>>
    BY <1>0, <1>2 DEF Ensured
  <2>2. \/ op' = NoOp /\ op.kind = "ensure"
        \/ /\ op'.step = "work" /\ op' \in Op /\ UNCHANGED <<op.task, op.kind, op.ver>>
    BY <1>2, <2>1 DEF Ensured, Unlock, Step, Op
  <2>3. ~Rewriting /\ ~Rewriting'
    BY <2>1, <2>2 DEF Rewriting, Unlocked
  <2>4. \A u \in Task : ValAt(u)' = ValAt(u)
    BY <2>1, <2>3 DEF ValAt, Ver
  <2>5. Saving' => UNCHANGED <<op.task, op.kind, op.ver>>
    BY <2>2 DEF Saving, Unlocked
  <2>6. QED  BY <1>0, <2>4, <2>5, MapStep
<1>3. CASE Migrate
  <2>1. /\ ~Unlocked /\ op.step = "locked" /\ op \in Op /\ file = "missing"
        /\ UNCHANGED <<file, entries, cut>>
    BY <1>0, <1>3 DEF Migrate, Rewrite, HasIndex, NoDataYet, Inv, TypeOK
  <2>2. \A u \in Task : ValAt(u)' = ValAt(u)
    BY <2>1 DEF ValAt
  <2>3. UNCHANGED <<op.task, op.kind, op.ver>>
    BY <1>3, <2>1 DEF Migrate, Rewrite, Op
  <2>4. QED  BY <1>0, <2>2, <2>3, MapStep
<1>4. CASE Compact
  <2>1. /\ ~Unlocked /\ op.step = "work" /\ op \in Op /\ op.kind = "compact" /\ file = "whole"
        /\ UNCHANGED <<file, entries, cut>>
    BY <1>0, <1>4 DEF Compact, Rewrite
  <2>2. op'.step = "open" /\ op'.kind = "compact" /\ op'.then = "unlock"
    BY <1>4, <2>1 DEF Compact, Rewrite, Op
  <2>3. ~Rewriting /\ Rewriting' /\ ~Saving /\ ~Saving'
    BY <2>1, <2>2 DEF Rewriting, Saving, Unlocked, NoOp
  <2>4. \A u \in Task : ValAt(u)' = ValAt(u)
    BY <1>4, <2>1, <2>3, CompactSame DEF ValAt
  <2>5. QED  BY <1>0, <2>3, <2>4, MapStep
<1>5. CASE Refuse
  <2>1. /\ op.step = "work" /\ Unlocked' /\ UNCHANGED <<data, file, entries, cut>>
    BY <1>5 DEF Refuse, Unlock, Unlocked
  <2>2. ~Rewriting /\ ~Rewriting' /\ ~Saving'
    BY <2>1 DEF Rewriting, Saving
  <2>3. \A u \in Task : ValAt(u)' = ValAt(u)
    BY <2>1, <2>2 DEF ValAt, Ver
  <2>4. QED  BY <1>0, <2>2, <2>3, MapStep
<1>6. CASE AppendStart
  <2>1. /\ ~Unlocked /\ op.step = "work" /\ op \in Op /\ UNCHANGED <<gen, file, entries, cut>>
        /\ data' = Append(data, Garbage)
    BY <1>0, <1>6 DEF AppendStart, MayAppend
  <2>2. op'.step = "append" /\ UNCHANGED <<op.task, op.kind, op.ver>>
    BY <1>6, <2>1 DEF AppendStart, Op
  <2>3. ~Rewriting /\ ~Rewriting'
    BY <2>1, <2>2 DEF Rewriting
  <2>4. \A i \in 1..Len(data) : data'[i] = data[i]
    BY <1>0, <2>1, LenProperties DEF TypeOK
  <2>5. \A u \in Task : Ver(entries, u)' = Ver(entries, u)
    BY <2>1, <2>3, <2>4, NamesKept DEF Ver, Shape, Current
  <2>6. \A u \in Task : ValAt(u)' = ValAt(u)
    BY <2>1, <2>3, <2>5 DEF ValAt
  <2>7. QED  BY <1>0, <2>2, <2>6, MapStep
<1>7. CASE AppendEnd
  <2>1. /\ ~Unlocked /\ op.step = "append" /\ op \in Op /\ UNCHANGED <<gen, file, entries, cut>>
        /\ data' = [data EXCEPT ![op.pos] = [task |-> op.task, ver |-> op.ver]]
    BY <1>0, <1>7 DEF AppendEnd, Step
  <2>2. op'.step = "update" /\ UNCHANGED <<op.task, op.kind, op.ver>>
    BY <1>7, <2>1 DEF AppendEnd, Step, Op
  <2>3. ~Rewriting /\ ~Rewriting'
    BY <2>1, <2>2 DEF Rewriting
  <2>4. \A i \in 1..Len(data) : i # op.pos => data'[i] = data[i]
    BY <1>0, <2>1, LenProperties DEF TypeOK
  <2>5. \A u \in Task : Ver(entries, u)' = Ver(entries, u)
    BY <2>1, <2>3, <2>4, NamesKept DEF Ver, Shape, Current
  <2>6. \A u \in Task : ValAt(u)' = ValAt(u)
    BY <2>1, <2>3, <2>5 DEF ValAt
  <2>7. QED  BY <1>0, <2>2, <2>6, MapStep
<1>8. CASE Update
  <2>1. /\ ~Unlocked /\ op.step = "update" /\ op \in Op /\ op.kind \in {"put", "save"}
        /\ op.then = "unlock" /\ file = "whole" /\ UNCHANGED <<data, gen, file, entries, cut>>
    BY <1>0, <1>8 DEF Update, Shape, Phase, Op, Inv, TypeOK
  <2>2. op'.step = "open" /\ op'.then = op.then /\ UNCHANGED <<op.task, op.kind, op.ver>>
    BY <1>8, <2>1 DEF Update, Op
  <2>3. ~Rewriting /\ ~Rewriting'
    BY <2>1, <2>2 DEF Rewriting
  <2>4. \A u \in Task : ValAt(u)' = ValAt(u)
    BY <2>1, <2>3 DEF ValAt, Ver
  <2>5. QED  BY <1>0, <2>2, <2>4, MapStep
<1>9. CASE Delete
  <2>1. /\ ~Unlocked /\ op.step = "work" /\ op \in Op /\ op.kind = "delete"
        /\ UNCHANGED <<data, gen, file, entries, cut>>
    BY <1>0, <1>9 DEF Delete
  <2>2. op.then = "unlock"
    BY <2>1 DEF Shape, Phase, Op
  <2>3. op'.step = "open" /\ op'.then = op.then /\ UNCHANGED <<op.task, op.kind, op.ver>>
    BY <1>9, <2>1 DEF Delete, Op
  <2>4. ~Rewriting /\ ~Rewriting'
    BY <2>1, <2>2, <2>3 DEF Rewriting
  <2>5. \A u \in Task : ValAt(u)' = ValAt(u)
    BY <2>1, <2>4 DEF ValAt, Ver
  <2>6. QED  BY <1>0, <2>3, <2>5, MapStep
<1>10. CASE OpenIndex
  <2>1. /\ ~Unlocked /\ op.step = "open" /\ op \in Op /\ file' = "torn"
        /\ UNCHANGED <<data, gen, entries, cut>> /\ Phase
    BY <1>0, <1>10 DEF OpenIndex, Step, Shape
  <2>2. /\ op'.step = "fill" /\ op'.then = op.then /\ op'.entries = op.entries /\ ~Unlocked'
        /\ UNCHANGED <<op.task, op.kind, op.ver>>
    BY <1>10, <2>1 DEF OpenIndex, Step, Op, Unlocked, NoOp
  <2>3. Rewriting' = Rewriting
    BY <2>1, <2>2 DEF Rewriting
  <2>4. \A u \in Task : UNCHANGED <<Ver(entries, u), Ver(op.entries, u)>>
    BY <2>1, <2>2 DEF Ver
  <2>5. CASE file = "missing"
    <3>1. Migrating
      BY <2>1, <2>5 DEF Phase
    <3>2. Rewriting
      BY <2>1, <3>1 DEF Migrating, Rewriting
    <3>3. \A u \in Task : ValAt(u)' = ValAt(u)
      BY <2>1, <2>3, <2>4, <2>5, <3>1, <3>2 DEF ValAt, Phase
    <3>4. QED  BY <1>0, <2>2, <3>3, MapStep
  <2>6. CASE file # "missing"
    <3>1. \A u \in Task : ValAt(u)' = ValAt(u)
      BY <2>1, <2>3, <2>4, <2>6 DEF ValAt
    <3>2. QED  BY <1>0, <2>2, <3>1, MapStep
  <2>7. QED  BY <2>5, <2>6
<1>11. CASE FillIndex
  <2>1. /\ ~Unlocked /\ op.step = "fill" /\ op \in Op /\ file = "torn" /\ file' = "whole"
        /\ entries' = op.entries /\ UNCHANGED <<data, gen, cut>> /\ Phase
    BY <1>0, <1>11 DEF FillIndex, Shape, Phase
  <2>2. \/ op' = NoOp
        \/ /\ op.then = "work" /\ op'.step = "work" /\ op' \in Op
           /\ UNCHANGED <<op.task, op.kind, op.ver>>
    BY <1>11, <2>1 DEF FillIndex, Unlock, Op
  <2>3. ~Rewriting'
    BY <2>2 DEF Rewriting, Unlocked
  <2>4. \A u \in Task : ValAt(u)' = Ver(op.entries, u)
    BY <2>1, <2>3 DEF ValAt, Ver
  <2>5. CASE Rewriting
    <3>1. \A u \in Task : ValAt(u)' = ValAt(u)
      BY <2>1, <2>4, <2>5 DEF ValAt
    <3>2. Saving' => UNCHANGED <<op.task, op.kind, op.ver>>
      BY <2>2 DEF Saving, Unlocked
    <3>3. QED  BY <1>0, <3>1, <3>2, MapStep
  <2>6. CASE ~Rewriting
    <3>1. PICK e \in Entry :
            /\ op.entries = [entries EXCEPT ![op.task] = e]
            /\ (IF e.pos = 0 THEN 0 ELSE data[e.pos].ver) = IF op.kind = "delete" THEN 0 ELSE op.ver
      BY <2>1, <2>6 DEF Phase
    <3>2. op.kind \in {"put", "save", "delete"}
      BY <2>1, <2>6 DEF Phase
    <3>3. Saving /\ op' = NoOp
      BY <2>1, <2>2, <2>6, <3>2 DEF Saving, Rewriting
    <3>4. ~Saving'
      BY <3>3 DEF Saving, Unlocked
    <3>5. entries \in [Task -> Entry]
      BY <1>0 DEF TypeOK
    <3>6. \A u \in Task : Ver(op.entries, u) =
            IF u # op.task THEN Ver(entries, u) ELSE IF op.kind = "delete" THEN 0 ELSE op.ver
      BY <3>1, <3>5 DEF Ver
    <3>7. \A u \in Task : ValAt(u) = Ver(entries, u)
      BY <2>1, <2>6 DEF ValAt
    <3>8. \A u \in Task : ValAt(u)' =
            IF u # op.task THEN ValAt(u) ELSE IF op.kind = "delete" THEN 0 ELSE op.ver
      BY <2>4, <3>6, <3>7
    <3>9. QED  BY <1>0, <3>3, <3>4, <3>8, MapStep
  <2>7. QED  BY <2>5, <2>6
<1>12. CASE Stop
  <2>1. /\ ~Unlocked /\ Unlocked' /\ UNCHANGED <<data, gen, file, entries>>
        /\ op.step # "fill" /\ ~Moved /\ Phase
    BY <1>12 DEF Stop, Unlock, Unlocked, Shape
  <2>2. file = "missing" \/ ~Rewriting
    <3>1. CASE Rewriting
      <4>1. op \in Op /\ op.step = "open" /\ op.then \in {"work", "unlock"}
        BY <1>0, <2>1, <3>1 DEF Rewriting, Op
      <4>2. op.kind # "compact" \/ op.then = "work"
        BY <2>1, <4>1 DEF Moved
      <4>3. Migrating
        BY <3>1, <4>1, <4>2 DEF Rewriting, Migrating
      <4>4. QED  BY <2>1, <4>1, <4>3 DEF Phase
    <3>2. QED  BY <3>1
  <2>3. ~Rewriting' /\ ~Saving'
    BY <2>1 DEF Rewriting, Saving
  <2>4. \A u \in Task : ValAt(u)' = ValAt(u)
    BY <2>1, <2>2, <2>3 DEF ValAt, Ver
  <2>5. QED  BY <1>0, <2>3, <2>4, MapStep
<1>13. ASSUME NEW r \in Reader, ReadRecord(r) \/ \E t \in Task : ReadIndex(r, t)
       PROVE  [Map!TNext]_(Map!tvars)
  <2>1. UNCHANGED <<data, file, entries, op, cut>>
    BY <1>13 DEF ReadRecord, ReadIndex
  <2>2. \A u \in Task : ValAt(u)' = ValAt(u)
    BY <2>1 DEF ValAt, Ver, Rewriting, Unlocked
  <2>3. QED  BY <1>0, <2>1, <2>2, MapStep
<1>14. QED
  BY <1>1, <1>2, <1>3, <1>4, <1>5, <1>6, <1>7, <1>8, <1>9, <1>10, <1>11, <1>12, <1>13 DEF Next

\* Each task has one version, whatever was cut short: a save or a delete takes effect whole or
\* not at all, and migrations, compactions, stopped appends and failed calls change nothing,
\* until a call is stopped where the index cannot be told from the records.
THEOREM ImplementsTaskMap == Spec => IsTaskMap
<1>1. Init => Inv /\ MapInv
  BY InvInit, MapInit
<1>2. Inv /\ MapInv /\ [Next]_vars => Inv' /\ MapInv'
  BY InvNext, MapInvNext
<1>3. Init => Map!TInit
  <2> SUFFICES ASSUME Init PROVE Map!TInit
    OBVIOUS
  <2>1. ~cut /\ (~cut) = TRUE /\ Unlocked /\ file = "missing"
    BY DEF Init, Unlocked
  <2>2. Call = Map!NoCall
    BY <2>1, CallBranches DEF Saving
  <2>3. \A t \in Task : ValAt(t) \in Version \cup {Map!Absent}
    BY <2>1, StoreAssumption DEF ValAt, Version, Map!Absent
  <2>4. QED  BY <2>1, <2>2, <2>3, ValBranches DEF Map!TInit
<1>4. Inv /\ Inv' /\ MapInv /\ [Next]_vars => [Map!TNext]_(Map!tvars)
  <2> SUFFICES ASSUME Inv, Inv', MapInv, [Next]_vars PROVE [Map!TNext]_(Map!tvars)
    OBVIOUS
  <2>1. CASE UNCHANGED vars
    BY <2>1 DEF vars, Map!tvars, Val, Call, Ver, Rewriting, Unlocked
  <2>2. CASE Next /\ ~cut /\ ~cut'
    BY <2>2, MapSteps DEF MapInv
  <2>3. CASE Next /\ ~cut /\ cut'
    BY <2>3 DEF Map!TNext, Map!Break
  <2>4. CASE Next /\ cut
    <3>1. cut'
      BY <2>4 DEF Next, Begin, Ensured, Migrate, Compact, Rewrite, Refuse, AppendStart, AppendEnd,
                  Update, Delete, OpenIndex, FillIndex, Stop, ReadRecord, ReadIndex
    <3>2. QED  BY <2>4, <3>1 DEF Map!TNext
  <2>5. QED  BY <2>1, <2>2, <2>3, <2>4
<1>5. QED  BY <1>1, <1>2, <1>3, <1>4, PTL DEF Spec, IsTaskMap, Map!TSpec

\* The files name whole records, and a load returns what was current when it read the index.
THEOREM StoreSoundHolds == Spec => []StoreSound
BY IndexNamesOwnRecordHolds, ReadIsCommittedHolds, PTL DEF StoreSound

=============================================================================

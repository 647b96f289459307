----------------------- MODULE TeamSyncStateFile_proofs -----------------------
(***************************************************************************)
(* Proofs about TeamSyncStateFile, whatever calls overlap and whatever     *)
(* step a process stops at: a call of the daemon that runs alone makes     *)
(* good what overlapping ones did to the file, and no saved checkpoint is  *)
(* behind it then; a resolution outlives the calls that do not know of it. *)
(***************************************************************************)
EXTENDS TeamSyncStateFile, TLAPS

-----------------------------------------------------------------------------
(* The merge.                                                              *)

LEMMA MergedRecordIsOne ==
  ASSUME NEW a \in Record, NEW b \in Record
  PROVE  /\ MergedRecord(a, b) \in {a, b}
         /\ b.done => MergedRecord(a, b).done
         /\ a.done /\ a.at >= b.at => MergedRecord(a, b).done
  BY DEF MergedRecord, Record

\* What a merge keeps: its own cursor, one of the two records of each conflict, and the
\* resolutions on disk.
LEMMA MergedState ==
  ASSUME NEW a \in State, NEW b \in State
  PROVE  /\ Merged(a, b) \in State
         /\ Merged(a, b).cursor = a.cursor
         /\ \A c \in Conflict :
              /\ Merged(a, b).conflicts[c] = MergedRecord(a.conflicts[c], b.conflicts[c])
              /\ a.conflicts[c] \in Record /\ b.conflicts[c] \in Record
<1>1. \A c \in Conflict : a.conflicts[c] \in Record /\ b.conflicts[c] \in Record
  BY DEF State
<1>2. \A c \in Conflict : MergedRecord(a.conflicts[c], b.conflicts[c]) \in Record
  BY <1>1, MergedRecordIsOne
<1>3. [c \in Conflict |-> MergedRecord(a.conflicts[c], b.conflicts[c])] \in [Conflict -> Record]
  BY <1>2
<1>4. QED  BY <1>1, <1>3 DEF Merged, State

\* Writing one conflict of a state.
LEMMA WithRecord ==
  ASSUME NEW s \in State, NEW c \in Conflict, NEW r \in Record
  PROVE  /\ [s EXCEPT !.conflicts[c] = r] \in State
         /\ [s EXCEPT !.conflicts[c] = r].cursor = s.cursor
         /\ \A x \in Conflict :
              [s EXCEPT !.conflicts[c] = r].conflicts[x] = IF x = c THEN r ELSE s.conflicts[x]
<1>1. /\ s = [cursor |-> s.cursor, conflicts |-> s.conflicts]
      /\ s.cursor \in 0..MaxCursor /\ s.conflicts \in [Conflict -> Record]
  BY DEF State
<1>2. [s EXCEPT !.conflicts[c] = r]
        = [cursor |-> s.cursor, conflicts |-> [s.conflicts EXCEPT ![c] = r]]
  BY <1>1
<1>3. [s.conflicts EXCEPT ![c] = r] \in [Conflict -> Record]
  BY <1>1
<1>4. QED  BY <1>1, <1>2, <1>3 DEF State

-----------------------------------------------------------------------------
(* Types.                                                                  *)

LEMMA EmptyTyped == EmptyState \in State /\ Missing \in Content /\ Torn \in Content
<1>1. NoRecord \in Record
  BY StateFileAssumption DEF NoRecord, Record
<1>2. EmptyState \in State
  BY <1>1, StateFileAssumption DEF EmptyState, State
<1>3. QED  BY <1>2 DEF Missing, Torn, Content

LEMMA WholeTyped ==
  ASSUME NEW s \in State
  PROVE  Whole(s) \in Content /\ Readable(Whole(s)) /\ Whole(s).state = s
  BY DEF Whole, Content, Readable

LEMMA TypeInit == Init => TypeOK
<1> SUFFICES ASSUME Init PROVE TypeOK
  OBVIOUS
<1>1. mem \in State /\ path \in Content /\ tmp \in Content /\ image \in [Writer -> State]
  BY EmptyTyped DEF Init
<1>2. /\ stamp \in 0..MaxStamp /\ crashes \in 0..MaxCrashes /\ saved \in 0..MaxCursor
      /\ asked \in [Daemon -> 0..MaxCursor]
  BY StateFileAssumption DEF Init
<1>3. QED  BY <1>1, <1>2 DEF Init, TypeOK

LEMMA TypeStep ==
  ASSUME TypeOK, [Next]_vars
  PROVE  TypeOK'
<1> USE StateFileAssumption DEF Goto, ghosts, files, Called, Others
<1>0. \A w \in Writer : image[w] \in State
  BY DEF TypeOK
<1>1. ASSUME NEW w \in Writer, Advance(w) PROVE TypeOK'
  <2>1. mem' \in State /\ mem'.cursor \in 0..MaxCursor
    BY <1>1 DEF Advance, TypeOK, State
  <2>2. asked' \in [Daemon -> 0..MaxCursor]
    BY <1>1, <2>1 DEF Advance, TypeOK
  <2>3. pc' \in [Writer -> {"idle", "stamp", "merge", "marshal", "open", "fill", "rename"}]
    BY <1>1 DEF Advance, TypeOK
  <2>4. QED  BY <1>1, <2>1, <2>2, <2>3 DEF Advance, TypeOK
<1>2. ASSUME NEW c \in Conflict, RecordConflict(c) PROVE TypeOK'
  <2>1. stamp' \in 0..MaxStamp
    BY <1>2 DEF RecordConflict, TypeOK
  <2>2. [at |-> stamp', done |-> FALSE] \in Record
    BY <2>1 DEF Record
  <2>3. mem' \in State
    BY <1>2, <2>2, WithRecord DEF RecordConflict, TypeOK
  <2>4. asked' \in [Daemon -> 0..MaxCursor]
    BY <1>2 DEF RecordConflict, TypeOK, State
  <2>5. pc' \in [Writer -> {"idle", "stamp", "merge", "marshal", "open", "fill", "rename"}]
    BY <1>2 DEF RecordConflict, TypeOK
  <2>6. QED  BY <1>2, <2>1, <2>3, <2>4, <2>5 DEF RecordConflict, TypeOK
<1>3. ASSUME NEW c \in Conflict, ResolveRead(c) PROVE TypeOK'
  <2>1. path.state \in State
    BY DEF TypeOK, Content
  <2>2. image' \in [Writer -> State] /\ met' \subseteq Writer
    BY <1>3, <2>1 DEF ResolveRead, TypeOK, Writer
  <2>3. pc' \in [Writer -> {"idle", "stamp", "merge", "marshal", "open", "fill", "rename"}]
    BY <1>3 DEF ResolveRead, TypeOK
  <2>4. QED  BY <1>3, <2>2, <2>3 DEF ResolveRead, TypeOK
<1>4. CASE ResolveStamp
  <2>1. stamp' \in 0..MaxStamp
    BY <1>4 DEF ResolveStamp, TypeOK
  <2>2. [at |-> stamp', done |-> TRUE] \in Record
    BY <2>1 DEF Record
  <2> DEFINE s == [image["resolver"] EXCEPT !.conflicts[topic] = [at |-> stamp', done |-> TRUE]]
  <2>3. s \in State
    BY <1>0, <2>2, WithRecord DEF TypeOK, Writer
  <2>4. image' = [image EXCEPT !["resolver"] = s]
    BY <1>4 DEF ResolveStamp, TypeOK
  <2>5. image' \in [Writer -> State]
    BY <2>3, <2>4 DEF TypeOK
  <2>6. QED  BY <1>4, <2>1, <2>5 DEF ResolveStamp, TypeOK
<1>5. ASSUME NEW w \in Writer, Merge(w) PROVE TypeOK'
  <2>1. /\ path.state \in State /\ mem \in State
        /\ Merged(mem, path.state) \in State /\ Merged(image[w], path.state) \in State
    BY <1>0, MergedState DEF TypeOK, Content
  <2>2. mem' \in State /\ image' \in [Writer -> State]
    BY <1>5, <2>1 DEF Merge, TypeOK
  <2>3. QED  BY <1>5, <2>2 DEF Merge, TypeOK
<1>6. ASSUME NEW w \in Writer, Marshal(w) PROVE TypeOK'
  BY <1>6 DEF Marshal, TypeOK
<1>7. ASSUME NEW w \in Writer, Open(w) PROVE TypeOK'
  BY <1>7, EmptyTyped DEF Open, TypeOK
<1>8. ASSUME NEW w \in Writer, Fill(w) PROVE TypeOK'
  <2>1. \A f : Filled(w, f) \subseteq Content
    BY <1>0, EmptyTyped, WholeTyped DEF Filled
  <2>2. tmp' \in Content /\ path' \in Content
    BY <1>8, <2>1 DEF Fill, TypeOK
  <2>3. QED  BY <1>8, <2>2 DEF Fill, TypeOK
<1>9. ASSUME NEW w \in Writer, Rename(w) PROVE TypeOK'
  <2>1. Moved \in [Writer -> {"none", "tmp", "path", "gone"}]
    BY DEF Moved, TypeOK
  <2>2. w \in Daemon => AtLeast(saved, asked[w]) \in 0..MaxCursor
    BY DEF AtLeast, TypeOK
  <2>3. path' \in Content /\ tmp' \in Content /\ fd' \in [Writer -> {"none", "tmp", "path", "gone"}]
    BY <1>9, <2>1, EmptyTyped DEF Rename, TypeOK
  <2>4. /\ asked' \in [Daemon -> 0..MaxCursor]
        /\ saved' \in 0..MaxCursor /\ resolved' \subseteq Conflict /\ held' \subseteq Conflict
        /\ met' \subseteq Writer /\ disturbed' \in BOOLEAN
    BY <1>9, <2>2 DEF Rename, TypeOK
  <2>5. QED  BY <1>9, <2>3, <2>4 DEF Rename, TypeOK
<1>10. CASE DaemonCrash
  <2>1. path.state \in State /\ path.state.cursor \in 0..MaxCursor
    BY DEF TypeOK, Content, State
  <2>2. saved' \in 0..MaxCursor /\ met' \subseteq Writer
    BY <1>10, <2>1 DEF DaemonCrash, Stopped, TypeOK
  <2>3. /\ fd' \in [Writer -> {"none", "tmp", "path", "gone"}]
        /\ pc' \in [Writer -> {"idle", "stamp", "merge", "marshal", "open", "fill", "rename"}]
    BY <1>10 DEF DaemonCrash, Stopped, TypeOK
  <2>4. QED  BY <1>10, <2>1, <2>2, <2>3 DEF DaemonCrash, Stopped, TypeOK
<1>11. CASE ServerCrash
  BY <1>11 DEF ServerCrash, Stopped, TypeOK
<1>12. CASE UNCHANGED vars
  BY <1>12 DEF vars, TypeOK
<1>13. QED
  BY <1>1, <1>2, <1>3, <1>4, <1>5, <1>6, <1>7, <1>8, <1>9, <1>10, <1>11, <1>12 DEF Next

\* The files, the daemon's memory and the calls keep their types.
THEOREM TypeCorrect == Spec => []TypeOK
<1>1. TypeOK /\ [Next]_vars => TypeOK'
  BY TypeStep
<1>2. QED  BY TypeInit, <1>1, PTL DEF Spec

-----------------------------------------------------------------------------
(* Calls that run alone.                                                   *)

Lone(w) == pc[w] # "idle" /\ w \notin met

\* A call that has met no other is the only one under way, writes the temporary file, and
\* comes to the rename with its own image in it.  Only when a call that met another has
\* renamed does a descriptor lead to the state file, or is that file torn.
AloneInv ==
  /\ \A v, w \in Writer : Lone(w) /\ pc[v] # "idle" => v = w
  /\ \A w \in met : pc[w] # "idle"
  /\ \A w \in Writer :
       /\ pc[w] # "fill" => fd[w] = "none"
       /\ fd[w] = "path" => disturbed
       /\ Lone(w) /\ pc[w] = "fill" => fd[w] = "tmp" /\ tmp.kind = "torn"
       /\ Lone(w) /\ pc[w] = "rename" => tmp = Whole(image[w])
  /\ ~disturbed => FileWhole

\* Who is alone after a call has begun.
LEMMA StartedAlone ==
  ASSUME TypeOK, AloneInv, NEW w \in Writer, Called(w), NEW s, s # "idle", pc' = [pc EXCEPT ![w] = s]
  PROVE  /\ \A v \in Writer : Lone(v)' => v = w /\ \A u \in Writer \ {w} : pc[u] = "idle" /\ pc'[u] = "idle"
         /\ \A v \in met' : pc'[v] # "idle"
         /\ disturbed' = disturbed
  BY DEF Called, Others, AloneInv, Lone, TypeOK

\* A call that begins: no file is touched.
LEMMA AloneStart ==
  ASSUME TypeOK, AloneInv, NEW w \in Writer, Called(w), NEW s, s \in {"stamp", "merge"},
         pc' = [pc EXCEPT ![w] = s], UNCHANGED <<path, tmp, fd>>
  PROVE  AloneInv'
<1>1. \A v \in Writer : Lone(v)' => v = w /\ \A u \in Writer \ {w} : pc[u] = "idle" /\ pc'[u] = "idle"
  BY StartedAlone
<1>2. (\A v \in met' : pc'[v] # "idle") /\ disturbed' = disturbed
  BY StartedAlone
<1>3. pc[w] = "idle" /\ pc'[w] = s /\ \A v \in Writer \ {w} : pc'[v] = pc[v]
  BY DEF Called, TypeOK
<1>4. \A v \in Writer : pc'[v] = "fill" => v # w /\ pc[v] = "fill"
  BY <1>3
<1>5. \A v \in Writer : pc'[v] # "fill" => fd'[v] = "none"
  BY <1>3 DEF AloneInv
<1>6. \A v \in Writer : Lone(v)' => pc'[v] = s
  BY <1>1, <1>3
<1>7. QED  BY <1>1, <1>2, <1>5, <1>6 DEF AloneInv, FileWhole

\* A step of a call under way that neither opens, fills nor renames.
LEMMA AloneFrame ==
  ASSUME TypeOK, AloneInv, NEW w \in Writer, pc[w] \notin {"idle", "fill", "rename"},
         NEW s, s \notin {"idle", "fill", "rename"}, pc' = [pc EXCEPT ![w] = s],
         UNCHANGED <<path, tmp, fd, met, disturbed>>, \A v \in Writer \ {w} : image'[v] = image[v]
  PROVE  AloneInv'
<1>1. pc'[w] = s /\ \A v \in Writer \ {w} : pc'[v] = pc[v]
  BY DEF TypeOK
<1>2. \A v \in Writer : Lone(v)' <=> Lone(v)
  BY <1>1 DEF Lone
<1>3. \A v \in Writer : pc'[v] # "idle" <=> pc[v] # "idle"
  BY <1>1
<1>4. met \subseteq Writer
  BY DEF TypeOK
<1>5. QED  BY <1>1, <1>2, <1>3, <1>4 DEF AloneInv, FileWhole

LEMMA AloneStep ==
  ASSUME TypeOK, AloneInv, [Next]_vars
  PROVE  AloneInv'
<1> USE DEF Goto, files, ghosts
<1>0. "handler" \in Writer /\ "resolver" \in Writer /\ Daemon \subseteq Writer /\ met \subseteq Writer
  BY DEF Writer, Daemon, TypeOK
<1>1. ASSUME NEW w \in Writer, Advance(w) PROVE AloneInv'
  BY <1>1, AloneStart DEF Advance
<1>2. ASSUME NEW c \in Conflict, RecordConflict(c) PROVE AloneInv'
  BY <1>0, <1>2, AloneStart DEF RecordConflict
<1>3. ASSUME NEW c \in Conflict, ResolveRead(c) PROVE AloneInv'
  BY <1>0, <1>3, AloneStart DEF ResolveRead
<1>4. CASE ResolveStamp
  BY <1>0, <1>4, AloneFrame DEF ResolveStamp, TypeOK
<1>5. ASSUME NEW w \in Writer, Merge(w) \/ Marshal(w) PROVE AloneInv'
  BY <1>5, AloneFrame DEF Merge, Marshal, TypeOK
<1>6. ASSUME NEW w \in Writer, Open(w) PROVE AloneInv'
  <2>1. /\ pc[w] = "open" /\ pc'[w] = "fill" /\ \A v \in Writer \ {w} : pc'[v] = pc[v]
        /\ fd'[w] = "tmp" /\ \A v \in Writer \ {w} : fd'[v] = fd[v]
        /\ UNCHANGED <<path, image, met, disturbed>> /\ tmp'.kind = "torn"
    BY <1>6 DEF Open, TypeOK, Torn
  <2>2. \A v \in Writer : (Lone(v)' <=> Lone(v)) /\ (pc'[v] # "idle" <=> pc[v] # "idle")
    BY <2>1 DEF Lone
  <2>3. \A v \in Writer : Lone(v)' => v = w
    BY <2>1, <2>2 DEF AloneInv
  <2>4. QED  BY <1>0, <2>1, <2>2, <2>3 DEF AloneInv, FileWhole
<1>7. ASSUME NEW w \in Writer, Fill(w) PROVE AloneInv'
  <2>1. /\ pc[w] = "fill" /\ pc'[w] = "rename" /\ \A v \in Writer \ {w} : pc'[v] = pc[v]
        /\ fd'[w] = "none" /\ \A v \in Writer \ {w} : fd'[v] = fd[v]
        /\ UNCHANGED <<image, met, disturbed>>
    BY <1>7 DEF Fill, TypeOK
  <2>2. \A v \in Writer : (Lone(v)' <=> Lone(v)) /\ (pc'[v] # "idle" <=> pc[v] # "idle")
    BY <2>1 DEF Lone
  <2>3. \A v \in Writer : Lone(v)' => v = w
    BY <2>1, <2>2 DEF AloneInv
  <2>4. Lone(w) => tmp' = Whole(image[w])
    BY <1>7, <2>1 DEF AloneInv, Fill, Filled
  <2>5. ~disturbed => path' = path
    BY <1>7 DEF AloneInv, Fill
  <2>6. QED  BY <1>0, <2>1, <2>2, <2>3, <2>4, <2>5 DEF AloneInv, FileWhole
<1>8. ASSUME NEW w \in Writer, Rename(w) PROVE AloneInv'
  <2>1. /\ pc[w] = "rename" /\ pc'[w] = "idle" /\ \A v \in Writer \ {w} : pc'[v] = pc[v]
        /\ met' = met \ {w} /\ image' = image
    BY <1>8 DEF Rename, TypeOK
  <2>2. \A v \in Writer : Lone(v)' => v # w /\ Lone(v)
    BY <2>1 DEF Lone
  <2>3. \A v \in Writer : ~Lone(v)'
    BY <2>1, <2>2 DEF AloneInv
  <2>4. CASE tmp = Missing
    BY <1>0, <1>8, <2>1, <2>3, <2>4 DEF Rename, AloneInv, FileWhole
  <2>5. CASE tmp # Missing
    <3>1. /\ path' = tmp /\ fd' = Moved
          /\ disturbed' = (w \in met \/ (disturbed /\ w \notin Daemon))
      BY <1>8, <2>5 DEF Rename
    <3>2. \A v \in Writer : pc'[v] # "fill" => fd'[v] = "none"
      BY <2>1, <3>1 DEF AloneInv, Moved
    <3>3. CASE w \in met
      BY <1>0, <2>1, <2>3, <3>1, <3>2, <3>3 DEF AloneInv
    <3>4. CASE w \notin met
      <4>1. Lone(w) /\ \A v \in Writer : pc'[v] = "idle"
        BY <2>1, <3>4 DEF Lone, AloneInv
      <4>2. tmp = Whole(image[w]) /\ Readable(tmp)
        BY <2>1, <4>1 DEF AloneInv, Whole, Readable
      <4>3. \A v \in Writer : fd'[v] = "none"
        BY <3>2, <4>1
      <4>4. QED  BY <1>0, <2>1, <2>3, <3>1, <4>1, <4>2, <4>3 DEF AloneInv, FileWhole
    <3>5. QED  BY <3>3, <3>4
  <2>6. QED  BY <2>4, <2>5
<1>9. CASE DaemonCrash \/ ServerCrash
  <2>1. PICK ws \in SUBSET Writer : Stopped(ws)
    BY <1>0, <1>9 DEF DaemonCrash, ServerCrash
  <2>2. /\ \A v \in Writer : pc'[v] = IF v \in ws THEN "idle" ELSE pc[v]
        /\ \A v \in Writer : fd'[v] = IF v \in ws THEN "none" ELSE fd[v]
        /\ met' = met \ ws
    BY <2>1 DEF Stopped
  <2>3. UNCHANGED <<path, tmp, image, disturbed>>
    BY <1>9 DEF DaemonCrash, ServerCrash
  <2>4. \A v \in Writer : (Lone(v)' => Lone(v) /\ pc'[v] = pc[v] /\ fd'[v] = fd[v]) /\ (pc'[v] # "idle" => pc[v] # "idle")
    BY <2>2 DEF Lone
  <2>5. QED  BY <1>0, <2>2, <2>3, <2>4 DEF AloneInv, FileWhole
<1>10. CASE UNCHANGED vars
  BY <1>10 DEF vars, AloneInv, FileWhole, Lone
<1>11. QED
  BY <1>1, <1>2, <1>3, <1>4, <1>5, <1>6, <1>7, <1>8, <1>9, <1>10 DEF Next

LEMMA AloneInit == Init => AloneInv
  BY DEF Init, AloneInv, Lone, FileWhole, Readable, Missing, Writer, Daemon

-----------------------------------------------------------------------------
(* What is saved.                                                          *)

Writing(w) == pc[w] \in {"open", "fill", "rename"}

\* The memory of the daemon is never behind what was saved, nor is the file unless it is
\* disturbed; what a lone call is about to write is behind neither, but for a resolver that
\* read a disturbed file.
CursorInv ==
  /\ mem.cursor >= saved
  /\ ~disturbed => path.state.cursor >= saved
  /\ Lone("resolver") /\ ~disturbed => image["resolver"].cursor >= saved
  /\ \A w \in Daemon :
       /\ pc[w] # "idle" => mem.cursor >= asked[w]
       /\ Lone(w) /\ Writing(w) => image[w].cursor >= saved /\ image[w].cursor >= asked[w]

\* A step that leaves the file and what was saved alone, and lets no call become alone.
LEMMA CursorFrame ==
  ASSUME TypeOK, TypeOK', CursorInv, UNCHANGED <<path, saved, disturbed>>, mem'.cursor >= mem.cursor,
         Lone("resolver")' => image'["resolver"].cursor >= saved \/
                              (Lone("resolver") /\ image'["resolver"].cursor = image["resolver"].cursor),
         \A w \in Daemon : pc'[w] # "idle" => mem'.cursor >= asked'[w],
         \A w \in Daemon : Lone(w)' /\ Writing(w)' =>
            \/ image'[w].cursor = mem.cursor /\ asked'[w] = asked[w] /\ pc[w] # "idle"
            \/ Lone(w) /\ Writing(w) /\ image'[w] = image[w] /\ asked'[w] = asked[w]
  PROVE  CursorInv'
<1>1. /\ mem.cursor \in Nat /\ mem'.cursor \in Nat /\ saved \in Nat
      /\ \A w \in Daemon : image[w].cursor \in Nat /\ image'[w].cursor \in Nat /\ asked[w] \in Nat
  BY DEF TypeOK, State, Writer
<1>2. mem'.cursor >= saved
  BY <1>1 DEF CursorInv
<1>3. Lone("resolver")' /\ ~disturbed => image'["resolver"].cursor >= saved
  BY DEF CursorInv
<1>4. ASSUME NEW w \in Daemon, Lone(w)', Writing(w)'
      PROVE  image'[w].cursor >= saved /\ image'[w].cursor >= asked'[w]
  BY <1>1, <1>4 DEF CursorInv
<1>5. QED  BY <1>2, <1>3, <1>4 DEF CursorInv

LEMMA CursorStep ==
  ASSUME TypeOK, AloneInv, CursorInv, [Next]_vars
  PROVE  CursorInv'
<1> USE DEF Goto, files, ghosts
<1>0. TypeOK' /\ AloneInv'
  BY TypeStep, AloneStep
<1>1. /\ path.state \in State /\ mem \in State /\ mem.cursor \in Nat /\ saved \in Nat
      /\ \A w \in Daemon : asked[w] \in Nat
      /\ \A w \in Writer : image[w] \in State /\ image[w].cursor \in Nat
      /\ Daemon \subseteq Writer /\ "resolver" \in Writer /\ "resolver" \notin Daemon /\ "handler" \in Daemon
      /\ path.state.cursor \in Nat
  BY DEF TypeOK, Content, State, Writer, Daemon
<1>2. \A w \in Writer : w \in Daemon \/ w = "resolver"
  BY DEF Writer
<1>3. ASSUME NEW w \in Daemon, Called(w), pc' = [pc EXCEPT ![w] = "merge"], UNCHANGED <<path, image>>,
             mem'.cursor >= mem.cursor, asked' = [asked EXCEPT ![w] = mem'.cursor]
      PROVE  CursorInv'
  <2>1. \A v \in Writer : Lone(v)' => v = w
    BY <1>1, <1>3, StartedAlone
  <2>2. pc'[w] = "merge" /\ \A v \in Writer \ {w} : pc'[v] = pc[v]
    BY <1>1, <1>3 DEF TypeOK
  <2>3. \A v \in Daemon : asked'[v] = IF v = w THEN mem'.cursor ELSE asked[v]
    BY <1>3 DEF TypeOK
  <2>4. mem'.cursor \in Nat
    BY <1>0 DEF TypeOK, State
  <2>5. \A v \in Daemon : pc'[v] # "idle" => mem'.cursor >= asked'[v]
    BY <1>1, <1>3, <2>2, <2>3, <2>4 DEF CursorInv
  <2>6. \A v \in Daemon : ~(Lone(v)' /\ Writing(v)')
    BY <1>1, <2>1, <2>2 DEF Writing
  <2>7. ~Lone("resolver")'
    BY <1>1, <2>1
  <2>8. UNCHANGED <<saved, disturbed>>
    BY <1>3 DEF Called
  <2>9. QED  BY <1>0, <1>3, <2>5, <2>6, <2>7, <2>8, CursorFrame
<1>4. ASSUME NEW w \in Writer, Advance(w) PROVE CursorInv'
  <2>1. mem'.cursor = mem.cursor + 1
    BY <1>1, <1>4 DEF Advance, State
  <2>2. mem'.cursor >= mem.cursor
    BY <1>1, <2>1
  <2>3. QED  BY <1>3, <1>4, <2>2 DEF Advance
<1>5. ASSUME NEW c \in Conflict, RecordConflict(c) PROVE CursorInv'
  <2>1. mem'.cursor = mem.cursor
    BY <1>1, <1>5 DEF RecordConflict, State
  <2>2. mem'.cursor >= mem.cursor
    BY <1>1, <2>1
  <2>3. asked' = [asked EXCEPT !["handler"] = mem'.cursor]
    BY <1>5, <2>1 DEF RecordConflict
  <2>4. QED  BY <1>1, <1>3, <1>5, <2>2, <2>3 DEF RecordConflict
<1>6. ASSUME NEW c \in Conflict, ResolveRead(c) PROVE CursorInv'
  <2>1. \A v \in Writer : Lone(v)' => v = "resolver"
    BY <1>1, <1>6, StartedAlone DEF ResolveRead
  <2>2. /\ pc'["resolver"] = "stamp" /\ \A v \in Writer \ {"resolver"} : pc'[v] = pc[v]
        /\ image'["resolver"] = path.state /\ UNCHANGED <<path, mem, saved, asked, disturbed>>
    BY <1>1, <1>6 DEF ResolveRead, Called, TypeOK
  <2>3. QED  BY <1>1, <2>1, <2>2 DEF CursorInv
<1>7. CASE ResolveStamp
  <2>1. image'["resolver"].cursor = image["resolver"].cursor
    BY <1>1, <1>7 DEF ResolveStamp, TypeOK, State
  <2>2. \A v \in Writer : v # "resolver" => image'[v] = image[v] /\ pc'[v] = pc[v]
    BY <1>7 DEF ResolveStamp, TypeOK
  <2>3. pc["resolver"] = "stamp" /\ UNCHANGED <<path, mem, saved, asked, disturbed, met>>
    BY <1>1, <1>7 DEF ResolveStamp, TypeOK
  <2>4. QED  BY <1>1, <2>1, <2>2, <2>3 DEF CursorInv, Lone, Writing
<1>8. ASSUME NEW w \in Writer, Merge(w) PROVE CursorInv'
  <2>1. mem'.cursor = mem.cursor
    BY <1>1, <1>8, MergedState DEF Merge
  <2>2. /\ pc[w] = "merge" /\ pc'[w] = "marshal"
        /\ \A v \in Writer : v # w => pc'[v] = pc[v]
        /\ UNCHANGED <<path, asked, saved, disturbed, met>>
    BY <1>8 DEF Merge, TypeOK
  <2>3. \A v \in Daemon : image'[v] = image[v]
    BY <1>1, <1>2, <1>8 DEF Merge, TypeOK
  <2>4. image'["resolver"].cursor = image["resolver"].cursor
    BY <1>1, <1>2, <1>8, MergedState DEF Merge, TypeOK
  <2>5. QED  BY <1>1, <2>1, <2>2, <2>3, <2>4 DEF CursorInv, Lone, Writing
<1>9. ASSUME NEW w \in Writer, Marshal(w) PROVE CursorInv'
  <2>1. /\ pc[w] = "marshal" /\ pc'[w] = "open"
        /\ \A v \in Writer : v # w => pc'[v] = pc[v] /\ image'[v] = image[v]
        /\ UNCHANGED <<mem, path, asked, saved, disturbed, met>>
        /\ image'[w] = IF w \in Daemon THEN mem ELSE image[w]
    BY <1>9 DEF Marshal, TypeOK
  <2>2. QED  BY <1>1, <1>2, <2>1 DEF CursorInv, Lone, Writing
<1>10. ASSUME NEW w \in Writer, Open(w) \/ Fill(w) PROVE CursorInv'
  <2>1. /\ Writing(w) /\ pc[w] # "idle" /\ \A v \in Writer : v # w => pc'[v] = pc[v]
        /\ UNCHANGED <<mem, image, asked, saved, disturbed, met>>
    BY <1>10 DEF Open, Fill, Writing, TypeOK
  <2>2. ~disturbed => path' = path
    BY <1>10 DEF Open, Fill, AloneInv
  <2>3. \A v \in Writer : (Lone(v)' => Lone(v)) /\ (Writing(v)' => Writing(v)) /\ (pc'[v] # "idle" => pc[v] # "idle")
    BY <2>1 DEF Lone, Writing
  <2>4. QED  BY <1>1, <2>1, <2>2, <2>3 DEF CursorInv
<1>11. ASSUME NEW w \in Writer, Rename(w) PROVE CursorInv'
  <2>1. /\ pc[w] = "rename" /\ pc'[w] = "idle" /\ \A v \in Writer \ {w} : pc'[v] = pc[v]
        /\ met' = met \ {w} /\ UNCHANGED <<mem, image, asked>>
    BY <1>11 DEF Rename, TypeOK
  <2>2. \A v \in Writer : Lone(v)' => v # w /\ Lone(v)
    BY <2>1 DEF Lone
  <2>3. \A v \in Writer : ~Lone(v)'
    BY <2>1, <2>2 DEF AloneInv
  <2>4. \A v \in Daemon : pc'[v] # "idle" => mem.cursor >= asked[v]
    BY <1>1, <2>1 DEF CursorInv
  <2>5. CASE tmp = Missing
    BY <1>1, <1>11, <2>1, <2>3, <2>4, <2>5 DEF Rename, CursorInv
  <2>6. CASE tmp # Missing
    <3>1. /\ path' = tmp /\ disturbed' = (w \in met \/ (disturbed /\ w \notin Daemon))
          /\ saved' = IF w \in Daemon THEN AtLeast(saved, asked[w]) ELSE saved
      BY <1>11, <2>6 DEF Rename
    <3>2. w \in Daemon => mem.cursor >= asked[w]
      BY <2>1 DEF CursorInv
    <3>3. mem.cursor >= saved'
      BY <1>1, <3>1, <3>2 DEF CursorInv, AtLeast
    <3>4. ~disturbed' => path'.state.cursor >= saved'
      <4> SUFFICES ASSUME ~disturbed' PROVE path'.state.cursor >= saved'
        OBVIOUS
      <4>1. Lone(w) /\ Writing(w)
        BY <2>1, <3>1 DEF Lone, Writing
      <4>2. path'.state = image[w]
        BY <2>1, <3>1, <4>1 DEF AloneInv, Whole
      <4>3. CASE w \in Daemon
        BY <1>1, <3>1, <4>1, <4>2, <4>3 DEF CursorInv, AtLeast
      <4>4. CASE w = "resolver"
        BY <1>1, <3>1, <4>1, <4>2, <4>4 DEF CursorInv
      <4>5. QED  BY <1>2, <4>3, <4>4
    <3>5. QED  BY <1>1, <2>1, <2>3, <2>4, <3>3, <3>4 DEF CursorInv
  <2>7. QED  BY <2>5, <2>6
<1>12. CASE DaemonCrash
  <2>1. /\ \A v \in Writer : pc'[v] = IF v \in Daemon THEN "idle" ELSE pc[v]
        /\ met' = met \ Daemon /\ mem' = path.state /\ UNCHANGED <<path, image, asked, disturbed>>
    BY <1>12 DEF DaemonCrash, Stopped
  <2>2. saved' \in Nat /\ saved' <= saved /\ path.state.cursor >= saved'
    BY <1>1, <1>12 DEF DaemonCrash, CursorInv
  <2>3. \A v \in Daemon : pc'[v] = "idle" /\ ~Lone(v)'
    BY <1>1, <2>1 DEF Lone
  <2>4. Lone("resolver")' => Lone("resolver")
    BY <1>1, <2>1 DEF Lone
  <2>5. ~disturbed /\ Lone("resolver")' => image["resolver"].cursor >= saved'
    BY <1>1, <2>2, <2>4 DEF CursorInv
  <2>6. QED  BY <2>1, <2>2, <2>3, <2>5 DEF CursorInv
<1>13. CASE ServerCrash
  <2>1. /\ \A v \in Writer : pc'[v] = IF v = "resolver" THEN "idle" ELSE pc[v]
        /\ met' = met \ {"resolver"} /\ UNCHANGED <<mem, path, image, asked, saved, disturbed>>
    BY <1>13 DEF ServerCrash, Stopped
  <2>2. \A v \in Writer : (Lone(v)' => Lone(v) /\ v # "resolver") /\ (Writing(v)' => Writing(v)) /\ (pc'[v] # "idle" => pc[v] # "idle")
    BY <2>1 DEF Lone, Writing
  <2>3. QED  BY <1>1, <2>1, <2>2 DEF CursorInv
<1>14. CASE UNCHANGED vars
  BY <1>14 DEF vars, CursorInv, Writing, Lone
<1>15. QED
  BY <1>4, <1>5, <1>6, <1>7, <1>8, <1>9, <1>10, <1>11, <1>12, <1>13, <1>14 DEF Next

LEMMA CursorInit == Init => CursorInv
<1> SUFFICES ASSUME Init PROVE CursorInv
  OBVIOUS
<1>1. mem.cursor = 0 /\ path.state.cursor = 0
  BY DEF Init, EmptyState, Missing
<1>2. \A w \in Writer : image[w].cursor = 0 /\ pc[w] = "idle"
  BY DEF Init, EmptyState
<1>3. QED  BY <1>1, <1>2 DEF Init, CursorInv, Writing, Lone, Writer

\* Whatever calls overlap and whatever step a process stops at: after a call of the daemon
\* that ran alone, and until a call that overlapped another renames, the file parses and is
\* not behind a checkpoint whose call has returned.
THEOREM SavedCursorHolds == Spec => []SavedCursorStays
<1>1. Init => TypeOK /\ AloneInv /\ CursorInv
  BY TypeInit, AloneInit, CursorInit
<1>2. TypeOK /\ AloneInv /\ CursorInv /\ [Next]_vars => TypeOK' /\ AloneInv' /\ CursorInv'
  BY TypeStep, AloneStep, CursorStep
<1>3. AloneInv /\ CursorInv => SavedCursorStays
  BY DEF AloneInv, CursorInv, SavedCursorStays
<1>4. QED  BY <1>1, <1>2, <1>3, PTL DEF Spec

-----------------------------------------------------------------------------
(* Resolutions.                                                            *)

Stamped(s) == \A c \in Conflict : s.conflicts[c].at \in 0..stamp
Past(w) == pc[w] \in {"marshal", "open", "fill", "rename"}

\* Nothing can tear the state file before a call of the daemon has merged it.
Calm ==
  /\ Readable(path)
  /\ pc["resolver"] = "fill" => fd["resolver"] = "tmp" /\ tmp.kind = "torn"
  /\ pc["resolver"] = "rename" => Readable(tmp)

\* A conflict that is held: resolved in the files and in what is about to be written to
\* them, and in the memory of the daemon when one of its calls is past its merge.
Held(c) ==
  /\ Readable(path) => path.state.conflicts[c].done
  /\ Readable(tmp) => tmp = Missing \/ tmp.state.conflicts[c].done
  /\ \A w \in Writer : Writing(w) => image[w].conflicts[c].done
  /\ pc["resolver"] # "idle" => image["resolver"].conflicts[c].done
  /\ \A w \in Daemon : Past(w) => mem.conflicts[c].done
  /\ mem.conflicts[c].done \/ off \/ Calm

\* One merge: what both hold resolved stays so, so does what is resolved on disk, and so
\* does a resolution of ours that is not older than the record on disk.
LEMMA MergeKeeps ==
  ASSUME TypeOK, NEW a \in State, NEW b \in State, Stamped(a), Stamped(b)
  PROVE  /\ Stamped(Merged(a, b))
         /\ \A c \in Conflict :
              /\ b.conflicts[c].done => Merged(a, b).conflicts[c].done
              /\ a.conflicts[c].done /\ a.conflicts[c].at = stamp => Merged(a, b).conflicts[c].done
<1>1. \A c \in Conflict :
        /\ Merged(a, b).conflicts[c] \in {a.conflicts[c], b.conflicts[c]}
        /\ b.conflicts[c].done => Merged(a, b).conflicts[c].done
        /\ a.conflicts[c].done /\ a.conflicts[c].at >= b.conflicts[c].at
             => Merged(a, b).conflicts[c].done
  BY MergedState, MergedRecordIsOne
<1>2. stamp \in Nat
  BY DEF TypeOK
<1>3. Stamped(Merged(a, b))
  BY <1>1 DEF Stamped
<1>4. ASSUME NEW c \in Conflict, a.conflicts[c].done, a.conflicts[c].at = stamp
      PROVE  Merged(a, b).conflicts[c].done
  BY <1>1, <1>2, <1>4 DEF Stamped
<1>5. QED  BY <1>1, <1>3, <1>4

\* The stamps of the files and of the memory are instants that were given.
StampInv == Stamped(path.state) /\ Stamped(tmp.state) /\ Stamped(mem) /\ \A w \in Writer : Stamped(image[w])

LEMMA StampStep ==
  ASSUME TypeOK, StampInv, [Next]_vars
  PROVE  StampInv'
<1> USE DEF Goto, files, ghosts
<1>1. /\ stamp \in Nat /\ "resolver" \in Writer /\ topic \in Conflict
      /\ mem \in State /\ path.state \in State /\ \A w \in Writer : image[w] \in State
  BY DEF TypeOK, Writer, Content
<1>2. ASSUME UNCHANGED <<stamp, path, tmp>>, Stamped(mem)', \A w \in Writer : Stamped(image[w])'
      PROVE  StampInv'
  BY <1>2 DEF StampInv, Stamped
<1>3. ASSUME NEW w \in Writer, Advance(w) PROVE StampInv'
  <2>1. mem'.conflicts = mem.conflicts /\ UNCHANGED <<stamp, path, tmp, image>>
    BY <1>1, <1>3 DEF Advance, State
  <2>2. QED  BY <2>1 DEF StampInv, Stamped
<1>4. ASSUME NEW k \in Conflict, RecordConflict(k) PROVE StampInv'
  <2>1. UNCHANGED <<path, tmp, image>> /\ stamp' = stamp + 1
    BY <1>4 DEF RecordConflict
  <2>2. \A c \in Conflict : mem'.conflicts[c].at = IF c = k THEN stamp' ELSE mem.conflicts[c].at
    BY <1>1, <1>4 DEF RecordConflict, State
  <2>3. \A n : n \in 0..stamp => n \in 0..stamp'
    BY <1>1, <2>1
  <2>4. stamp' \in 0..stamp'
    BY <1>1, <2>1
  <2>5. Stamped(mem)'
    BY <2>2, <2>3, <2>4 DEF StampInv, Stamped
  <2>6. QED  BY <2>1, <2>3, <2>5 DEF StampInv, Stamped
<1>5. ASSUME NEW c \in Conflict, ResolveRead(c) PROVE StampInv'
  <2>1. /\ UNCHANGED <<mem, stamp, path, tmp>> /\ image'["resolver"] = path.state
        /\ \A v \in Writer \ {"resolver"} : image'[v] = image[v]
    BY <1>1, <1>5 DEF ResolveRead, TypeOK
  <2>2. QED  BY <2>1 DEF StampInv, Stamped
<1>6. CASE ResolveStamp
  <2>1. /\ UNCHANGED <<mem, path, tmp>> /\ stamp' = stamp + 1
        /\ \A v \in Writer \ {"resolver"} : image'[v] = image[v]
    BY <1>6 DEF ResolveStamp, TypeOK
  <2>2. \A c \in Conflict : image'["resolver"].conflicts[c].at =
          IF c = topic THEN stamp' ELSE image["resolver"].conflicts[c].at
    BY <1>1, <1>6 DEF ResolveStamp, TypeOK, State
  <2>3. \A n : n \in 0..stamp => n \in 0..stamp'
    BY <1>1, <2>1
  <2>4. stamp' \in 0..stamp'
    BY <1>1, <2>1
  <2>5. Stamped(image["resolver"])'
    BY <1>1, <2>2, <2>3, <2>4 DEF StampInv, Stamped
  <2>6. QED  BY <2>1, <2>3, <2>5 DEF StampInv, Stamped
<1>7. ASSUME NEW w \in Writer, Merge(w) PROVE StampInv'
  <2>1. UNCHANGED <<stamp, path, tmp>>
    BY <1>7 DEF Merge
  <2>2. Stamped(Merged(mem, path.state)) /\ Stamped(Merged(image[w], path.state))
    BY <1>1, MergeKeeps DEF StampInv
  <2>3. mem' = mem \/ mem' = Merged(mem, path.state)
    BY <1>7 DEF Merge
  <2>4. \A v \in Writer : image'[v] = image[v] \/ (v = w /\ image'[v] = Merged(image[w], path.state))
    BY <1>7 DEF Merge, TypeOK
  <2>5. QED  BY <2>1, <2>2, <2>3, <2>4 DEF StampInv, Stamped
<1>8. ASSUME NEW w \in Writer, Marshal(w) PROVE StampInv'
  <2>1. UNCHANGED <<mem, stamp, path, tmp>> /\ \A v \in Writer : image'[v] \in {image[v], mem}
    BY <1>8 DEF Marshal, TypeOK
  <2>2. QED  BY <2>1 DEF StampInv, Stamped
<1>9. ASSUME NEW w \in Writer, Open(w) \/ Fill(w) \/ Rename(w) PROVE StampInv'
  <2>1. UNCHANGED <<mem, stamp, image>>
    BY <1>9 DEF Open, Fill, Rename
  <2>2. Torn.state = EmptyState /\ Missing.state = EmptyState /\ Whole(image[w]).state = image[w]
    BY DEF Torn, Missing, Whole
  <2>3. Stamped(EmptyState)
    BY <1>1 DEF Stamped, EmptyState, NoRecord
  <2>4. path'.state \in {path.state, tmp.state, EmptyState, image[w]} /\ tmp'.state \in {tmp.state, EmptyState, image[w]}
    BY <1>9, <2>2 DEF Open, Fill, Filled, Rename
  <2>5. QED  BY <2>1, <2>3, <2>4 DEF StampInv, Stamped
<1>10. CASE DaemonCrash \/ ServerCrash
  BY <1>10 DEF DaemonCrash, ServerCrash, StampInv, Stamped
<1>11. CASE UNCHANGED vars
  BY <1>11 DEF vars, StampInv, Stamped
<1>12. QED
  BY <1>3, <1>4, <1>5, <1>6, <1>7, <1>8, <1>9, <1>10, <1>11 DEF Next

\* A lone resolver is about to write its resolution, with a stamp that no record on disk
\* exceeds; no call of a daemon that is off is under way.
LoneResolver ==
  /\ Lone("resolver") /\ pc["resolver"] # "stamp" => image["resolver"].conflicts[topic].done
  /\ Lone("resolver") /\ pc["resolver"] = "merge" => image["resolver"].conflicts[topic].at = stamp
  /\ off => \A w \in Daemon : pc[w] = "idle"

LEMMA LoneResolverStep ==
  ASSUME TypeOK, AloneInv, StampInv, LoneResolver, [Next]_vars
  PROVE  LoneResolver'
<1> USE DEF Goto, files, ghosts
<1>1. /\ "resolver" \in Writer /\ "handler" \in Daemon /\ "resolver" \notin Daemon /\ Daemon \subseteq Writer
      /\ topic \in Conflict /\ path.state \in State /\ \A w \in Writer : image[w] \in State
  BY DEF TypeOK, Writer, Daemon, Content
<1>2. ASSUME NEW w \in Daemon, Called(w), pc' = [pc EXCEPT ![w] = "merge"], ~off, off' = off PROVE LoneResolver'
  <2>1. \A v \in Writer : Lone(v)' => v = w
    BY <1>1, <1>2, StartedAlone
  <2>2. QED  BY <1>1, <1>2, <2>1 DEF LoneResolver
<1>3. ASSUME NEW w \in Writer, Advance(w) PROVE LoneResolver'
  BY <1>2, <1>3 DEF Advance
<1>4. ASSUME NEW c \in Conflict, RecordConflict(c) PROVE LoneResolver'
  BY <1>1, <1>2, <1>4 DEF RecordConflict
<1>5. ASSUME NEW c \in Conflict, ResolveRead(c) PROVE LoneResolver'
  BY <1>1, <1>5 DEF ResolveRead, LoneResolver, TypeOK
<1>6. CASE ResolveStamp
  <2>1. /\ UNCHANGED <<topic, off>> /\ stamp' = stamp + 1 /\ pc'["resolver"] = "merge"
        /\ \A v \in Writer \ {"resolver"} : pc'[v] = pc[v]
    BY <1>1, <1>6 DEF ResolveStamp, TypeOK
  <2>2. image'["resolver"].conflicts[topic] = [at |-> stamp', done |-> TRUE]
    BY <1>1, <1>6 DEF ResolveStamp, TypeOK, State
  <2>3. QED  BY <1>1, <2>1, <2>2 DEF LoneResolver
<1>7. ASSUME NEW w \in Writer, Merge(w) PROVE LoneResolver'
  <2>1. /\ pc[w] = "merge" /\ pc'[w] = "marshal" /\ \A v \in Writer \ {w} : pc'[v] = pc[v]
        /\ UNCHANGED <<topic, off, met, stamp>>
    BY <1>7 DEF Merge, TypeOK
  <2>2. CASE w \in Daemon
    BY <1>1, <1>7, <2>1, <2>2 DEF Merge, LoneResolver, Lone
  <2>3. CASE w = "resolver"
    <3>1. image'[w] = IF Readable(path) THEN Merged(image[w], path.state) ELSE image[w]
      BY <1>1, <1>7, <2>3 DEF Merge, TypeOK
    <3>2. Lone(w) => image'[w].conflicts[topic].done
      BY <1>1, <2>1, <2>3, <3>1, MergeKeeps DEF LoneResolver, StampInv
    <3>3. QED  BY <1>1, <2>1, <2>3, <3>2 DEF LoneResolver, Lone
  <2>4. QED  BY <2>2, <2>3 DEF Writer
<1>8. ASSUME NEW w \in Writer, Marshal(w) \/ Open(w) \/ Fill(w) PROVE LoneResolver'
  <2>1. /\ pc[w] \notin {"idle", "stamp", "merge"} /\ pc'[w] \notin {"idle", "stamp", "merge"}
        /\ \A v \in Writer \ {w} : pc'[v] = pc[v]
        /\ UNCHANGED <<topic, off, met, stamp>> /\ image'["resolver"] = image["resolver"]
    BY <1>1, <1>8 DEF Marshal, Open, Fill, TypeOK
  <2>2. QED  BY <1>1, <2>1 DEF LoneResolver, Lone
<1>9. ASSUME NEW w \in Writer, Rename(w) PROVE LoneResolver'
  <2>1. /\ pc'[w] = "idle" /\ pc[w] # "idle" /\ \A v \in Writer \ {w} : pc'[v] = pc[v]
        /\ UNCHANGED <<topic, off, stamp, image>> /\ met' = met \ {w}
    BY <1>9 DEF Rename, TypeOK
  <2>2. QED  BY <1>1, <2>1 DEF LoneResolver, Lone
<1>10. CASE DaemonCrash \/ ServerCrash
  <2>1. /\ \A v \in Writer : pc'[v] \in {"idle", pc[v]}
        /\ UNCHANGED <<topic, stamp, image>>
        /\ Lone("resolver")' => Lone("resolver") /\ pc'["resolver"] = pc["resolver"]
        /\ off' # off => \A v \in Daemon : pc'[v] = "idle"
    BY <1>1, <1>10 DEF DaemonCrash, ServerCrash, Stopped, Lone
  <2>2. QED  BY <1>1, <2>1 DEF LoneResolver
<1>11. CASE UNCHANGED vars
  BY <1>11 DEF vars, LoneResolver, Lone
<1>12. QED
  BY <1>3, <1>4, <1>5, <1>6, <1>7, <1>8, <1>9, <1>10, <1>11 DEF Next

\* A call begins that neither changes a file nor makes the daemon forget c.
LEMMA HeldStart ==
  ASSUME TypeOK, AloneInv, NEW c \in Conflict, Held(c), NEW w \in Daemon, pc[w] = "idle",
         pc' = [pc EXCEPT ![w] = "merge"], UNCHANGED <<path, tmp, fd, image, off>>,
         \/ mem'.conflicts[c].done = mem.conflicts[c].done
         \/ Readable(path) /\ \A v \in Writer \ {w} : pc[v] = "idle"
  PROVE  Held(c)'
<1>1. "resolver" \in Writer /\ "resolver" \notin Daemon /\ Daemon \subseteq Writer
  BY DEF Writer, Daemon
<1>2. pc'[w] = "merge" /\ \A v \in Writer \ {w} : pc'[v] = pc[v]
  BY <1>1 DEF TypeOK
<1>3. \A v \in Writer : (Writing(v)' => Writing(v)) /\ (Past(v)' => v # w /\ Past(v))
  BY <1>2 DEF Writing, Past
<1>4. CASE mem'.conflicts[c].done = mem.conflicts[c].done
  BY <1>1, <1>2, <1>3, <1>4 DEF Held, Calm
<1>5. CASE Readable(path) /\ \A v \in Writer \ {w} : pc[v] = "idle"
  <2>1. \A v \in Writer : ~Past(v)' /\ ~Writing(v)'
    BY <1>2, <1>3, <1>5 DEF Past, Writing
  <2>2. pc'["resolver"] = "idle"
    BY <1>1, <1>2, <1>5
  <2>3. QED  BY <1>1, <1>5, <2>1, <2>2 DEF Held, Calm
<1>6. QED  BY <1>4, <1>5

LEMMA HeldStep ==
  ASSUME TypeOK, AloneInv, StampInv, LoneResolver, \A c \in held : Held(c), [Next]_vars
  PROVE  \A c \in held' : Held(c)'
<1> SUFFICES ASSUME NEW c \in held' PROVE Held(c)'
  OBVIOUS
<1> USE DEF Goto, files, ghosts
<1>0. TypeOK' /\ AloneInv'
  BY TypeStep, AloneStep
<1>1. /\ "resolver" \in Writer /\ "handler" \in Daemon /\ "resolver" \notin Daemon /\ Daemon \subseteq Writer
      /\ c \in Conflict /\ topic \in Conflict
      /\ mem \in State /\ path.state \in State /\ \A w \in Writer : image[w] \in State
      /\ \A w \in Writer : w \in Daemon \/ w = "resolver"
  BY <1>0 DEF TypeOK, Writer, Daemon, Content
<1>2. ASSUME NEW w \in Writer, Advance(w) PROVE Held(c)'
  <2>1. mem'.conflicts = mem.conflicts
    BY <1>1, <1>2 DEF Advance, State
  <2>2. c \in held /\ pc[w] = "idle"
    BY <1>2 DEF Advance, Called
  <2>3. QED  BY <1>1, <1>2, <2>1, <2>2, HeldStart DEF Advance
<1>3. ASSUME NEW k \in Conflict, RecordConflict(k) PROVE Held(c)'
  <2>1. c \in held /\ pc["handler"] = "idle"
    BY <1>3 DEF RecordConflict, Called
  <2>2. mem'.conflicts[c].done = mem.conflicts[c].done
        \/ (Readable(path) /\ \A v \in Writer \ {"handler"} : pc[v] = "idle")
    <3>1. CASE c = k
      BY <1>1, <1>3, <3>1 DEF RecordConflict, Others
    <3>2. CASE c # k
      BY <1>1, <1>3, <3>2 DEF RecordConflict, State
    <3>3. QED  BY <3>1, <3>2
  <2>3. QED  BY <1>1, <1>3, <2>1, <2>2, HeldStart DEF RecordConflict
<1>4. ASSUME NEW k \in Conflict, ResolveRead(k) PROVE Held(c)'
  <2>1. /\ c \in held /\ Readable(path) /\ UNCHANGED <<path, tmp, fd, mem, off>>
        /\ image'["resolver"] = path.state /\ \A v \in Writer \ {"resolver"} : image'[v] = image[v]
        /\ pc'["resolver"] = "stamp" /\ \A v \in Writer \ {"resolver"} : pc'[v] = pc[v]
    BY <1>1, <1>4 DEF ResolveRead, TypeOK
  <2>2. QED  BY <1>1, <2>1 DEF Held, Calm, Writing, Past
<1>5. CASE ResolveStamp
  <2>1. /\ c \in held /\ UNCHANGED <<path, tmp, fd, mem, off>>
        /\ \A v \in Writer \ {"resolver"} : image'[v] = image[v] /\ pc'[v] = pc[v]
        /\ pc["resolver"] = "stamp" /\ pc'["resolver"] = "merge"
    BY <1>1, <1>5 DEF ResolveStamp, TypeOK
  <2>2. image'["resolver"].conflicts[c] =
          IF c = topic THEN [at |-> stamp', done |-> TRUE] ELSE image["resolver"].conflicts[c]
    BY <1>1, <1>5 DEF ResolveStamp, TypeOK, State
  <2>3. image'["resolver"].conflicts[c].done
    BY <2>1, <2>2 DEF Held
  <2>4. QED  BY <1>1, <2>1, <2>3 DEF Held, Calm, Writing, Past
<1>6. ASSUME NEW w \in Writer, Merge(w) PROVE Held(c)'
  <2>1. /\ c \in held /\ UNCHANGED <<path, tmp, fd, off>>
        /\ pc[w] = "merge" /\ pc'[w] = "marshal" /\ \A v \in Writer \ {w} : pc'[v] = pc[v]
    BY <1>6 DEF Merge, TypeOK
  <2>2. CASE w \in Daemon
    <3>1. image' = image /\ mem' = IF Readable(path) THEN Merged(mem, path.state) ELSE mem
      BY <1>6, <2>2 DEF Merge
    <3>2. ~off
      BY <2>1, <2>2 DEF LoneResolver
    <3>3. CASE Readable(path)
      <4>1. mem'.conflicts[c].done
        BY <1>1, <2>1, <3>1, <3>3, MergeKeeps DEF StampInv, Held
      <4>2. QED  BY <1>1, <2>1, <2>2, <3>1, <4>1 DEF Held, Writing, Past
    <3>4. CASE ~Readable(path)
      <4>1. mem'.conflicts[c].done
        BY <2>1, <3>1, <3>2, <3>4 DEF Held, Calm
      <4>2. QED  BY <1>1, <2>1, <2>2, <3>1, <4>1 DEF Held, Writing, Past
    <3>5. QED  BY <3>3, <3>4
  <2>3. CASE w = "resolver"
    <3>1. /\ mem' = mem /\ \A v \in Daemon : image'[v] = image[v]
          /\ image'[w] = IF Readable(path) THEN Merged(image[w], path.state) ELSE image[w]
      BY <1>1, <1>6, <2>3 DEF Merge, TypeOK
    <3>2. image'[w].conflicts[c].done
      BY <1>1, <2>1, <2>3, <3>1, MergeKeeps DEF StampInv, Held
    <3>3. QED  BY <1>1, <2>1, <2>3, <3>1, <3>2 DEF Held, Calm, Writing, Past
  <2>4. QED  BY <1>1, <2>2, <2>3
<1>7. ASSUME NEW w \in Writer, Marshal(w) PROVE Held(c)'
  <2>1. /\ c \in held /\ UNCHANGED <<path, tmp, fd, mem, off>>
        /\ pc[w] = "marshal" /\ pc'[w] = "open"
        /\ \A v \in Writer \ {w} : pc'[v] = pc[v] /\ image'[v] = image[v]
        /\ image'[w] = IF w \in Daemon THEN mem ELSE image[w]
    BY <1>7 DEF Marshal, TypeOK
  <2>2. image'[w].conflicts[c].done
    BY <1>1, <2>1 DEF Held, Past
  <2>3. \A v \in Writer : Past(v)' => Past(v)
    BY <2>1 DEF Past
  <2>4. QED  BY <1>1, <2>1, <2>2, <2>3 DEF Held, Calm, Writing
<1>8. ASSUME NEW w \in Writer, Open(w) PROVE Held(c)'
  <2>1. /\ c \in held /\ UNCHANGED <<path, image, mem, off>> /\ tmp'.kind = "torn"
        /\ pc[w] = "open" /\ pc'[w] = "fill" /\ \A v \in Writer \ {w} : pc'[v] = pc[v]
        /\ fd'[w] = "tmp" /\ \A v \in Writer \ {w} : fd'[v] = fd[v]
    BY <1>8 DEF Open, TypeOK, Torn
  <2>2. \A v \in Writer : (Past(v)' => Past(v)) /\ (Writing(v)' => Writing(v))
    BY <2>1 DEF Past, Writing
  <2>3. ~Readable(tmp')
    BY <2>1 DEF Readable
  <2>4. CASE w \in Daemon
    <3>1. mem.conflicts[c].done
      BY <2>1, <2>4 DEF Held, Past
    <3>2. QED  BY <1>1, <2>1, <2>2, <2>3, <2>4, <3>1 DEF Held
  <2>5. CASE w = "resolver"
    BY <1>1, <2>1, <2>2, <2>3, <2>5 DEF Held, Calm
  <2>6. QED  BY <1>1, <2>4, <2>5
<1>9. ASSUME NEW w \in Writer, Fill(w) PROVE Held(c)'
  <2>1. /\ c \in held /\ UNCHANGED <<image, mem, off>>
        /\ pc[w] = "fill" /\ pc'[w] = "rename" /\ \A v \in Writer \ {w} : pc'[v] = pc[v]
        /\ fd'[w] = "none" /\ \A v \in Writer \ {w} : fd'[v] = fd[v]
    BY <1>9 DEF Fill, TypeOK
  <2>2. \A v \in Writer : (Past(v)' => Past(v)) /\ (Writing(v)' => Writing(v))
    BY <2>1 DEF Past, Writing
  <2>3. image[w].conflicts[c].done
    BY <2>1 DEF Held, Writing
  <2>4. /\ tmp' \in {tmp, Torn, Whole(image[w])} /\ path' \in {path, Torn, Whole(image[w])}
    BY <1>9 DEF Fill, Filled
  <2>5. ~Readable(Torn) /\ Readable(Whole(image[w])) /\ Whole(image[w]).state = image[w]
    BY DEF Torn, Whole, Readable
  <2>6. /\ Readable(path') => path'.state.conflicts[c].done
        /\ Readable(tmp') => tmp' = Missing \/ tmp'.state.conflicts[c].done
    BY <2>1, <2>3, <2>4, <2>5 DEF Held
  <2>7. mem.conflicts[c].done \/ off \/ Calm'
    <3> SUFFICES ASSUME ~mem.conflicts[c].done, ~off PROVE Calm'
      OBVIOUS
    <3>1. Calm /\ w = "resolver"
      BY <1>1, <2>1 DEF Held, Past
    <3>2. fd[w] = "tmp" /\ tmp.kind = "torn"
      BY <2>1, <3>1 DEF Calm
    <3>3. tmp' = Whole(image[w]) /\ path' = path
      BY <1>9, <3>2 DEF Fill, Filled
    <3>4. QED  BY <2>1, <2>5, <3>1, <3>3 DEF Calm
  <2>8. QED  BY <1>1, <2>1, <2>2, <2>6, <2>7 DEF Held
<1>10. ASSUME NEW w \in Writer, Rename(w) PROVE Held(c)'
  <2>1. /\ UNCHANGED <<image, mem, off, topic>>
        /\ pc[w] = "rename" /\ pc'[w] = "idle" /\ \A v \in Writer \ {w} : pc'[v] = pc[v]
    BY <1>10 DEF Rename, TypeOK
  <2>2. \A v \in Writer : (Past(v)' => Past(v)) /\ (Writing(v)' => Writing(v))
    BY <2>1 DEF Past, Writing
  <2>3. CASE tmp = Missing
    <3>1. c \in held /\ UNCHANGED <<path, tmp, fd>>
      BY <1>10, <2>3 DEF Rename
    <3>2. QED  BY <1>1, <2>1, <2>2, <3>1 DEF Held, Calm
  <2>4. CASE tmp # Missing /\ c \in held
    <3>1. path' = tmp /\ tmp' = Missing
      BY <1>10, <2>4 DEF Rename
    <3>2. mem.conflicts[c].done \/ off \/ Calm'
      <4> SUFFICES ASSUME ~mem.conflicts[c].done, ~off PROVE Calm'
        OBVIOUS
      <4>1. Calm /\ w = "resolver"
        BY <1>1, <2>1, <2>4 DEF Held, Past
      <4>2. QED  BY <2>1, <3>1, <4>1 DEF Calm
    <3>3. Readable(path') => path'.state.conflicts[c].done
      BY <2>4, <3>1 DEF Held
    <3>4. QED  BY <1>1, <2>1, <2>2, <2>4, <3>1, <3>2, <3>3 DEF Held
  <2>5. CASE tmp # Missing /\ c \notin held
    <3>1. w = "resolver" /\ w \notin met /\ c = topic /\ path' = tmp /\ tmp' = Missing
      BY <1>1, <1>10, <2>5 DEF Rename
    <3>2. Lone(w)
      BY <2>1, <3>1 DEF Lone
    <3>3. tmp = Whole(image[w]) /\ image[w].conflicts[c].done
      BY <2>1, <3>1, <3>2 DEF AloneInv, LoneResolver
    <3>4. \A v \in Writer : pc'[v] = "idle"
      BY <2>1, <3>2 DEF AloneInv
    <3>5. Readable(path') /\ path'.state.conflicts[c].done
      BY <3>1, <3>3 DEF Whole, Readable
    <3>6. QED  BY <1>1, <3>1, <3>4, <3>5 DEF Held, Calm, Writing, Past
  <2>6. QED  BY <2>3, <2>4, <2>5
<1>11. CASE DaemonCrash
  <2>1. /\ c \in held /\ UNCHANGED <<path, tmp, image>> /\ mem' = path.state /\ off' = ~Readable(path)
        /\ \A v \in Writer : pc'[v] = IF v \in Daemon THEN "idle" ELSE pc[v]
    BY <1>11 DEF DaemonCrash, Stopped
  <2>2. \A v \in Writer : (Past(v)' => v \notin Daemon) /\ (Writing(v)' => Writing(v))
    BY <2>1 DEF Past, Writing
  <2>3. mem'.conflicts[c].done \/ off'
    BY <2>1 DEF Held
  <2>4. QED  BY <1>1, <2>1, <2>2, <2>3 DEF Held
<1>12. CASE ServerCrash
  <2>1. /\ c \in held /\ UNCHANGED <<path, tmp, image, mem, off>>
        /\ pc'["resolver"] = "idle" /\ \A v \in Writer : pc'[v] \in {"idle", pc[v]}
    BY <1>1, <1>12 DEF ServerCrash, Stopped
  <2>2. \A v \in Writer : (Past(v)' => Past(v)) /\ (Writing(v)' => Writing(v))
    BY <2>1 DEF Past, Writing
  <2>3. QED  BY <1>1, <2>1, <2>2 DEF Held, Calm
<1>13. CASE UNCHANGED vars
  BY <1>13 DEF vars, Held, Calm, Writing, Past
<1>14. QED
  BY <1>2, <1>3, <1>4, <1>5, <1>6, <1>7, <1>8, <1>9, <1>10, <1>11, <1>12, <1>13 DEF Next

ResolutionInv == StampInv /\ LoneResolver /\ \A c \in held : Held(c)

LEMMA ResolutionInit == Init => ResolutionInv
<1> SUFFICES ASSUME Init PROVE ResolutionInv
  OBVIOUS
<1>1. /\ mem = EmptyState /\ path.state = EmptyState /\ tmp.state = EmptyState
      /\ \A w \in Writer : image[w] = EmptyState /\ pc[w] = "idle"
      /\ stamp = 0 /\ held = {}
  BY DEF Init, Missing
<1>2. Stamped(EmptyState)
  BY <1>1 DEF Stamped, EmptyState, NoRecord
<1>3. StampInv
  BY <1>1, <1>2 DEF StampInv
<1>4. LoneResolver
  BY <1>1 DEF LoneResolver, Lone, Writer, Daemon
<1>5. QED  BY <1>1, <1>3, <1>4 DEF ResolutionInv

\* A conflict resolved by a user stays resolved on disk, whatever the daemon, which did not
\* know of it, writes afterwards, whatever calls overlap and wherever a process stops; it
\* takes a resolver that ran alone, and no new record of the conflict that begins while
\* another call is under way or the file is torn.
THEOREM ResolutionHolds == Spec => []ResolutionHeld
<1>1. Init => TypeOK /\ AloneInv /\ ResolutionInv
  BY TypeInit, AloneInit, ResolutionInit
<1>2. TypeOK /\ AloneInv /\ ResolutionInv /\ [Next]_vars => TypeOK' /\ AloneInv' /\ ResolutionInv'
  BY TypeStep, AloneStep, StampStep, LoneResolverStep, HeldStep DEF ResolutionInv
<1>3. ResolutionInv => ResolutionHeld
  BY DEF ResolutionInv, ResolutionHeld, Held
<1>4. QED  BY <1>1, <1>2, <1>3, PTL DEF Spec

=============================================================================

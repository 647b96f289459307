-------------------------- MODULE LiveCredit_proofs --------------------------
(***************************************************************************)
(* Proofs about stores that several processes share: the files of the      *)
(* credit proofs, which a tool moves without a lock (CreditStore), the     *)
(* file of a live room, which sessions and watchers change under one       *)
(* (LiveRoom), and the pages and daily archives a node makes of that file  *)
(* while it grows (LiveHistory).                                           *)
(***************************************************************************)
EXTENDS CreditStore, LiveRoom, LiveHistory, FiniteSetTheorems, SequenceTheorems,
        WellFoundedInduction, TLAPS

(* CreditStore. *)
ToolPlaces == {"idle", "load", "merge", "create", "close", "remove", "clean", "prune"}
FileForms == {"none", "torn", "whole"}
Loads == [pc : Days \cup {"idle", "days", "list"}, days : SUBSET Days, names : SUBSET Proofs,
          found : SUBSET Proofs, steady : SUBSET Proofs]
StoreTypes ==
    /\ live \in [Proofs -> FileForms]
    /\ archive \in [Days -> [form : FileForms, has : SUBSET Proofs]]
    /\ \A d \in Days : /\ \A p \in archive[d].has : DayOf[p] = d
                       /\ archive[d].form # "whole" => archive[d].has = {}
    /\ saver \in [Savers -> Proofs \cup {"idle"}]
    /\ loading \in [Readers -> Loads]
    /\ cache \in [proofs : SUBSET Proofs, dirty : BOOLEAN, age : 0..CacheTTL]
    /\ tool \in [pc : ToolPlaces, days : SUBSET Days, got : SUBSET Proofs, paths : SUBSET (Days \cup Proofs)]
(* The tool moves one old day at a time: what it holds while it rewrites the archive of the
   day contains what that archive had. *)
ToolSound ==
    /\ tool.pc \in {"load", "merge", "create", "close", "remove", "prune"} => tool.days \subseteq Old
    /\ tool.pc \in {"merge", "create", "close", "remove"} =>
         \E d \in Old : tool.paths = {d} /\ \A p \in tool.got : DayOf[p] = d
    /\ tool.pc = "create" => \A d \in tool.paths : archive[d].form # "torn" /\ archive[d].has \subseteq tool.got
    /\ tool.pc = "close" => \A d \in tool.paths : archive[d].form = "torn"
    /\ tool.pc = "clean" => tool.paths \subseteq Proofs

(* The archive of the day holds the proof, or will when the tool that has emptied it goes on. *)
Archived(d, p) ==
    \/ archive[d].form = "whole" /\ p \in archive[d].has
    \/ archive[d].form = "torn" /\ (tool.pc = "close" /\ tool.paths = {d} => p \in tool.got)
(* A load still has before it whatever was on disk all the while and that it did not find. *)
LoadSound(l) ==
    /\ l.steady \subseteq OnDisk(live, archive, tool)
    /\ l.pc = "days" => \A p \in l.steady : DayOf[p] \in l.days \/ archive[DayOf[p]].form # "none"
    /\ l.pc \notin {"idle", "days"} => \A p \in l.steady : p \in l.found \/ DayOf[p] \in l.days
    /\ l.pc \in Days => \A p \in l.steady : DayOf[p] = l.pc => p \in l.found \cup l.names \/ Archived(l.pc, p)
LoadsSound == \A r \in Readers : LoadSound(loading[r])
CreditInv == StoreTypes /\ ToolSound /\ LoadsSound

LEMMA RestingSound == Resting \in Loads /\ Resting.pc = "idle" /\ Resting.steady = {} /\ LoadSound(Resting)
<1>1. Resting \in Loads /\ Resting.pc = "idle" /\ Resting.steady = {}
  BY DEF Resting, Loads
<1>2. "idle" \notin Days
  BY CreditConstants
<1> HIDE DEF Resting
<1> QED BY <1>1, <1>2 DEF LoadSound

(* A step of somebody else: the proofs that stay on disk stay where a load looks for them. *)
LEMMA OthersStep ==
  ASSUME CreditInv, Watched,
         \A d \in Days, p \in Proofs : DayOf[p] = d /\ p \in OnDisk(live', archive', tool') =>
             /\ archive[d].form # "none" => archive'[d].form # "none"
             /\ Archived(d, p) => Archived(d, p)'
  PROVE  LoadsSound' /\ loading' \in [Readers -> Loads]
<1> DEFINE disk == OnDisk(live', archive', tool')
<1>1. \A r \in Readers : loading[r] \in Loads /\ LoadSound(loading[r])
  BY DEF CreditInv, StoreTypes, LoadsSound
<1>2. loading' = [r \in Readers |-> [loading[r] EXCEPT !.steady = @ \cap disk]]
  BY DEF Watched, Reading
<1> HIDE DEF disk
<1>3. ASSUME NEW r \in Readers
      PROVE  /\ loading'[r] \in Loads /\ loading'[r].pc = loading[r].pc /\ loading'[r].days = loading[r].days
             /\ loading'[r].names = loading[r].names /\ loading'[r].found = loading[r].found
             /\ loading'[r].steady = loading[r].steady \cap disk
  BY <1>1, <1>2 DEF Loads
<1>4. ASSUME NEW r \in Readers PROVE LoadSound(loading[r])'
  <2>1. PICK l : l = loading'[r]
    OBVIOUS
  <2>2. /\ l.steady \subseteq disk /\ l.steady \subseteq loading[r].steady /\ l.steady \subseteq Proofs
        /\ l.pc = loading[r].pc /\ l.days = loading[r].days /\ l.names = loading[r].names
        /\ l.found = loading[r].found
    BY <1>1, <1>3, <2>1 DEF Loads
  <2>3. \A p \in l.steady : DayOf[p] \in Days
    BY <2>2, CreditConstants
  <2>4. l.pc = "days" => \A p \in l.steady : DayOf[p] \in l.days \/ archive'[DayOf[p]].form # "none"
    BY <1>1, <2>2, <2>3 DEF LoadSound, disk
  <2>5. l.pc \notin {"idle", "days"} => \A p \in l.steady : p \in l.found \/ DayOf[p] \in l.days
    BY <1>1, <2>2 DEF LoadSound
  <2>6. l.pc \in Days => \A p \in l.steady : DayOf[p] = l.pc => p \in l.found \cup l.names \/ Archived(l.pc, p)'
    BY <1>1, <2>2, <2>3 DEF LoadSound, disk
  <2> QED BY <2>1, <2>2, <2>4, <2>5, <2>6 DEF LoadSound, Archived, disk
<1> QED BY <1>2, <1>3, <1>4 DEF LoadsSound

(* Where the archives and the tool rest, what loads look for stays. *)
LEMMA OnlyLiveStep ==
  ASSUME CreditInv, Watched, UNCHANGED <<archive, tool>>
  PROVE  LoadsSound' /\ loading' \in [Readers -> Loads] /\ ToolSound'
<1>1. \A d \in Days, p \in Proofs : Archived(d, p) => Archived(d, p)'
  BY DEF Archived
<1>2. ToolSound'
  BY DEF CreditInv, ToolSound
<1> QED BY <1>1, <1>2, OthersStep

LEMMA SaveInv == ASSUME CreditInv, Save PROVE CreditInv'
<1>1. UNCHANGED <<archive, tool>> /\ Watched
  BY DEF Save, SaveBegins, SaveEnds
<1>2. /\ live' \in [Proofs -> FileForms] /\ saver' \in [Savers -> Proofs \cup {"idle"}]
      /\ cache' \in [proofs : SUBSET Proofs, dirty : BOOLEAN, age : 0..CacheTTL]
  <2>0. /\ live \in [Proofs -> FileForms] /\ saver \in [Savers -> Proofs \cup {"idle"}]
        /\ cache \in [proofs : SUBSET Proofs, dirty : BOOLEAN, age : 0..CacheTTL]
    BY DEF CreditInv, StoreTypes
  <2>1. ASSUME NEW g \in Savers, NEW p \in Proofs, SaveBegins(g, p)
        PROVE  /\ live' \in [Proofs -> FileForms] /\ saver' \in [Savers -> Proofs \cup {"idle"}]
               /\ cache' \in [proofs : SUBSET Proofs, dirty : BOOLEAN, age : 0..CacheTTL]
    BY <2>0, <2>1 DEF SaveBegins, FileForms
  <2>2. ASSUME NEW g \in Savers, SaveEnds(g)
        PROVE  /\ live' \in [Proofs -> FileForms] /\ saver' \in [Savers -> Proofs \cup {"idle"}]
               /\ cache' \in [proofs : SUBSET Proofs, dirty : BOOLEAN, age : 0..CacheTTL]
    BY <2>0, <2>2 DEF SaveEnds, FileForms
  <2> QED BY <2>1, <2>2 DEF Save
<1>3. StoreTypes'
  BY <1>1, <1>2, OnlyLiveStep DEF CreditInv, StoreTypes
<1> QED BY <1>1, <1>3, OnlyLiveStep DEF CreditInv

(* The steps of the tool. *)
LEMMA NoToolSound ==
  NoTool \in [pc : ToolPlaces, days : SUBSET Days, got : SUBSET Proofs, paths : SUBSET (Days \cup Proofs)]
  /\ NoTool.pc = "idle"
BY DEF NoTool, ToolPlaces

LEMMA ToolStep ==
  ASSUME CreditInv, Watched, UNCHANGED <<saver, cache>>, live' \in [Proofs -> FileForms],
         UNCHANGED archive, ToolSound',
         tool' \in [pc : ToolPlaces, days : SUBSET Days, got : SUBSET Proofs, paths : SUBSET (Days \cup Proofs)],
         tool'.pc # "close"
  PROVE  CreditInv'
<1>1. \A d \in Days, p \in Proofs : Archived(d, p) => Archived(d, p)'
  BY DEF Archived
<1>2. LoadsSound' /\ loading' \in [Readers -> Loads]
  BY <1>1, OthersStep
<1> QED BY <1>2 DEF CreditInv, StoreTypes

LEMMA TheDayIs == ASSUME NEW d, tool.paths = {d} PROVE TheDay = d
BY DEF TheDay

LEMMA ToolReadsInv ==
  ASSUME CreditInv,
         \/ ArchiveStarts \/ ArchiveMerges \/ ArchiveEnds \/ CleanStarts \/ CleanArchives \/ CleanEnds
         \/ ToolCrash \/ \E d \in Days : ArchiveLoads(d)
  PROVE  CreditInv'
<1> DEFINE Tools == [pc : ToolPlaces, days : SUBSET Days, got : SUBSET Proofs, paths : SUBSET (Days \cup Proofs)]
<1>1. Watched /\ UNCHANGED <<saver, cache, live, archive>> /\ live' \in [Proofs -> FileForms]
  BY DEF ArchiveStarts, ArchiveMerges, ArchiveEnds, CleanStarts, CleanArchives, CleanEnds, ToolCrash,
     ArchiveLoads, ToolStarts, ToolRests, CreditInv, StoreTypes
<1>2. tool \in Tools /\ ToolSound /\ Old \subseteq Days
  BY CreditConstants DEF CreditInv, StoreTypes
<1>3. CASE tool' = NoTool
  BY <1>1, <1>3, NoToolSound, ToolStep DEF ToolSound
<1>4. CASE ArchiveStarts
  <2>1. PICK t : t = [NoTool EXCEPT !.pc = "load", !.days = {d \in Old : LiveOn(d) # {}}, !.paths = {}]
    OBVIOUS
  <2>2. t \in Tools /\ t.pc = "load" /\ t.days \subseteq Old
    BY <1>2, <2>1, NoToolSound DEF ToolPlaces
  <2>3. tool' = t
    BY <1>4, <2>1 DEF ArchiveStarts, ToolStarts
  <2> QED BY <1>1, <2>2, <2>3, ToolStep DEF ToolSound
<1>5. CASE CleanStarts
  <2>1. PICK t : t = [NoTool EXCEPT !.pc = "clean", !.days = {}, !.paths = {p \in Proofs : live[p] # "none"}]
    OBVIOUS
  <2>2. t \in Tools /\ t.pc = "clean" /\ t.paths \subseteq Proofs
    BY <2>1, NoToolSound DEF ToolPlaces
  <2>3. tool' = t
    BY <1>5, <2>1 DEF CleanStarts, ToolStarts
  <2> QED BY <1>1, <2>2, <2>3, ToolStep DEF ToolSound
<1>6. CASE CleanArchives
  <2>1. PICK t : t = [tool EXCEPT !.pc = "prune", !.days = {d \in Old : archive[d].form # "none"}]
    OBVIOUS
  <2>2. t \in Tools /\ t.pc = "prune" /\ t.days \subseteq Old
    BY <1>2, <2>1 DEF ToolPlaces
  <2>3. tool' = t
    BY <1>6, <2>1 DEF CleanArchives
  <2> QED BY <1>1, <2>2, <2>3, ToolStep DEF ToolSound
<1>7. CASE ArchiveMerges /\ archive[TheDay].form # "torn"
  <2>1. PICK d \in Old : tool.paths = {d} /\ \A p \in tool.got : DayOf[p] = d
    BY <1>2, <1>7 DEF ArchiveMerges, ToolSound
  <2>2. TheDay = d
    BY <2>1, TheDayIs
  <2>3. archive[d].form # "torn" /\ archive[d].has \subseteq Proofs /\ \A p \in archive[d].has : DayOf[p] = d
    BY <1>2, <1>7, <2>1, <2>2 DEF CreditInv, StoreTypes
  <2>4. PICK t : t = [tool EXCEPT !.pc = "create", !.got = @ \cup archive[d].has]
    OBVIOUS
  <2>5. t \in Tools /\ t.pc = "create" /\ t.days = tool.days /\ t.paths = {d} /\ t.got = tool.got \cup archive[d].has
    BY <1>2, <2>1, <2>3, <2>4 DEF ToolPlaces
  <2>6. tool' = t /\ tool.pc = "merge"
    BY <1>7, <2>2, <2>4 DEF ArchiveMerges
  <2>7. ToolSound'
    BY <1>1, <1>2, <2>1, <2>3, <2>5, <2>6 DEF ToolSound
  <2> QED BY <1>1, <2>5, <2>6, <2>7, ToolStep
<1>8. ASSUME NEW d \in Days, ArchiveLoads(d), tool' # NoTool PROVE CreditInv'
  <2>1. tool.pc = "load" /\ d \in tool.days /\ d \in Old /\ tool.days \subseteq Old
    BY <1>2, <1>8 DEF ArchiveLoads, ToolSound
  <2>2. CASE LiveOn(d) = {}
    <3>1. PICK t : t = [tool EXCEPT !.days = @ \ {d}]
      OBVIOUS
    <3>2. t \in Tools /\ t.pc = "load" /\ t.days \subseteq Old
      BY <1>2, <2>1, <3>1
    <3>3. tool' = t
      BY <1>8, <2>2, <3>1 DEF ArchiveLoads
    <3> QED BY <1>1, <3>2, <3>3, ToolStep DEF ToolSound
  <2>3. CASE LiveOn(d) # {}
    <3>1. PICK t : t = [tool EXCEPT !.pc = "merge", !.days = @ \ {d}, !.paths = {d}, !.got = LiveOn(d)]
      OBVIOUS
    <3>2. LiveOn(d) \subseteq Proofs /\ \A p \in LiveOn(d) : DayOf[p] = d
      BY DEF LiveOn
    <3>3. t \in Tools /\ t.pc = "merge" /\ t.days \subseteq Old /\ t.paths = {d} /\ t.got = LiveOn(d)
      BY <1>2, <2>1, <3>1, <3>2 DEF ToolPlaces
    <3>4. tool' = t
      BY <1>8, <2>3, <3>1 DEF ArchiveLoads
    <3>5. ToolSound'
      BY <2>1, <3>2, <3>3, <3>4 DEF ToolSound
    <3> QED BY <1>1, <3>3, <3>4, <3>5, ToolStep
  <2> QED BY <2>2, <2>3
<1>9. tool' = NoTool \/ ArchiveStarts \/ CleanStarts \/ CleanArchives \/ (ArchiveMerges /\ archive[TheDay].form # "torn")
      \/ \E d \in Days : ArchiveLoads(d) /\ tool' # NoTool
  BY DEF ArchiveMerges, ArchiveEnds, CleanEnds, ToolCrash
<1> QED BY <1>3, <1>4, <1>5, <1>6, <1>7, <1>8, <1>9

LEMMA RewriteInv == ASSUME CreditInv, ArchiveCreates \/ ArchiveCloses PROVE CreditInv'
<1> DEFINE Tools == [pc : ToolPlaces, days : SUBSET Days, got : SUBSET Proofs, paths : SUBSET (Days \cup Proofs)]
           Archives == [form : FileForms, has : SUBSET Proofs]
<1>1. Watched /\ UNCHANGED <<saver, cache, live>> /\ tool.pc \in {"create", "close"}
  BY DEF ArchiveCreates, ArchiveCloses, ToolRests
<1>2. tool \in Tools /\ ToolSound /\ archive \in [Days -> Archives]
  BY DEF CreditInv, StoreTypes
<1>3. PICK d \in Old : tool.paths = {d} /\ \A p \in tool.got : DayOf[p] = d
  BY <1>1, <1>2 DEF ToolSound
<1>4. TheDay = d /\ d \in Days
  BY <1>3, TheDayIs, CreditConstants
<1>5. \E new \in Archives, pc \in {"close", "remove"} :
          /\ tool' = [tool EXCEPT !.pc = pc] /\ archive' = [archive EXCEPT ![d] = new]
          /\ \A p \in new.has : DayOf[p] = d
          /\ new.form # "none" /\ (new.form # "whole" => new.has = {})
          /\ \/ tool.pc = "create" /\ pc = "close" /\ new.form = "torn"
             \/ tool.pc = "close" /\ pc = "remove" /\ new.form = "whole" /\ new.has = tool.got
  <2>1. CASE ArchiveCreates
    <3>1. PICK new : new = [form |-> "torn", has |-> {}]
      OBVIOUS
    <3>2. new \in Archives /\ new.form = "torn" /\ new.has = {}
      BY <3>1 DEF FileForms
    <3> QED BY <1>4, <2>1, <3>1, <3>2 DEF ArchiveCreates
  <2>2. CASE ArchiveCloses
    <3>1. PICK new : new = [form |-> "whole", has |-> tool.got]
      OBVIOUS
    <3>2. new \in Archives /\ new.form = "whole" /\ new.has = tool.got
      BY <1>2, <3>1 DEF FileForms
    <3> QED BY <1>3, <1>4, <2>2, <3>1, <3>2 DEF ArchiveCloses
  <2> QED BY <2>1, <2>2
<1>6. PICK new \in Archives, pc \in {"close", "remove"} :
          /\ tool' = [tool EXCEPT !.pc = pc] /\ archive' = [archive EXCEPT ![d] = new]
          /\ \A p \in new.has : DayOf[p] = d
          /\ new.form # "none" /\ (new.form # "whole" => new.has = {})
          /\ \/ tool.pc = "create" /\ pc = "close" /\ new.form = "torn"
             \/ tool.pc = "close" /\ pc = "remove" /\ new.form = "whole" /\ new.has = tool.got
  BY <1>5
<1>7. /\ tool' \in Tools /\ tool'.pc = pc /\ tool'.days = tool.days /\ tool'.paths = {d} /\ tool'.got = tool.got
      /\ archive' \in [Days -> Archives] /\ archive'[d] = new
      /\ \A e \in Days : e # d => archive'[e] = archive[e]
  BY <1>2, <1>3, <1>4, <1>6 DEF ToolPlaces
<1>8. ToolSound'
  BY <1>1, <1>2, <1>3, <1>6, <1>7 DEF ToolSound
<1>9. ASSUME NEW e \in Days, NEW p \in Proofs, DayOf[p] = e
      PROVE  /\ archive[e].form # "none" => archive'[e].form # "none"
             /\ Archived(e, p) => Archived(e, p)'
  <2>1. CASE e = d
    <3>1. tool.pc = "create" => archive[d].form # "torn" /\ archive[d].has \subseteq tool.got
      BY <1>2, <1>3 DEF ToolSound
    <3>2. tool.pc = "close" => archive[d].form = "torn"
      BY <1>2, <1>3 DEF ToolSound
    <3> QED BY <1>3, <1>6, <1>7, <2>1, <3>1, <3>2 DEF Archived
  <2>2. CASE e # d
    <3>1. archive'[e] = archive[e] /\ tool'.paths # {e}
      BY <1>7, <2>2
    <3> QED BY <3>1 DEF Archived
  <2> QED BY <2>1, <2>2
<1>10. LoadsSound' /\ loading' \in [Readers -> Loads]
  BY <1>1, <1>9, OthersStep
<1>11. \A e \in Days : /\ \A p \in archive'[e].has : DayOf[p] = e
                       /\ archive'[e].form # "whole" => archive'[e].has = {}
  BY <1>6, <1>7 DEF CreditInv, StoreTypes
<1> QED BY <1>1, <1>7, <1>8, <1>10, <1>11 DEF CreditInv, StoreTypes

LEMMA RemoveInv == ASSUME CreditInv, ArchiveRemoves \/ \E p \in Proofs : CleanLive(p) PROVE CreditInv'
<1> DEFINE Tools == [pc : ToolPlaces, days : SUBSET Days, got : SUBSET Proofs, paths : SUBSET (Days \cup Proofs)]
<1>1. Watched /\ UNCHANGED <<saver, cache, archive>>
  BY DEF ArchiveRemoves, CleanLive, ToolRests
<1>2. tool \in Tools /\ ToolSound /\ live \in [Proofs -> FileForms]
  BY DEF CreditInv, StoreTypes
<1>3. \A s : Removed(s) \in [Proofs -> FileForms]
  BY <1>2 DEF Removed, FileForms
<1>4. CASE ArchiveRemoves
  <2>1. PICK t : t = [tool EXCEPT !.pc = "load", !.paths = {}, !.got = {}]
    OBVIOUS
  <2>2. t \in Tools /\ t.pc = "load" /\ t.days = tool.days
    BY <1>2, <2>1 DEF ToolPlaces
  <2>3. tool' = t /\ live' \in [Proofs -> FileForms] /\ tool.pc = "remove"
    BY <1>3, <1>4, <2>1 DEF ArchiveRemoves
  <2>4. ToolSound'
    BY <1>2, <2>2, <2>3 DEF ToolSound
  <2> QED BY <1>1, <2>2, <2>3, <2>4, ToolStep
<1>5. ASSUME NEW p \in Proofs, CleanLive(p) PROVE CreditInv'
  <2>1. live' \in [Proofs -> FileForms]
    BY <1>2, <1>3, <1>5 DEF CleanLive
  <2>2. CASE tool' = NoTool
    BY <1>1, <2>1, <2>2, NoToolSound, ToolStep DEF ToolSound
  <2>3. CASE tool' = [tool EXCEPT !.paths = @ \ {p}]
    <3>1. PICK t : t = [tool EXCEPT !.paths = @ \ {p}]
      OBVIOUS
    <3>2. t \in Tools /\ t.pc = tool.pc /\ t.days = tool.days /\ t.paths \subseteq tool.paths
      BY <1>2, <3>1
    <3>3. tool.pc = "clean"
      BY <1>5 DEF CleanLive
    <3>4. tool' = t
      BY <2>3, <3>1
    <3>5. ToolSound'
      BY <1>2, <3>2, <3>3, <3>4 DEF ToolSound
    <3> QED BY <1>1, <2>1, <3>2, <3>3, <3>4, <3>5, ToolStep
  <2> QED BY <1>5, <2>2, <2>3 DEF CleanLive
<1> QED BY <1>4, <1>5

(* An archive that a clean removes holds only proofs the clean is about to remove. *)
LEMMA CleanArchiveInv == ASSUME CreditInv, NEW d \in Days, CleanArchive(d) PROVE CreditInv'
<1> DEFINE Tools == [pc : ToolPlaces, days : SUBSET Days, got : SUBSET Proofs, paths : SUBSET (Days \cup Proofs)]
           Archives == [form : FileForms, has : SUBSET Proofs]
<1>1. Watched /\ UNCHANGED <<saver, cache, live>> /\ live' \in [Proofs -> FileForms]
  BY DEF CleanArchive, ToolRests, CreditInv, StoreTypes
<1>2. tool \in Tools /\ ToolSound /\ archive \in [Days -> Archives]
  BY DEF CreditInv, StoreTypes
<1>3. CASE archive[d].form = "torn"
  <2>1. UNCHANGED archive /\ tool' = NoTool
    BY <1>3 DEF CleanArchive
  <2> QED BY <1>1, <2>1, NoToolSound, ToolStep DEF ToolSound
<1>4. CASE archive[d].form # "torn"
  <2>1. PICK t : t = [tool EXCEPT !.days = @ \ {d}]
    OBVIOUS
  <2>2. t \in Tools /\ t.pc = tool.pc /\ t.days \subseteq tool.days
    BY <1>2, <2>1
  <2>3. tool' = t /\ tool.pc = "prune" /\ d \in Old /\ archive' = [archive EXCEPT ![d] = NoArchive]
    BY <1>2, <1>4, <2>1 DEF CleanArchive, ToolSound
  <2>4. ToolSound'
    BY <1>2, <2>2, <2>3 DEF ToolSound
  <2>5. NoArchive \in Archives /\ NoArchive.has = {} /\ NoArchive.form = "none"
    BY DEF NoArchive, FileForms
  <2>6. archive' \in [Days -> Archives] /\ archive'[d] = NoArchive /\ \A e \in Days : e # d => archive'[e] = archive[e]
    BY <1>2, <2>3, <2>5
  <2>7. ASSUME NEW e \in Days, NEW p \in Proofs, DayOf[p] = e, p \in OnDisk(live', archive', tool')
        PROVE  /\ archive[e].form # "none" => archive'[e].form # "none"
               /\ Archived(e, p) => Archived(e, p)'
    <3>1. e # d
      BY <2>2, <2>3, <2>7 DEF OnDisk, Doomed
    <3>2. archive'[e] = archive[e] /\ tool'.pc # "close"
      BY <2>2, <2>3, <2>6, <3>1
    <3> QED BY <3>2 DEF Archived
  <2>8. LoadsSound' /\ loading' \in [Readers -> Loads]
    BY <1>1, <2>7, OthersStep
  <2>9. \A e \in Days : /\ \A p \in archive'[e].has : DayOf[p] = e
                        /\ archive'[e].form # "whole" => archive'[e].has = {}
    BY <2>5, <2>6 DEF CreditInv, StoreTypes
  <2> QED BY <1>1, <2>2, <2>3, <2>4, <2>6, <2>8, <2>9 DEF CreditInv, StoreTypes
<1> QED BY <1>3, <1>4

LEMMA ToolInv == ASSUME CreditInv, Tool PROVE CreditInv'
BY ToolReadsInv, RewriteInv, RemoveInv, CleanArchiveInv DEF Tool

(* The steps of a load: only its own place changes. *)
LEMMA OwnStep ==
  ASSUME CreditInv, OnlyReads, NEW r \in Readers, NEW l \in Loads, Others(r, l), LoadSound(l),
         cache' \in [proofs : SUBSET Proofs, dirty : BOOLEAN, age : 0..CacheTTL]
  PROVE  CreditInv'
<1>1. UNCHANGED <<live, archive, saver, tool>>
  BY DEF OnlyReads
<1>2. \A q \in Readers : loading[q] \in Loads /\ LoadSound(loading[q])
  BY DEF CreditInv, StoreTypes, LoadsSound
<1>3. loading' = [[q \in Readers |-> [loading[q] EXCEPT !.steady = @ \cap OnDisk(live, archive, tool)]] EXCEPT ![r] = l]
  BY <1>1 DEF Others, Reading
<1>4. ASSUME NEW q \in Readers, q # r PROVE loading'[q] = loading[q]
  <2>1. loading'[q] = [loading[q] EXCEPT !.steady = @ \cap OnDisk(live, archive, tool)]
    BY <1>3, <1>4
  <2>2. loading[q].steady \cap OnDisk(live, archive, tool) = loading[q].steady
    BY <1>2 DEF LoadSound
  <2>3. loading[q] \in Loads
    BY <1>2
  <2> QED BY <2>1, <2>2, <2>3 DEF Loads
<1>5. loading'[r] = l /\ loading' = [q \in Readers |-> loading'[q]]
  BY <1>3
<1>6. loading' \in [Readers -> Loads]
  BY <1>2, <1>4, <1>5
<1>7. \A q \in Readers : LoadSound(loading'[q])
  BY <1>2, <1>4, <1>5
<1>8. ASSUME NEW q \in Readers PROVE LoadSound(loading[q])'
  <2>1. PICK x : x = loading'[q]
    OBVIOUS
  <2>2. LoadSound(x)
    BY <1>7, <2>1
  <2>3. OnDisk(live', archive', tool') = OnDisk(live, archive, tool)
    BY <1>1
  <2> QED BY <1>1, <2>1, <2>2, <2>3 DEF LoadSound, Archived
<1>9. ToolSound'
  BY <1>1 DEF CreditInv, ToolSound
<1> QED BY <1>1, <1>6, <1>8, <1>9 DEF CreditInv, StoreTypes, LoadsSound

LEMMA LoadInv == ASSUME CreditInv, NEW r \in Readers, LoadProofs(r) PROVE CreditInv'
<1> DEFINE Caches == [proofs : SUBSET Proofs, dirty : BOOLEAN, age : 0..CacheTTL]
<1>1. loading[r] \in Loads /\ LoadSound(loading[r]) /\ cache \in Caches
  BY DEF CreditInv, StoreTypes, LoadsSound
<1>2. \A p \in Proofs : DayOf[p] \in Days
  BY CreditConstants
<1>3. /\ live \in [Proofs -> FileForms] /\ archive \in [Days -> [form : FileForms, has : SUBSET Proofs]]
      /\ tool \in [pc : ToolPlaces, days : SUBSET Days, got : SUBSET Proofs, paths : SUBSET (Days \cup Proofs)]
      /\ \A d \in Days : archive[d].form # "whole" => archive[d].has = {}
  BY DEF CreditInv, StoreTypes
<1>4. PICK b : b = loading[r]
  OBVIOUS
<1>5. b \in Loads /\ LoadSound(b)
  BY <1>1, <1>4
<1>6. "idle" \notin Days /\ "days" \notin Days /\ "list" \notin Days
  BY CreditConstants
<1>7. CASE LoadBegins(r)
  <2>1. PICK l : l = [Resting EXCEPT !.pc = "days", !.days = {d \in Days : LiveOn(d) # {}},
                                     !.steady = OnDisk(live, archive, tool)]
    OBVIOUS
  <2>2. OnDisk(live, archive, tool) \subseteq Proofs
    BY <1>3 DEF OnDisk, Stored
  <2>3. /\ l \in Loads /\ l.pc = "days" /\ l.days = {d \in Days : LiveOn(d) # {}}
        /\ l.steady = OnDisk(live, archive, tool)
    BY <2>1, <2>2, RestingSound DEF Loads
  <2>4. ASSUME NEW p \in l.steady PROVE DayOf[p] \in l.days \/ archive[DayOf[p]].form # "none"
    <3>1. p \in Proofs /\ DayOf[p] \in Days
      BY <1>2, <2>2, <2>3
    <3>2. CASE live[p] = "whole"
      BY <2>3, <3>1, <3>2 DEF LiveOn
    <3>3. CASE p \in Stored(archive)
      BY <3>3 DEF Stored
    <3>4. CASE tool.pc = "close" /\ p \in tool.got
      <4>1. ToolSound /\ Old \subseteq Days
        BY CreditConstants DEF CreditInv
      <4>2. archive[DayOf[p]].form = "torn"
        BY <3>4, <4>1 DEF ToolSound
      <4> QED BY <4>2
    <3> QED BY <2>3, <3>1, <3>2, <3>3, <3>4 DEF OnDisk
  <2>5. LoadSound(l)
    BY <1>6, <2>3, <2>4 DEF LoadSound
  <2> QED BY <1>1, <1>7, <2>1, <2>3, <2>5, OwnStep DEF LoadBegins
<1>8. CASE LoadDays(r)
  <2>1. PICK l : l = [b EXCEPT !.pc = "list", !.days = @ \cup {d \in Days : archive[d].form # "none"}]
    OBVIOUS
  <2>2. /\ l \in Loads /\ l.pc = "list" /\ l.days = b.days \cup {d \in Days : archive[d].form # "none"}
        /\ l.steady = b.steady /\ b.steady \subseteq Proofs
    BY <1>5, <2>1 DEF Loads
  <2>3. b.pc = "days"
    BY <1>4, <1>8 DEF LoadDays
  <2>4. LoadSound(l)
    BY <1>2, <1>5, <1>6, <2>2, <2>3 DEF LoadSound
  <2> QED BY <1>1, <1>4, <1>8, <2>1, <2>2, <2>4, OwnStep DEF LoadDays
<1>9. ASSUME NEW d \in Days, ListDay(r, d) PROVE CreditInv'
  <2>1. PICK l : l = [b EXCEPT !.pc = d, !.names = LiveOn(d)]
    OBVIOUS
  <2>2. LiveOn(d) \subseteq Proofs
    BY DEF LiveOn
  <2>3. /\ l \in Loads /\ l.pc = d /\ l.days = b.days /\ l.names = LiveOn(d) /\ l.found = b.found
        /\ l.steady = b.steady /\ b.steady \subseteq Proofs
    BY <1>5, <2>1, <2>2 DEF Loads
  <2>4. b.pc = "list"
    BY <1>4, <1>9 DEF ListDay
  <2>5. ASSUME NEW p \in l.steady, DayOf[p] = d PROVE p \in l.names \/ Archived(d, p)
    <3>1. p \in Proofs /\ p \in OnDisk(live, archive, tool)
      BY <1>5, <2>3 DEF LoadSound
    <3>2. CASE live[p] = "whole"
      BY <2>3, <2>5, <3>1, <3>2 DEF LiveOn
    <3>3. CASE p \in Stored(archive)
      BY <2>5, <3>3 DEF Stored, Archived
    <3>4. CASE tool.pc = "close" /\ p \in tool.got
      <4>1. ToolSound
        BY DEF CreditInv
      <4>2. archive[d].form = "torn"
        BY <2>5, <3>4, <4>1 DEF ToolSound
      <4> QED BY <3>4, <4>2 DEF Archived
    <3> QED BY <3>1, <3>2, <3>3, <3>4 DEF OnDisk
  <2>6. LoadSound(l)
    BY <1>5, <1>6, <2>3, <2>4, <2>5 DEF LoadSound
  <2> QED BY <1>1, <1>4, <1>9, <2>1, <2>3, <2>6, OwnStep DEF ListDay
<1>10. ASSUME NEW p \in Proofs, LoadFile(r, p) PROVE CreditInv'
  <2>1. CASE live[p] = "whole"
    <3>1. PICK l : l = [b EXCEPT !.names = @ \ {p}, !.found = @ \cup {p}]
      OBVIOUS
    <3>2. /\ l \in Loads /\ l.pc = b.pc /\ l.days = b.days /\ l.names = b.names \ {p} /\ l.found = b.found \cup {p}
          /\ l.steady = b.steady
      BY <1>5, <3>1 DEF Loads
    <3>3. LoadSound(l)
      BY <1>5, <3>2 DEF LoadSound
    <3> QED BY <1>1, <1>4, <1>10, <2>1, <3>1, <3>2, <3>3, OwnStep DEF LoadFile
  <2>2. CASE live[p] # "whole"
    BY <1>1, <1>10, <2>2, RestingSound, OwnStep DEF LoadFile
  <2> QED BY <2>1, <2>2
<1>11. CASE LoadArchive(r)
  <2>1. PICK d : d = b.pc
    OBVIOUS
  <2>2. d \in Days /\ b.names = {} /\ UNCHANGED cache /\ OnlyReads
    BY <1>4, <1>11, <2>1 DEF LoadArchive
  <2>3. CASE archive[d].form = "torn"
    <3>1. Others(r, Resting)
      BY <1>4, <1>11, <2>1, <2>3 DEF LoadArchive
    <3> QED BY <1>1, <2>2, <3>1, RestingSound, OwnStep
  <2>4. CASE archive[d].form # "torn"
    <3>1. PICK l : l = [b EXCEPT !.pc = "list", !.days = @ \ {d}, !.found = @ \cup archive[d].has]
      OBVIOUS
    <3>2. archive[d].has \subseteq Proofs
      BY <1>3, <2>2
    <3>3. /\ l \in Loads /\ l.pc = "list" /\ l.days = b.days \ {d} /\ l.found = b.found \cup archive[d].has
          /\ l.steady = b.steady
      BY <1>5, <3>1, <3>2 DEF Loads
    <3>4. \A p \in b.steady : DayOf[p] = d => p \in b.found \/ p \in archive[d].has
      BY <1>5, <2>1, <2>2, <2>4 DEF LoadSound, Archived
    <3>5. \A p \in b.steady : p \in b.found \/ DayOf[p] \in b.days
      BY <1>5, <1>6, <2>1, <2>2 DEF LoadSound
    <3>6. \A p \in l.steady : p \in l.found \/ DayOf[p] \in l.days
      BY <3>3, <3>4, <3>5
    <3>7. l.steady \subseteq OnDisk(live, archive, tool)
      BY <1>5, <3>3 DEF LoadSound
    <3>8. LoadSound(l)
      BY <1>6, <3>3, <3>6, <3>7 DEF LoadSound
    <3>9. Others(r, l)
      BY <1>4, <1>11, <2>1, <2>4, <3>1 DEF LoadArchive
    <3> QED BY <1>1, <2>2, <3>3, <3>8, <3>9, OwnStep
  <2> QED BY <2>3, <2>4
<1>12. CASE StoreCache(r)
  <2>1. PICK new : new = [proofs |-> b.found, dirty |-> FALSE, age |-> 0]
    OBVIOUS
  <2>2. CacheTTL \in Nat
    BY CreditConstants
  <2>3. 0 \in 0..CacheTTL
    BY <2>2
  <2>4. new \in Caches
    BY <1>5, <2>1, <2>3 DEF Loads
  <2>5. cache' = cache \/ cache' = new
    BY <1>4, <1>12, <2>1 DEF StoreCache
  <2> QED BY <1>1, <1>12, <2>4, <2>5, RestingSound, OwnStep DEF StoreCache
<1> QED BY <1>7, <1>8, <1>9, <1>10, <1>11, <1>12 DEF LoadProofs

LEMMA PassesInv == ASSUME CreditInv, Passes PROVE CreditInv'
<1>1. UNCHANGED <<live, archive, saver, tool>> /\ Watched
  BY DEF Passes
<1>2. cache' \in [proofs : SUBSET Proofs, dirty : BOOLEAN, age : 0..CacheTTL]
  <2>1. cache \in [proofs : SUBSET Proofs, dirty : BOOLEAN, age : 0..CacheTTL] /\ CacheTTL \in Nat
    BY CreditConstants DEF CreditInv, StoreTypes
  <2>2. cache.age + 1 \in 0..CacheTTL
    BY <2>1 DEF Passes
  <2> QED BY <2>1, <2>2 DEF Passes
<1> QED BY <1>1, <1>2, OnlyLiveStep DEF CreditInv, StoreTypes

LEMMA DaemonCrashInv == ASSUME CreditInv, DaemonCrash PROVE CreditInv'
<1>1. UNCHANGED <<live, archive, tool>> /\ saver' = [g \in Savers |-> "idle"] /\ cache' = NoCache
      /\ loading' = [r \in Readers |-> Resting]
  BY DEF DaemonCrash
<1>2. CacheTTL \in 0..CacheTTL
  BY CreditConstants
<1>3. cache' \in [proofs : SUBSET Proofs, dirty : BOOLEAN, age : 0..CacheTTL]
  BY <1>1, <1>2 DEF NoCache
<1>4. loading' \in [Readers -> Loads]
  BY <1>1, RestingSound
<1>5. ASSUME NEW r \in Readers PROVE LoadSound(loading[r])'
  <2>1. PICK x : x = loading'[r]
    OBVIOUS
  <2>2. x.pc = "idle" /\ x.steady = {}
    BY <1>1, <2>1, RestingSound
  <2> QED BY <2>1, <2>2, CreditConstants DEF LoadSound
<1>6. ToolSound'
  BY <1>1 DEF CreditInv, ToolSound
<1> QED BY <1>1, <1>3, <1>4, <1>5, <1>6 DEF CreditInv, StoreTypes, LoadsSound

LEMMA CreditInitInv == CreditInit => CreditInv
<1> SUFFICES ASSUME CreditInit PROVE CreditInv
  OBVIOUS
<1>1. CacheTTL \in 0..CacheTTL /\ DayOf \in [Proofs -> Days]
  BY CreditConstants
<1>2. NoCache \in [proofs : SUBSET Proofs, dirty : BOOLEAN, age : 0..CacheTTL]
  BY <1>1 DEF NoCache
<1>3. NoArchive \in [form : FileForms, has : SUBSET Proofs] /\ NoArchive.has = {}
  BY DEF NoArchive, FileForms
<1>4. StoreTypes
  BY <1>2, <1>3, NoToolSound, RestingSound DEF CreditInit, StoreTypes, FileForms
<1>5. ToolSound
  BY NoToolSound DEF CreditInit, ToolSound
<1>6. LoadsSound
  BY RestingSound DEF CreditInit, LoadsSound
<1> QED BY <1>4, <1>5, <1>6 DEF CreditInv

(* The proofs of the credit store, its archives and every load in progress stay in step. *)
THEOREM CreditInvariant == CreditSpec => []CreditInv
<1>1. CreditInv /\ [CreditNext]_creditvars => CreditInv'
  <2> SUFFICES ASSUME CreditInv, [CreditNext]_creditvars PROVE CreditInv'
    OBVIOUS
  <2>1. CASE UNCHANGED creditvars
    BY <2>1 DEF creditvars, CreditInv, StoreTypes, ToolSound, LoadsSound, LoadSound, Archived, OnDisk, Stored, Doomed
  <2>2. CASE CreditNext
    BY <2>2, SaveInv, ToolInv, PassesInv, DaemonCrashInv, LoadInv DEF CreditNext
  <2> QED BY <2>1, <2>2
<1> QED BY <1>1, CreditInitInv, PTL DEF CreditSpec

(* The types of the credit store. *)
THEOREM CreditTypes == CreditSpec => []CreditTypeOK
<1>1. CreditInv => CreditTypeOK
  <2> SUFFICES ASSUME CreditInv PROVE CreditTypeOK
    OBVIOUS
  <2>1. StoreTypes
    BY DEF CreditInv
  <2>2. \A r \in Readers : loading[r].found \cup loading[r].names \cup loading[r].steady \subseteq Proofs
    BY <2>1 DEF StoreTypes, Loads
  <2> QED BY <2>1, <2>2 DEF CreditTypeOK, StoreTypes, FileForms
<1> QED BY <1>1, CreditInvariant, PTL

(* ReadsMissNothing: a load that ends has found every proof that was on disk all the while,
   whatever the tool moved meanwhile. *)
THEOREM ReadsMissNothingHolds == CreditSpec => []ReadsMissNothing
<1>1. CreditInv => ReadsMissNothing
  <2> SUFFICES ASSUME CreditInv, NEW r \in Readers, loading[r].pc = "list", loading[r].days = {}
               PROVE  loading[r].steady \subseteq loading[r].found
    BY DEF ReadsMissNothing
  <2> QED BY DEF CreditInv, LoadsSound, LoadSound
<1> QED BY <1>1, CreditInvariant, PTL

-----------------------------------------------------------------------------
(* The place of k among the kept ones. *)
PlaceIn(kept, k) == Cardinality({j \in kept : j <= k})

(* The places of a finite set of numbers: the first is 1, no two agree, none is left out. *)
LEMMA PlacesOfSet ==
  ASSUME NEW kept, IsFiniteSet(kept), kept \subseteq Int
  PROVE  /\ Cardinality(kept) \in Nat
         /\ \A k \in kept : PlaceIn(kept, k) \in 1..Cardinality(kept)
         /\ \A k, j \in kept : PlaceIn(kept, k) = PlaceIn(kept, j) => k = j
         /\ \A n \in 1..Cardinality(kept) : \E k \in kept : PlaceIn(kept, k) = n
<1> DEFINE place == [k \in kept |-> Cardinality({j \in kept : j <= k})]
<1> DEFINE upto(k) == {j \in kept : j <= k}
<1>1. Cardinality(kept) \in Nat
  BY FS_CardinalityType
<1>2. ASSUME NEW k \in kept
      PROVE  IsFiniteSet(upto(k)) /\ Cardinality(upto(k)) \in Nat /\ Cardinality(upto(k)) <= Cardinality(kept)
  <2>1. upto(k) \in SUBSET kept
    OBVIOUS
  <2>2. IsFiniteSet(upto(k)) /\ Cardinality(upto(k)) <= Cardinality(kept)
    BY <2>1, FS_Subset
  <2> QED BY <2>2, FS_CardinalityType
<1>3. ASSUME NEW k \in kept PROVE place[k] \in 1..Cardinality(kept)
  <2>1. k \in upto(k)
    OBVIOUS
  <2>2. Cardinality(upto(k)) # 0
    BY <1>2, <2>1, FS_EmptySet
  <2> HIDE DEF upto
  <2>3. Cardinality(upto(k)) \in 1..Cardinality(kept)
    BY <1>1, <1>2, <2>2
  <2> QED BY <2>3 DEF upto
<1>4. ASSUME NEW k \in kept, NEW j \in kept, j < k PROVE place[j] < place[k]
  <2>1. upto(j) \in SUBSET upto(k) /\ k \in upto(k) /\ k \notin upto(j)
    <3>1. \A i \in kept : i \in Int
      OBVIOUS
    <3>2. \A i \in kept : i <= j => i <= k
      BY <1>4, <3>1
    <3>3. k <= k /\ ~(k <= j)
      BY <1>4, <3>1
    <3> QED BY <3>2, <3>3
  <2>2. upto(j) # upto(k)
    BY <2>1
  <2>3. Cardinality(upto(j)) <= Cardinality(upto(k)) /\ Cardinality(upto(j)) # Cardinality(upto(k))
    <3> HIDE DEF upto
    <3> QED BY <1>2, <2>1, <2>2, FS_Subset
  <2>4. place[j] = Cardinality(upto(j)) /\ place[k] = Cardinality(upto(k))
    OBVIOUS
  <2> HIDE DEF upto
  <2> QED BY <1>2, <2>3, <2>4
<1>5. \A k, j \in kept : place[k] = place[j] => k = j
  <2> SUFFICES ASSUME NEW k \in kept, NEW j \in kept, place[k] = place[j] PROVE k = j
    OBVIOUS
  <2>1. place[k] \in Int /\ place[j] \in Int /\ k \in Int /\ j \in Int
    BY <1>1, <1>3
  <2>2. ~(j < k) /\ ~(k < j)
    BY <1>4, <2>1
  <2> QED BY <2>1, <2>2
<1>6. \A n \in 1..Cardinality(kept) : \E k \in kept : place[k] = n
  <2> DEFINE T == 1..Cardinality(kept)
  <2>1. IsFiniteSet(T) /\ Cardinality(T) = Cardinality(kept)
    <3>1. IsFiniteSet(T) /\ Cardinality(T) = IF 1 > Cardinality(kept) THEN 0 ELSE Cardinality(kept) - 1 + 1
      BY <1>1, FS_Interval
    <3> QED BY <1>1, <3>1
  <2>2. place \in Injection(kept, T)
    BY <1>3, <1>5 DEF Injection, IsInjective
  <2> HIDE DEF T
  <2>3. place \in Surjection(kept, T)
    BY <2>1, <2>2, FS_Injection
  <2> QED BY <2>3 DEF Surjection, T
<1>7. \A k \in kept : PlaceIn(kept, k) = place[k]
  BY DEF PlaceIn
<1> HIDE DEF place
<1> QED BY <1>1, <1>3, <1>5, <1>6, <1>7

Exactly(s, e) == \E k \in DOMAIN s : s[k] = e /\ \A j \in DOMAIN s : s[j] = e => j = k

(* The trim keeps the sequence a sequence of events and leaves everything that is not a
   heartbeat where it was, once. *)
LEMMA RetainedKeeps ==
  ASSUME NEW s \in Seq(Events)
  PROVE  /\ Retained(s) \in Seq(Events)
         /\ \A e \in Events \ Heartbeats : Exactly(s, e) => Exactly(Retained(s), e)
<1> DEFINE kept == {k \in DOMAIN s : s[k] \in Heartbeats => LaterBeats(s, k) < KeepHeartbeats}
           N == Cardinality(kept)
           from(n) == CHOOSE k \in kept : PlaceIn(kept, k) = n
<1>1. DOMAIN s = 1..Len(s) /\ Len(s) \in Nat
  OBVIOUS
<1>2. IsFiniteSet(kept) /\ kept \subseteq Int /\ kept \subseteq DOMAIN s
  <2>1. IsFiniteSet(1..Len(s))
    BY <1>1, FS_Interval
  <2>2. kept \in SUBSET (1..Len(s))
    BY <1>1
  <2>3. IsFiniteSet(kept)
    BY <2>1, <2>2, FS_Subset
  <2> QED BY <1>1, <2>2, <2>3
<1>5. Retained(s) = [n \in 1..N |-> s[from(n)]]
  BY DEF Retained, PlaceIn
<1>6. /\ N \in Nat
      /\ \A k \in kept : PlaceIn(kept, k) \in 1..N
      /\ \A k, j \in kept : PlaceIn(kept, k) = PlaceIn(kept, j) => k = j
      /\ \A n \in 1..N : \E k \in kept : PlaceIn(kept, k) = n
  <2> HIDE DEF kept
  <2> QED BY <1>2, PlacesOfSet
<1>7. \A n \in 1..N : from(n) \in kept /\ PlaceIn(kept, from(n)) = n
  <2> HIDE DEF kept, N
  <2> QED BY <1>6
<1>8. ASSUME NEW k \in DOMAIN s, s[k] \notin Heartbeats PROVE k \in kept
  BY <1>8
<1> HIDE DEF kept, N, from
<1>9. Retained(s) \in [1..N -> Events]
  <2>1. \A k \in DOMAIN s : s[k] \in Events
    BY <1>1, ElementOfSeq
  <2>2. \A n \in 1..N : s[from(n)] \in Events
    BY <1>2, <1>7, <2>1
  <2> QED BY <1>5, <2>2
<1>10. Retained(s) \in Seq(Events)
  BY <1>6, <1>9, SeqDef
<1>11. ASSUME NEW e \in Events \ Heartbeats, Exactly(s, e) PROVE Exactly(Retained(s), e)
  <2>1. PICK k \in DOMAIN s : s[k] = e /\ \A j \in DOMAIN s : s[j] = e => j = k
    BY <1>11 DEF Exactly
  <2>2. k \in kept /\ PlaceIn(kept, k) \in 1..N
    BY <1>6, <1>8, <1>11, <2>1
  <2>3. from(PlaceIn(kept, k)) = k
    BY <1>6, <1>7, <2>2
  <2>4. ASSUME NEW n \in 1..N, Retained(s)[n] = e PROVE n = PlaceIn(kept, k)
    <3>1. s[from(n)] = e /\ from(n) \in DOMAIN s
      BY <1>2, <1>5, <1>7, <2>4
    <3>2. from(n) = k
      BY <2>1, <3>1
    <3> QED BY <1>7, <3>2
  <2>5. Retained(s)[PlaceIn(kept, k)] = e /\ DOMAIN Retained(s) = 1..N
    BY <1>5, <2>1, <2>2, <2>3
  <2> QED BY <2>2, <2>4, <2>5 DEF Exactly
<1> QED BY <1>10, <1>11

(* The places of a writer; then the conjuncts of the inductive invariant. *)
Steps == {"idle", "room", "append", "prune", "refresh", "drop"}
LiveTypes ==
    /\ events \in Seq(Events) /\ cached \in Seq(Events) /\ page \in [Pages -> Seq(Events)]
    /\ record \in [info : {"none", "placeholder", "announced"}, count : Nat]
    /\ lock \in Writers \cup {Nobody} /\ appended \subseteq Events /\ uncounted \in BOOLEAN
    /\ writer \in [Writers -> [pc : Steps, event : Events \cup {"none"}]]
    /\ \A w \in Writers : writer[w].pc = "append" \/ writer[w].pc = "room" => writer[w].event \in Events
Holding == \A w \in Writers : lock = w <=> writer[w].pc \in {"prune", "refresh", "drop"}
NoneCached == ~redis => cached = <<>> /\ \A p \in Pages : page[p] = <<>>
Once == ~redis => \A e \in appended \ Heartbeats : Exactly(events, e)
Counted ==
    ~redis /\ ~uncounted /\ (\A w \in Writers : writer[w].pc \notin {"prune", "refresh"}) =>
        record.count = CountOf(events)
LiveInv == LiveTypes /\ Holding /\ NoneCached /\ Once /\ Counted

LEMMA CountIsNat == ASSUME NEW s \in Seq(Events) PROVE CountOf(s) \in Nat
<1>1. DOMAIN s = 1..Len(s) /\ Len(s) \in Nat
  OBVIOUS
<1>2. IsFiniteSet(1..Len(s)) /\ {k \in DOMAIN s : s[k] \notin Heartbeats} \in SUBSET (1..Len(s))
  BY <1>1, FS_Interval
<1>3. IsFiniteSet({k \in DOMAIN s : s[k] \notin Heartbeats})
  BY <1>2, FS_Subset
<1> QED BY <1>3, FS_CardinalityType DEF CountOf

LEMMA ListReadIs == ASSUME LiveInv
  PROVE  /\ ListRead \in Seq(Events) /\ (~redis => ListRead = events)
         /\ (LeftBehind => cached' \in Seq(Events) /\ (~redis => cached' = <<>>))
BY EmptySeq DEF ListRead, LeftBehind, LiveInv, LiveTypes

(* One writer changes place. *)
LEMMA WriterMoves ==
  ASSUME LiveInv, NEW w \in Writers, NEW r \in [pc : Steps, event : Events \cup {"none"}],
         writer' = [writer EXCEPT ![w] = r], r.pc \in {"append", "room"} => r.event \in Events
  PROVE  /\ writer' \in [Writers -> [pc : Steps, event : Events \cup {"none"}]]
         /\ \A v \in Writers : writer'[v].pc = "append" \/ writer'[v].pc = "room" => writer'[v].event \in Events
         /\ writer'[w] = r /\ \A v \in Writers : v # w => writer'[v] = writer[v]
BY DEF LiveInv, LiveTypes

LEMMA WaitingIs == Waiting \in [pc : Steps, event : Events \cup {"none"}] /\ Waiting.pc = "idle"
BY DEF Waiting, Steps

(* The steps that leave the file, the index and the lock alone. *)
LEMMA ReceiveInv == ASSUME LiveInv, NEW w \in Writers, NEW e \in Events, Receive(w, e) PROVE LiveInv'
<1>1. PICK r : r = [pc |-> IF record = NoRoom THEN "room" ELSE "append", event |-> e]
  OBVIOUS
<1>2. r \in [pc : Steps, event : Events \cup {"none"}] /\ r.pc \in {"room", "append"} /\ r.event = e
  BY <1>1 DEF Steps
<1>3. writer' = [writer EXCEPT ![w] = r] /\ writer[w].pc = "idle"
      /\ UNCHANGED <<redis, events, record, cached, lock, page, appended, uncounted>>
  BY <1>1 DEF Receive, Waiting
<1>4. /\ writer' \in [Writers -> [pc : Steps, event : Events \cup {"none"}]]
      /\ \A v \in Writers : writer'[v].pc = "append" \/ writer'[v].pc = "room" => writer'[v].event \in Events
      /\ writer'[w] = r /\ \A v \in Writers : v # w => writer'[v] = writer[v]
  BY <1>2, <1>3, WriterMoves
<1>5. Holding' /\ NoneCached' /\ Once' /\ Counted'
  BY <1>2, <1>3, <1>4 DEF LiveInv, Holding, NoneCached, Once, Counted
<1> QED BY <1>3, <1>4, <1>5 DEF LiveInv, LiveTypes

LEMMA RoomInv == ASSUME LiveInv, SaveRoomAuthoritative \/ \E w \in Writers : SaveRoom(w) PROVE LiveInv'
<1>1. UNCHANGED <<redis, events, cached, lock, page, appended, uncounted>> /\ record'.count = record.count
      /\ record' \in [info : {"none", "placeholder", "announced"}, count : Nat]
  BY DEF SaveRoomAuthoritative, SaveRoom, LiveInv, LiveTypes
<1>2. /\ writer' \in [Writers -> [pc : Steps, event : Events \cup {"none"}]]
      /\ \A v \in Writers : writer'[v].pc = "append" \/ writer'[v].pc = "room" => writer'[v].event \in Events
      /\ \A v \in Writers : \/ writer'[v].pc = writer[v].pc
                            \/ {writer'[v].pc, writer[v].pc} \cap {"prune", "refresh", "drop"} = {}
  <2>1. CASE SaveRoomAuthoritative
    BY <2>1 DEF SaveRoomAuthoritative, LiveInv, LiveTypes
  <2>2. ASSUME NEW w \in Writers, SaveRoom(w)
        PROVE  /\ writer' \in [Writers -> [pc : Steps, event : Events \cup {"none"}]]
               /\ \A v \in Writers : writer'[v].pc = "append" \/ writer'[v].pc = "room" => writer'[v].event \in Events
               /\ \A v \in Writers : \/ writer'[v].pc = writer[v].pc
                                     \/ {writer'[v].pc, writer[v].pc} \cap {"prune", "refresh", "drop"} = {}
    <3>1. PICK r : r = [writer[w] EXCEPT !.pc = "append"]
      OBVIOUS
    <3>2. writer[w] \in [pc : Steps, event : Events \cup {"none"}] /\ writer[w].pc = "room" /\ writer[w].event \in Events
      BY <2>2 DEF SaveRoom, LiveInv, LiveTypes
    <3>3. r \in [pc : Steps, event : Events \cup {"none"}] /\ r.pc = "append" /\ r.event \in Events
      BY <3>1, <3>2 DEF Steps
    <3>4. writer' = [writer EXCEPT ![w] = r]
      BY <2>2, <3>1 DEF SaveRoom, Proceed
    <3>5. /\ writer' \in [Writers -> [pc : Steps, event : Events \cup {"none"}]]
          /\ \A v \in Writers : writer'[v].pc = "append" \/ writer'[v].pc = "room" => writer'[v].event \in Events
          /\ writer'[w] = r /\ \A v \in Writers : v # w => writer'[v] = writer[v]
      BY <3>3, <3>4, WriterMoves
    <3> QED BY <3>2, <3>3, <3>5
  <2> QED BY <2>1, <2>2
<1>3. Holding' /\ NoneCached' /\ Once' /\ Counted'
  BY <1>1, <1>2 DEF LiveInv, Holding, NoneCached, Once, Counted
<1> QED BY <1>1, <1>2, <1>3 DEF LiveInv, LiveTypes

LEMMA PagesInv == ASSUME LiveInv, Expire \/ \E p \in Pages : ReadEvents(p) \/ LeaveInRedis(p) PROVE LiveInv'
<1>1. UNCHANGED <<redis, events, record, lock, writer, appended, uncounted>>
  BY DEF Expire, ReadEvents, LeaveInRedis
<1>2. <<>> \in Seq(Events)
  BY EmptySeq
<1>3. cached' \in Seq(Events) /\ page' \in [Pages -> Seq(Events)] /\ NoneCached'
  <2>0. /\ events \in Seq(Events) /\ cached \in Seq(Events) /\ page \in [Pages -> Seq(Events)] /\ redis' = redis
        /\ ~redis => cached = <<>> /\ \A p \in Pages : page[p] = <<>>
    BY <1>1 DEF LiveInv, LiveTypes, NoneCached
  <2>1. CASE Expire
    <3>1. redis /\ cached' = <<>> /\ page' = page
      BY <2>0, <2>1 DEF Expire
    <3> QED BY <1>2, <2>0, <3>1 DEF NoneCached
  <2>2. ASSUME NEW p \in Pages, ReadEvents(p) PROVE cached' \in Seq(Events) /\ page' \in [Pages -> Seq(Events)] /\ NoneCached'
    <3>1. redis /\ cached' = cached /\ page' = [page EXCEPT ![p] = events]
      BY <2>2 DEF ReadEvents
    <3> QED BY <2>0, <3>1 DEF NoneCached
  <2>3. ASSUME NEW p \in Pages, LeaveInRedis(p) PROVE cached' \in Seq(Events) /\ page' \in [Pages -> Seq(Events)] /\ NoneCached'
    <3>1. redis /\ cached' = page[p] /\ page' = [page EXCEPT ![p] = <<>>]
      BY <2>0, <2>3 DEF LeaveInRedis
    <3> QED BY <1>2, <2>0, <3>1 DEF NoneCached
  <2> QED BY <2>1, <2>2, <2>3
<1>4. Holding' /\ Once' /\ Counted'
  BY <1>1 DEF LiveInv, Holding, Once, Counted
<1> QED BY <1>1, <1>3, <1>4 DEF LiveInv, LiveTypes

(* The steps of a writer under the lock. *)
LEMMA AppendInv == ASSUME LiveInv, NEW w \in Writers, AppendEvent(w) PROVE LiveInv'
<1> DEFINE e == writer[w].event
           There == \E k \in DOMAIN events : events[k] = e
<1>1. writer[w] \in [pc : Steps, event : Events \cup {"none"}] /\ writer[w].pc = "append" /\ e \in Events /\ lock = Nobody
  BY DEF AppendEvent, Free, LiveInv, LiveTypes
<1>2. UNCHANGED <<redis, record, cached, page, uncounted>>
  BY DEF AppendEvent
<1>3. CASE There
  <2>1. writer' = [writer EXCEPT ![w] = Waiting] /\ UNCHANGED <<events, lock, appended>>
    BY <1>3 DEF AppendEvent, Rest
  <2>2. /\ writer' \in [Writers -> [pc : Steps, event : Events \cup {"none"}]]
        /\ \A v \in Writers : writer'[v].pc = "append" \/ writer'[v].pc = "room" => writer'[v].event \in Events
        /\ writer'[w] = Waiting /\ \A v \in Writers : v # w => writer'[v] = writer[v]
    BY <2>1, WaitingIs, WriterMoves
  <2>3. Holding' /\ NoneCached' /\ Once' /\ Counted'
    BY <1>1, <1>2, <2>1, <2>2, WaitingIs DEF LiveInv, Holding, NoneCached, Once, Counted
  <2> QED BY <1>2, <2>1, <2>2, <2>3 DEF LiveInv, LiveTypes
<1>4. CASE ~There
  <2>1. PICK r : r = [writer[w] EXCEPT !.pc = "prune"]
    OBVIOUS
  <2>2. r \in [pc : Steps, event : Events \cup {"none"}] /\ r.pc = "prune"
    BY <1>1, <2>1 DEF Steps
  <2>3. writer' = [writer EXCEPT ![w] = r] /\ lock' = w /\ events' = Append(events, e) /\ appended' = appended \cup {e}
    BY <1>4, <2>1 DEF AppendEvent, Proceed
  <2>4. /\ writer' \in [Writers -> [pc : Steps, event : Events \cup {"none"}]]
        /\ \A v \in Writers : writer'[v].pc = "append" \/ writer'[v].pc = "room" => writer'[v].event \in Events
        /\ writer'[w] = r /\ \A v \in Writers : v # w => writer'[v] = writer[v]
    BY <2>2, <2>3, WriterMoves
  <2>5. Holding'
    BY <1>1, <2>2, <2>3, <2>4, LiveConstants DEF LiveInv, Holding
  <2>6. events \in Seq(Events) /\ DOMAIN events = 1..Len(events) /\ Len(events) \in Nat
    BY DEF LiveInv, LiveTypes
  <2>7. /\ events' \in Seq(Events) /\ DOMAIN events' = 1..(Len(events) + 1)
        /\ events'[Len(events) + 1] = e /\ \A k \in DOMAIN events : events'[k] = events[k]
    <3> HIDE DEF e
    <3> QED BY <1>1, <2>3, <2>6
  <2>8. /\ Len(events) + 1 \in DOMAIN events'
        /\ \A k \in DOMAIN events' : k = Len(events) + 1 \/ k \in DOMAIN events
        /\ \A k \in DOMAIN events : k \in DOMAIN events' /\ k # Len(events) + 1
    BY <2>6, <2>7
  <2>9. ASSUME ~redis, NEW x \in appended' \ Heartbeats PROVE Exactly(events', x)
    <3> HIDE DEF e
    <3>1. CASE x = e
      <4>1. \A k \in DOMAIN events' : events'[k] = e => k = Len(events) + 1
        BY <1>4, <2>7, <2>8
      <4> QED BY <2>7, <2>8, <3>1, <4>1 DEF Exactly
    <3>2. CASE x # e
      <4>1. Exactly(events, x)
        BY <2>3, <2>9, <3>2 DEF LiveInv, Once
      <4>2. PICK k \in DOMAIN events : events[k] = x /\ \A j \in DOMAIN events : events[j] = x => j = k
        BY <4>1 DEF Exactly
      <4>3. k \in DOMAIN events' /\ events'[k] = x
        BY <2>7, <2>8, <4>2
      <4>4. \A j \in DOMAIN events' : events'[j] = x => j = k
        BY <2>7, <2>8, <3>2, <4>2
      <4> QED BY <4>3, <4>4 DEF Exactly
    <3> QED BY <3>1, <3>2
  <2>10. NoneCached' /\ Once' /\ Counted'
    BY <1>2, <2>2, <2>4, <2>9 DEF LiveInv, NoneCached, Once, Counted
  <2>11. appended' \subseteq Events /\ lock' \in Writers \cup {Nobody}
    BY <1>1, <2>3 DEF LiveInv, LiveTypes
  <2> QED BY <1>2, <2>4, <2>5, <2>7, <2>10, <2>11 DEF LiveInv, LiveTypes
<1> QED BY <1>3, <1>4

LEMMA PruneInv == ASSUME LiveInv, NEW w \in Writers, PruneRoomEvents(w) PROVE LiveInv'
<1>1. writer[w] \in [pc : Steps, event : Events \cup {"none"}] /\ writer[w].pc = "prune"
  BY DEF PruneRoomEvents, LiveInv, LiveTypes
<1>2. UNCHANGED <<redis, record, lock, page, appended, uncounted>>
  BY DEF PruneRoomEvents
<1>3. cached' \in Seq(Events) /\ (~redis => cached' = <<>>)
  BY ListReadIs DEF PruneRoomEvents
<1>4. events' = events \/ events' = Retained(ListRead)
  BY DEF PruneRoomEvents
<1>5. events' \in Seq(Events)
  BY <1>4, ListReadIs, RetainedKeeps DEF LiveInv, LiveTypes
<1>6. ASSUME ~redis, NEW x \in appended \ Heartbeats PROVE Exactly(events', x)
  <2>1. events \in Seq(Events) /\ Exactly(events, x) /\ x \in Events
    BY <1>6 DEF LiveInv, LiveTypes, Once
  <2>2. events' = events \/ events' = Retained(events)
    BY <1>4, <1>6, ListReadIs
  <2> QED BY <1>6, <2>1, <2>2, RetainedKeeps
<1>7. PICK r : r = [writer[w] EXCEPT !.pc = "refresh"]
  OBVIOUS
<1>8. r \in [pc : Steps, event : Events \cup {"none"}] /\ r.pc = "refresh" /\ writer' = [writer EXCEPT ![w] = r]
  BY <1>1, <1>7 DEF Steps, PruneRoomEvents, Proceed
<1>9. /\ writer' \in [Writers -> [pc : Steps, event : Events \cup {"none"}]]
      /\ \A v \in Writers : writer'[v].pc = "append" \/ writer'[v].pc = "room" => writer'[v].event \in Events
      /\ writer'[w] = r /\ \A v \in Writers : v # w => writer'[v] = writer[v]
  BY <1>8, WriterMoves
<1>10. Holding' /\ NoneCached' /\ Once' /\ Counted'
  BY <1>1, <1>2, <1>3, <1>6, <1>8, <1>9 DEF LiveInv, Holding, NoneCached, Once, Counted
<1> QED BY <1>2, <1>3, <1>5, <1>9, <1>10 DEF LiveInv, LiveTypes

LEMMA RefreshInv == ASSUME LiveInv, NEW w \in Writers, RefreshRoomIndex(w) PROVE LiveInv'
<1>1. writer[w] \in [pc : Steps, event : Events \cup {"none"}] /\ writer[w].pc = "refresh"
  BY DEF RefreshRoomIndex, LiveInv, LiveTypes
<1>2. UNCHANGED <<redis, events, lock, page, appended>> /\ uncounted' = FALSE
  BY DEF RefreshRoomIndex
<1>3. cached' \in Seq(Events) /\ (~redis => cached' = <<>>)
  BY ListReadIs DEF RefreshRoomIndex
<1>4. record' = [record EXCEPT !.count = CountOf(ListRead)] /\ CountOf(ListRead) \in Nat
  BY ListReadIs, CountIsNat DEF RefreshRoomIndex
<1>5. record' \in [info : {"none", "placeholder", "announced"}, count : Nat]
      /\ (~redis => record'.count = CountOf(events))
  BY <1>4, ListReadIs DEF LiveInv, LiveTypes
<1>6. CountOf(events)' = CountOf(events)
  BY <1>2 DEF CountOf
<1>7. PICK r : r = [writer[w] EXCEPT !.pc = "drop"]
  OBVIOUS
<1>8. r \in [pc : Steps, event : Events \cup {"none"}] /\ r.pc = "drop" /\ writer' = [writer EXCEPT ![w] = r]
  BY <1>1, <1>7 DEF Steps, RefreshRoomIndex, Proceed
<1>9. /\ writer' \in [Writers -> [pc : Steps, event : Events \cup {"none"}]]
      /\ \A v \in Writers : writer'[v].pc = "append" \/ writer'[v].pc = "room" => writer'[v].event \in Events
      /\ writer'[w] = r /\ \A v \in Writers : v # w => writer'[v] = writer[v]
  BY <1>8, WriterMoves
<1>10. Holding' /\ NoneCached' /\ Once' /\ Counted'
  BY <1>1, <1>2, <1>3, <1>5, <1>6, <1>8, <1>9 DEF LiveInv, Holding, NoneCached, Once, Counted
<1> QED BY <1>2, <1>3, <1>5, <1>9, <1>10 DEF LiveInv, LiveTypes

(* The lock goes back: with the index right, or with the stop remembered. *)
LEMMA LeaveInv == ASSUME LiveInv, NEW w \in Writers, DropCached(w) \/ StopWriter(w) PROVE LiveInv'
<1>1. UNCHANGED <<redis, events, record, page, appended>> /\ writer' = [writer EXCEPT ![w] = Waiting]
  BY DEF DropCached, StopWriter, Rest
<1>2. <<>> \in Seq(Events)
  BY EmptySeq
<1>3. cached' \in Seq(Events) /\ NoneCached'
  BY <1>1, <1>2 DEF DropCached, StopWriter, LiveInv, LiveTypes, NoneCached
<1>4. lock' = IF lock = w THEN Nobody ELSE lock
  BY DEF DropCached, StopWriter, LiveInv, Holding
<1>5. uncounted' \in BOOLEAN /\ (uncounted \/ writer[w].pc \in {"prune", "refresh"} => uncounted')
  BY DEF DropCached, StopWriter, LiveInv, LiveTypes
<1>6. /\ writer' \in [Writers -> [pc : Steps, event : Events \cup {"none"}]]
      /\ \A v \in Writers : writer'[v].pc = "append" \/ writer'[v].pc = "room" => writer'[v].event \in Events
      /\ writer'[w] = Waiting /\ \A v \in Writers : v # w => writer'[v] = writer[v]
  BY <1>1, WaitingIs, WriterMoves
<1>7. lock' \in Writers \cup {Nobody}
  BY <1>4 DEF LiveInv, LiveTypes
<1>8. Holding'
  BY <1>4, <1>6, WaitingIs, LiveConstants DEF LiveInv, Holding
<1>9. Once'
  BY <1>1 DEF LiveInv, Once
<1>10. Counted'
  <2> SUFFICES ASSUME ~redis', ~uncounted', \A v \in Writers : writer'[v].pc \notin {"prune", "refresh"}
               PROVE  record'.count = CountOf(events)'
    BY DEF Counted
  <2>1. ~redis /\ ~uncounted /\ \A v \in Writers : writer[v].pc \notin {"prune", "refresh"}
    BY <1>1, <1>5, <1>6
  <2>2. record.count = CountOf(events)
    BY <2>1 DEF LiveInv, Counted
  <2> QED BY <1>1, <2>2 DEF CountOf
<1> QED BY <1>1, <1>3, <1>5, <1>6, <1>7, <1>8, <1>9, <1>10 DEF LiveInv, LiveTypes

LEMMA LiveInitInv == LiveInit => LiveInv
<1> SUFFICES ASSUME LiveInit PROVE LiveInv
  OBVIOUS
<1>1. <<>> \in Seq(Events)
  BY EmptySeq
<1>2. LiveTypes
  BY <1>1, WaitingIs DEF LiveInit, LiveTypes, NoRoom
<1>3. Holding
  BY WaitingIs, LiveConstants DEF LiveInit, Holding
<1>4. NoneCached /\ Once
  BY DEF LiveInit, NoneCached, Once
<1>5. CountOf(events) = 0
  <2>1. {k \in DOMAIN events : events[k] \notin Heartbeats} = {}
    BY DEF LiveInit
  <2> QED BY <2>1, FS_EmptySet DEF CountOf
<1>6. Counted
  BY <1>5 DEF LiveInit, Counted, NoRoom
<1> QED BY <1>2, <1>3, <1>4, <1>6 DEF LiveInv

(* What sessions and watchers keep of a room: who holds the lock, that a message is in the
   file once, and that the index is right unless a writer is at work or stopped half way. *)
THEOREM LiveInvariant == LiveSpec => []LiveInv
<1>1. LiveInv /\ [LiveNext]_livevars => LiveInv'
  <2> SUFFICES ASSUME LiveInv, [LiveNext]_livevars PROVE LiveInv'
    OBVIOUS
  <2>1. CASE UNCHANGED livevars
    BY <2>1 DEF livevars, LiveInv, LiveTypes, Holding, NoneCached, Once, Counted, CountOf
  <2>2. CASE LiveNext
    BY <2>2, ReceiveInv, RoomInv, PagesInv, AppendInv, PruneInv, RefreshInv, LeaveInv DEF LiveNext
  <2> QED BY <2>1, <2>2
<1> QED BY <1>1, LiveInitInv, PTL DEF LiveSpec

(* The types of a room; the lock is held by exactly the writer between its append and the
   end of its refresh. *)
THEOREM LiveTypesHold == LiveSpec => []LiveTypeOK
<1>1. LiveInv => LiveTypeOK
  <2> SUFFICES ASSUME LiveInv PROVE LiveTypeOK
    OBVIOUS
  <2>1. \A k \in DOMAIN events : events[k] \in Events
    BY ElementOfSeq DEF LiveInv, LiveTypes
  <2> QED BY <2>1 DEF LiveInv, LiveTypes, Holding, NoneCached, LiveTypeOK
<1> QED BY <1>1, LiveInvariant, PTL

(* NoEventLost: without Redis, whatever was written and is no heartbeat is in the file
   once, and the index counts it when nobody is at work (store.go:220, 464). *)
THEOREM NoEventLostHolds == LiveSpec => []NoEventLost
<1>1. LiveInv => NoEventLost
  <2> SUFFICES ASSUME LiveInv, ~redis PROVE Kept /\ CountsKept
    BY DEF NoEventLost
  <2>1. ASSUME NEW e \in appended \ Heartbeats PROVE Cardinality({k \in DOMAIN events : events[k] = e}) = 1
    <3>1. PICK k \in DOMAIN events : events[k] = e /\ \A j \in DOMAIN events : events[j] = e => j = k
      BY <2>1 DEF LiveInv, Once, Exactly
    <3>2. {j \in DOMAIN events : events[j] = e} = {k}
      BY <3>1
    <3> QED BY <3>2, FS_Singleton
  <2>2. ASSUME lock = Nobody, ~uncounted PROVE record.count = CountOf(events)
    <3>1. \A w \in Writers : writer[w].pc \notin {"prune", "refresh"}
      BY <2>2, LiveConstants DEF LiveInv, Holding
    <3> QED BY <2>2, <3>1 DEF LiveInv, Counted
  <2> QED BY <2>1, <2>2 DEF Kept, CountsKept
<1> QED BY <1>1, LiveInvariant, PTL
-----------------------------------------------------------------------------
(* A set of numbers has a least one. *)
LEMMA LeastNumber ==
  ASSUME NEW T, T \subseteq Nat, T # {}
  PROVE  \E x \in T : \A y \in T : x <= y
<1> DEFINE Below(n) == 0..(n - 1)
           B == {Below(n) : n \in T}
<1>1. \A n \in T : Below(n) \in FiniteSubsetsOf(Nat)
  <2> SUFFICES ASSUME NEW n \in T PROVE Below(n) \in FiniteSubsetsOf(Nat)
    OBVIOUS
  <2>1. n \in Nat /\ n - 1 \in Int
    OBVIOUS
  <2>2. IsFiniteSet(0..(n - 1))
    BY <2>1, FS_Interval
  <2>3. 0..(n - 1) \subseteq Nat
    BY <2>1
  <2> QED BY <2>2, <2>3 DEF FiniteSubsetsOf
<1>2. B \subseteq FiniteSubsetsOf(Nat) /\ B # {}
  BY <1>1
<1>3. PICK b \in B : \A c \in B : ~(<<c, b>> \in StrictSubsetOrdering(Nat))
  <2> HIDE DEF B
  <2> QED BY <1>2, FS_StrictSubsetOrderingWellFounded, WFMin
<1>4. PICK x \in T : b = Below(x)
  OBVIOUS
<1>5. ASSUME NEW y \in T, ~(x <= y) PROVE FALSE
  <2>1. x \in Nat /\ y \in Nat /\ y < x
    BY <1>5
  <2>2. Below(y) \subseteq Below(x) /\ y \in Below(x) /\ y \notin Below(y)
    BY <2>1
  <2>3. Below(y) \in SUBSET Nat /\ Below(x) \in SUBSET Nat
    BY <2>1
  <2>4. <<Below(y), Below(x)>> \in StrictSubsetOrdering(Nat)
    <3> HIDE DEF Below
    <3> QED BY <2>2, <2>3 DEF StrictSubsetOrdering
  <2> QED BY <1>3, <1>4, <2>4
<1> QED BY <1>5

-----------------------------------------------------------------------------
(* The pages of live rooms under the rules. *)

(* What the rate limit has done with the first n events: those it counts are of the
   sender, and a shown message of k that it does not count any more is too old for what
   k says next; no window of messages of k shows more than the limit. *)
Said(s, k, among) == {i \in among : s[i].by = k /\ s[i].kind = "message"}
Near(s, r, k, among, i) == {j \in Said(s, k, among) : s[j].at \in (s[i].at - r.window)..s[i].at}
Guarded(s, r, k, b, n) ==
    /\ b = [kept |-> b.kept, recent |-> b.recent] /\ b.kept \subseteq 1..n /\ b.recent \subseteq 1..n
    /\ \A j \in Said(s, k, b.kept) \ b.recent : \A m \in (n + 1)..Len(s) :
           s[m].by = k => s[j].at < s[m].at - r.window
    /\ \A i \in Said(s, k, b.kept) : Cardinality(Near(s, r, k, b.kept, i)) <= r.limit

StampedInOrder(s, k) ==
    \A i, j \in DOMAIN s : s[i].by = k /\ s[j].by = k /\ i < j => s[i].at <= s[j].at

LEMMA GuardStepRate ==
    ASSUME NEW s, NEW r, NEW k, NEW among, NEW n \in 1..Len(s), NEW b,
           s \in Seq(Lines), IsRules(r), r.limit > 0, r.window > 0, StampedInOrder(s, k),
           Guarded(s, r, k, b, n - 1)
    PROVE  Guarded(s, r, k, GuardStep(s, r, among, b, n), n)
<1> DEFINE near == InWindow(s, r, b.recent, n)
           others == OfOthers(s, b.recent, n)
           c == GuardStep(s, r, among, b, n)
<1>1. /\ Len(s) \in Nat /\ n \in Nat /\ DOMAIN s = 1..Len(s) /\ n - 1 \in Nat /\ n - 1 + 1 = n
      /\ \A i \in 1..Len(s) : s[i] \in Lines /\ s[i].at \in Nat
      /\ r.limit \in Int /\ r.window \in Int
  BY LinesAreStamped DEF IsRules
<1>2. /\ b = [kept |-> b.kept, recent |-> b.recent] /\ b.kept \subseteq 1..(n - 1) /\ b.recent \subseteq 1..(n - 1)
      /\ \A j \in Said(s, k, b.kept) \ b.recent : \A m \in n..Len(s) : s[m].by = k => s[j].at < s[m].at - r.window
      /\ \A i \in Said(s, k, b.kept) : Cardinality(Near(s, r, k, b.kept, i)) <= r.limit
  BY <1>1 DEF Guarded
<1>3. 1..(n - 1) \subseteq 1..n /\ n \in 1..n /\ n \notin 1..(n - 1) /\ (n + 1)..Len(s) \subseteq n..Len(s)
  BY <1>1
<1>4. CASE n \notin among \/ Muted(r, s[n])
  <2>1. c = b
    BY <1>4 DEF GuardStep
  <2>2. QED  BY <1>2, <1>3, <2>1 DEF Guarded
<1>5. CASE ~(n \notin among \/ Muted(r, s[n])) /\ ~Limited(s, r, n)
  <2>1. c = [kept |-> b.kept \cup {n}, recent |-> b.recent]
    BY <1>2, <1>5 DEF GuardStep
  <2>2. s[n].kind # "message"
    BY <1>5 DEF Limited
  <2>3. Said(s, k, c.kept) = Said(s, k, b.kept)
    BY <2>1, <2>2 DEF Said
  <2>4. \A i \in Said(s, k, c.kept) : Near(s, r, k, c.kept, i) = Near(s, r, k, b.kept, i)
    BY <2>3 DEF Near
  <2>5. c.recent = b.recent /\ c.kept = b.kept \cup {n} /\ c = [kept |-> c.kept, recent |-> c.recent]
    BY <2>1
  <2>6. QED
    <3> HIDE DEF c
    <3>1. Guarded(s, r, k, c, n)
      BY <1>2, <1>3, <2>3, <2>4, <2>5 DEF Guarded
    <3>2. QED  BY <3>1 DEF c
<1>6. CASE ~(n \notin among \/ Muted(r, s[n])) /\ Limited(s, r, n)
  <2>1. /\ near \subseteq b.recent /\ others \subseteq b.recent
        /\ \A j \in b.recent \ (near \cup others) : s[j].by = s[n].by /\ s[j].at < s[n].at - r.window
    <3>1. \A j \in b.recent : j \in 1..Len(s) /\ s[j].at \in Nat
      BY <1>1, <1>2
    <3>2. QED  BY <1>1, <3>1 DEF InWindow, OfOthers
  \* what is dropped is too old for what follows
  <2>2. ASSUME NEW j \in Said(s, k, b.kept) \ (near \cup others), NEW m \in n..Len(s), s[m].by = k
        PROVE  s[j].at < s[m].at - r.window
    <3>1. CASE j \notin b.recent
      BY <1>2, <2>2, <3>1
    <3>2. CASE j \in b.recent
      <4>1. s[n].by = k /\ s[j].at < s[n].at - r.window
        BY <2>1, <3>2 DEF Said
      <4>2. s[n].at <= s[m].at
        <5>1. m \in DOMAIN s /\ n \in DOMAIN s /\ m \in Nat /\ (m = n \/ n < m)
          BY <1>1
        <5>2. QED  BY <1>1, <2>2, <4>1, <5>1 DEF StampedInOrder
      <4>3. s[j].at \in Nat /\ s[n].at \in Nat /\ s[m].at \in Nat
        BY <1>1, <1>2 DEF Said
      <4>4. QED  BY <1>1, <4>1, <4>2, <4>3
    <3>3. QED  BY <3>1, <3>2
  <2>3. CASE Cardinality(near) >= r.limit
    <3>1. c = [kept |-> b.kept, recent |-> others \cup near]
      BY <1>2, <1>6, <2>3 DEF GuardStep
    <3>2. c.kept = b.kept /\ c.recent = others \cup near /\ c = [kept |-> c.kept, recent |-> c.recent]
      BY <3>1
    <3>3. c.recent \subseteq 1..n /\ c.kept \subseteq 1..n
      BY <1>2, <1>3, <2>1, <3>2
    <3>4. \A j \in Said(s, k, c.kept) \ c.recent : \A m \in (n + 1)..Len(s) : s[m].by = k => s[j].at < s[m].at - r.window
      BY <1>3, <2>2, <3>2
    <3>5. QED
      <4> HIDE DEF c
      <4>1. Guarded(s, r, k, c, n)
        BY <1>2, <3>2, <3>3, <3>4 DEF Guarded
      <4>2. QED  BY <4>1 DEF c
  <2>4. CASE ~(Cardinality(near) >= r.limit)
    <3>1. c = [kept |-> b.kept \cup {n}, recent |-> others \cup near \cup {n}]
      BY <1>2, <1>6, <2>4 DEF GuardStep
    <3>2. c.kept = b.kept \cup {n} /\ c.recent = others \cup near \cup {n} /\ c = [kept |-> c.kept, recent |-> c.recent]
      BY <3>1
    <3>3. c.recent \subseteq 1..n /\ c.kept \subseteq 1..n
      BY <1>2, <1>3, <2>1, <3>2
    <3>4. \A j \in Said(s, k, c.kept) \ c.recent : \A m \in (n + 1)..Len(s) : s[m].by = k => s[j].at < s[m].at - r.window
      BY <1>3, <2>2, <3>2 DEF Said
    <3> HIDE DEF c
    \* all that is in the window of n is counted
    <3>5. s[n].by = k => /\ Near(s, r, k, c.kept, n) \subseteq near \cup {n}
      <4> SUFFICES ASSUME s[n].by = k, NEW j \in Near(s, r, k, c.kept, n), j # n PROVE j \in near
        OBVIOUS
      <4>1. j \in Said(s, k, b.kept) /\ s[j].at \in (s[n].at - r.window)..s[n].at
        BY <3>2 DEF Near, Said
      <4>2. j \in 1..Len(s) /\ s[j].at \in Nat /\ s[n].at \in Nat /\ n \in n..Len(s)
        BY <1>1, <1>2, <4>1 DEF Said
      <4>3. ~(s[j].at < s[n].at - r.window)
        BY <1>1, <4>1, <4>2
      <4>4. j \in b.recent
        BY <1>2, <4>1, <4>2, <4>3
      <4>5. QED  BY <1>1, <4>1, <4>2, <4>3, <4>4 DEF InWindow, Said
    <3>6. s[n].by = k => Cardinality(Near(s, r, k, c.kept, n)) <= r.limit
      <4>1. IsFiniteSet(near) /\ n \notin near
        <5>1. IsFiniteSet(1..(n - 1))
          BY <1>1, FS_Interval
        <5>2. near \subseteq 1..(n - 1)
          BY <1>2, <2>1
        <5>3. QED  BY <1>3, <5>1, <5>2, FS_Subset
      <4> HIDE DEF near
      <4>2. IsFiniteSet(near \cup {n}) /\ Cardinality(near \cup {n}) = Cardinality(near) + 1 /\ Cardinality(near) \in Nat
        BY <4>1, FS_AddElement, FS_CardinalityType
      <4>3. s[n].by = k => Cardinality(Near(s, r, k, c.kept, n)) <= Cardinality(near \cup {n})
                           /\ Cardinality(Near(s, r, k, c.kept, n)) \in Nat
        BY <3>5, <4>2, FS_Subset, FS_CardinalityType
      <4>4. QED  BY <1>1, <2>4, <4>2, <4>3
    <3>7. ASSUME NEW i \in Said(s, k, c.kept) PROVE Cardinality(Near(s, r, k, c.kept, i)) <= r.limit
      <4>1. i \in 1..Len(s) /\ i \in 1..n /\ s[i].at \in Nat /\ s[n].at \in Nat /\ s[i].by = k
        BY <1>1, <3>3 DEF Said
      <4>2. CASE i = n \/ (s[n].by = k /\ s[i].at = s[n].at)
        <5>1. s[n].by = k /\ Near(s, r, k, c.kept, i) = Near(s, r, k, c.kept, n)
          BY <4>1, <4>2 DEF Near
        <5>2. QED  BY <3>6, <5>1
      <4>3. CASE ~(i = n \/ (s[n].by = k /\ s[i].at = s[n].at))
        <5>1. i \in Said(s, k, b.kept)
          BY <3>2, <4>3 DEF Said
        <5>2. s[n].by = k => s[i].at < s[n].at
          <6>1. i \in DOMAIN s /\ n \in DOMAIN s /\ i < n
            BY <1>1, <4>1, <4>3
          <6>2. s[n].by = k => s[i].at <= s[n].at
            BY <4>1, <6>1 DEF StampedInOrder
          <6>3. QED  BY <4>1, <4>3, <6>2
        <5>3. Near(s, r, k, c.kept, i) = Near(s, r, k, b.kept, i)
          <6>1. ASSUME NEW j, j \in Near(s, r, k, c.kept, i) PROVE j \in Near(s, r, k, b.kept, i)
            <7>1. j \in c.kept /\ s[j].by = k /\ s[j].kind = "message" /\ s[j].at \in (s[i].at - r.window)..s[i].at
              BY <6>1 DEF Near, Said
            <7>2. j # n
              BY <1>1, <4>1, <5>2, <7>1
            <7>3. QED  BY <3>2, <7>1, <7>2 DEF Near, Said
          <6>2. ASSUME NEW j, j \in Near(s, r, k, b.kept, i) PROVE j \in Near(s, r, k, c.kept, i)
            BY <3>2, <6>2 DEF Near, Said
          <6>3. QED  BY <6>1, <6>2
        <5>4. QED  BY <1>2, <5>1, <5>3
      <4>4. QED  BY <4>2, <4>3
    <3>8. Guarded(s, r, k, c, n)
      BY <3>2, <3>3, <3>4, <3>7 DEF Guarded
    <3>9. QED  BY <3>8 DEF c
  <2>5. QED  BY <2>3, <2>4
<1>7. QED  BY <1>4, <1>5, <1>6

(* The limit goes through the events one by one. *)
GuardStart == [kept |-> {}, recent |-> {}]
IsGuardRun(g, s, r, among, n) ==
    g = [i \in 0..n |-> IF i = 0 THEN GuardStart ELSE GuardStep(s, r, among, g[i - 1], i)]

LEMMA GuardRunExists ==
    ASSUME NEW s, NEW r, NEW among, NEW n \in Nat
    PROVE  \E g : IsGuardRun(g, s, r, among, n)
<1> DEFINE IsRun(g, m) == g = [i \in 0..m |-> IF i = 0 THEN GuardStart ELSE GuardStep(s, r, among, g[i - 1], i)]
           Without == {m \in Nat : ~\E g : IsRun(g, m)}
<1>1. SUFFICES ASSUME Without # {} PROVE FALSE
  BY DEF IsGuardRun
<1>2. PICK m \in Without : \A l \in Without : m <= l
  <2> HIDE DEF Without
  <2>1. Without \subseteq Nat
    BY DEF Without
  <2>2. QED  BY <1>1, <2>1, LeastNumber
<1>3. m # 0
  <2>1. IsRun([i \in 0..0 |-> GuardStart], 0)
    OBVIOUS
  <2>2. QED  BY <2>1
<1>4. m - 1 \in Nat /\ ~(m <= m - 1) /\ m \in Nat
  BY <1>3
<1>5. PICK h : IsRun(h, m - 1)
  <2>1. m - 1 \notin Without
    BY <1>2, <1>4
  <2>2. QED  BY <1>4, <2>1
<1>6. PICK f : f = [i \in 0..m |-> IF i = m THEN GuardStep(s, r, among, h[m - 1], m) ELSE h[i]]
  OBVIOUS
<1>7. ASSUME NEW i \in 0..m
      PROVE  f[i] = IF i = 0 THEN GuardStart ELSE GuardStep(s, r, among, f[i - 1], i)
  <2>1. CASE i = m
    <3>1. m - 1 \in 0..m /\ m - 1 # m
      BY <1>4
    <3>2. f[m - 1] = h[m - 1]
      BY <1>6, <3>1
    <3>3. QED  BY <1>3, <1>6, <2>1, <3>2
  <2>2. CASE i # m
    <3>1. i \in 0..(m - 1) /\ (i # 0 => i - 1 \in 0..m /\ i - 1 # m)
      BY <1>4, <2>2
    <3>2. h[i] = IF i = 0 THEN GuardStart ELSE GuardStep(s, r, among, h[i - 1], i)
      BY <1>5, <3>1
    <3>3. f[i] = h[i] /\ (i # 0 => f[i - 1] = h[i - 1])
      BY <1>6, <2>2, <3>1
    <3>4. QED  BY <3>2, <3>3
  <2>3. QED  BY <2>1, <2>2
<1>8. DOMAIN f = 0..m /\ f = [i \in 0..m |-> f[i]]
  BY <1>6
<1>9. IsRun(f, m)
  BY <1>7, <1>8
<1>10. QED  BY <1>2, <1>9

LEMMA GuardsRun ==
    ASSUME NEW s, NEW r, NEW among, Len(s) \in Nat
    PROVE  \E g : IsGuardRun(g, s, r, among, Len(s)) /\ Guards(s, r, among) = g[Len(s)].kept
<1> DEFINE G == CHOOSE g : g = [i \in 0..Len(s) |-> IF i = 0 THEN [kept |-> {}, recent |-> {}]
                                                        ELSE GuardStep(s, r, among, g[i - 1], i)]
<1>1. PICK f : IsGuardRun(f, s, r, among, Len(s))
  BY GuardRunExists
<1>2. IsGuardRun(G, s, r, among, Len(s))
  BY <1>1 DEF IsGuardRun, GuardStart
<1>3. Guards(s, r, among) = G[Len(s)].kept
  BY DEF Guards
<1>4. QED  BY <1>2, <1>3

(* No window of messages of a sender whose stamps are in order has more of them than the
   limit, whatever the other events are (applyPublicLiveGuards). *)
LEMMA GuardsKeepRate ==
    ASSUME NEW s \in Seq(Lines), NEW r, NEW k, NEW among,
           IsRules(r), r.limit > 0, r.window > 0, StampedInOrder(s, k)
    PROVE  \A i \in Said(s, k, Guards(s, r, among)) :
               Cardinality(Near(s, r, k, Guards(s, r, among), i)) <= r.limit
<1>1. Len(s) \in Nat
  OBVIOUS
<1>2. PICK g : IsGuardRun(g, s, r, among, Len(s)) /\ Guards(s, r, among) = g[Len(s)].kept
  BY <1>1, GuardsRun
<1> DEFINE Bad == {n \in 0..Len(s) : ~Guarded(s, r, k, g[n], n)}
<1>3. CASE Bad # {}
  <2>1. PICK n \in Bad : \A m \in Bad : n <= m
    <3>1. Bad \subseteq Nat
      OBVIOUS
    <3> HIDE DEF Bad
    <3>2. QED  BY <1>3, <3>1, LeastNumber
  <2>2. n # 0
    <3>1. g[0] = GuardStart
      BY <1>1, <1>2 DEF IsGuardRun
    <3>2. Guarded(s, r, k, GuardStart, 0)
      BY DEF Guarded, GuardStart, Said
    <3>3. QED  BY <3>1, <3>2
  <2>3. n \in 1..Len(s) /\ n - 1 \in 0..Len(s) /\ ~(n <= n - 1)
    BY <1>1, <2>2
  <2>4. Guarded(s, r, k, g[n - 1], n - 1)
    BY <2>1, <2>3
  <2>5. g[n] = GuardStep(s, r, among, g[n - 1], n)
    BY <1>2, <2>3 DEF IsGuardRun
  <2>6. Guarded(s, r, k, g[n], n)
    BY <2>3, <2>4, <2>5, GuardStepRate
  <2>7. QED  BY <2>1, <2>6
<1>4. CASE Bad = {}
  <2>1. Guarded(s, r, k, g[Len(s)], Len(s))
    BY <1>1, <1>4
  <2>2. QED  BY <1>2, <2>1 DEF Guarded
<1>5. QED  BY <1>3, <1>4

(* What the pages rest on: the rules in the file are those that were last there, or the
   file is empty and a form that took them over is about to write. *)
PagesShape ==
    /\ lines \in Seq(Lines) /\ asker = [u \in Askers |-> asker[u]]
    /\ IsRules(lastRules) /\ (ruleFile = Emptied \/ ruleFile = lastRules)
    /\ \A u \in Askers :
          /\ asker[u].pc \in {"merge", "write"} => IsRules(asker[u].rules)
          /\ asker[u].pc = "merge" => asker[u].form \in LiveForms

LEMMA NotEmptied == ASSUME NEW r, IsRules(r) PROVE r # Emptied
<1>1. DOMAIN Emptied = {"bytes"} /\ "bytes" \notin DOMAIN EmptyRules
  BY DEF Emptied, EmptyRules
<1>2. QED  BY <1>1 DEF IsRules

LEMMA OneAsker ==
    ASSUME PagesShape, NEW u \in Askers, NEW q, asker' = [asker EXCEPT ![u] = q],
           lines' = lines, IsRules(lastRules'), ruleFile' = Emptied \/ ruleFile' = lastRules',
           q.pc \in {"merge", "write"} => IsRules(q.rules), q.pc = "merge" => q.form \in LiveForms
    PROVE  PagesShape'
<1>1. /\ asker = [v \in Askers |-> asker[v]]
      /\ \A v \in Askers : /\ asker[v].pc \in {"merge", "write"} => IsRules(asker[v].rules)
                           /\ asker[v].pc = "merge" => asker[v].form \in LiveForms
  BY DEF PagesShape
<1>2. asker' = [v \in Askers |-> asker'[v]] /\ \A v \in Askers : asker'[v] = IF v = u THEN q ELSE asker[v]
  BY <1>1
<1>3. ASSUME NEW v \in Askers
      PROVE  /\ asker'[v].pc \in {"merge", "write"} => IsRules(asker'[v].rules)
             /\ asker'[v].pc = "merge" => asker'[v].form \in LiveForms
  BY <1>1, <1>2
<1>4. lines' \in Seq(Lines)
  BY DEF PagesShape
<1>5. QED  BY <1>2, <1>3, <1>4 DEF PagesShape, IsRules

THEOREM PagesShapeInvariant == HistorySpec => []PagesShape
<1>1. HistoryInit => PagesShape
  <2> SUFFICES ASSUME HistoryInit PROVE PagesShape
    OBVIOUS
  <2>1. asker = [u \in Askers |-> Idle] /\ \A u \in Askers : asker[u].pc = "idle"
    BY DEF HistoryInit, Idle
  <2>2. QED  BY <2>1, RulesAreRules DEF HistoryInit, PagesShape
<1>2. PagesShape /\ [HistoryNext]_historyvars => PagesShape'
  <2> SUFFICES ASSUME PagesShape, [HistoryNext]_historyvars PROVE PagesShape'
    OBVIOUS
  <2>0. IsRules(lastRules) /\ (ruleFile = Emptied \/ ruleFile = lastRules) /\ ruleFile \in {Emptied, lastRules}
    BY DEF PagesShape
  <2>1. ASSUME UNCHANGED <<lines, asker, ruleFile, lastRules>> PROVE PagesShape'
    BY <2>1 DEF PagesShape, IsRules
  <2>2. CASE UNCHANGED historyvars
    BY <2>1, <2>2 DEF historyvars
  <2>3. CASE Pass \/ BeginDaily \/ ReadWindow \/ SaveWindow
    BY <2>1, <2>3 DEF Pass, BeginDaily, ReadWindow, SaveWindow
  <2>4. CASE StopPlugin
    <3>1. /\ asker' = [u \in Askers |-> Idle] /\ UNCHANGED <<lines, ruleFile, lastRules>>
          /\ \A u \in Askers : asker'[u].pc = "idle"
      BY <2>4 DEF StopPlugin, Idle
    <3>2. QED  BY <3>1 DEF PagesShape, IsRules
  <2>5. ASSUME NEW e \in Lines, AppendLine(e) PROVE PagesShape'
    <3>1. lines' = Append(lines, e) /\ UNCHANGED <<asker, ruleFile, lastRules>> /\ lines \in Seq(Lines)
      BY <2>5 DEF AppendLine, PagesShape
    <3>2. lines' \in Seq(Lines)
      BY <3>1
    <3>3. QED  BY <3>1, <3>2 DEF PagesShape, IsRules
  <2>6. ASSUME NEW u \in Askers, NEW f \in LiveForms, SendForm(u, f) PROVE PagesShape'
    <3>1. PICK q : q = [pc |-> "merge", form |-> f, rules |-> ruleFile]
      OBVIOUS
    <3>2. asker' = [asker EXCEPT ![u] = q] /\ UNCHANGED <<lines, ruleFile, lastRules>> /\ ruleFile = lastRules
      BY <2>0, <2>6, <3>1 DEF SendForm
    <3>3. q.pc = "merge" /\ q.form = f /\ q.rules = lastRules
      BY <3>1, <3>2
    <3>4. QED  BY <2>0, <3>2, <3>3, OneAsker DEF IsRules
  <2>7. ASSUME NEW u \in Askers, MergeLivePublicRules(u) PROVE PagesShape'
    <3>1. PICK q : q = [pc |-> "write", rules |-> MergedRules(u)]
      OBVIOUS
    <3>2. /\ asker' = [asker EXCEPT ![u] = q] /\ UNCHANGED <<lines, lastRules>> /\ ruleFile' = Emptied
          /\ asker[u].pc = "merge"
      BY <2>7, <3>1 DEF MergeLivePublicRules
    <3>3. IsRules(MergedRules(u))
      <4>1. PICK b : b = IF ruleFile = Emptied THEN asker[u].rules ELSE ruleFile
        OBVIOUS
      <4>2. IsRules(b) /\ asker[u].form.limit \in Int /\ asker[u].form.window \in Int
        BY <2>0, <3>2, <4>1, RulesAreRules DEF PagesShape
      <4>3. MergedRules(u) = [b EXCEPT !.muted = asker[u].form.muted, !.mutedParents = asker[u].form.mutedParents,
                                       !.limit = asker[u].form.limit, !.window = asker[u].form.window]
        BY <4>1 DEF MergedRules
      <4>4. "limit" \in DOMAIN b /\ "window" \in DOMAIN b
        BY <4>2 DEF IsRules, EmptyRules
      <4>5. QED  BY <4>2, <4>3, <4>4 DEF IsRules
    <3>4. q.pc = "write" /\ q.rules = MergedRules(u)
      BY <3>1
    <3>5. QED  BY <2>0, <3>2, <3>3, <3>4, OneAsker DEF IsRules
  <2>8. ASSUME NEW u \in Askers, SaveLivePublicRules(u) PROVE PagesShape'
    <3>1. /\ asker' = [asker EXCEPT ![u] = Idle] /\ lines' = lines /\ asker[u].pc = "write"
          /\ ruleFile' = asker[u].rules /\ lastRules' = asker[u].rules
      BY <2>8 DEF SaveLivePublicRules, Answered
    <3>2. IsRules(asker[u].rules)
      BY <3>1 DEF PagesShape
    <3>3. IsRules(lastRules')
      BY <3>1, <3>2 DEF IsRules
    <3>4. Idle.pc = "idle"
      BY DEF Idle
    <3>5. QED  BY <3>1, <3>3, <3>4, OneAsker
  <2>9. ASSUME NEW u \in Askers, AskForArchive(u) PROVE PagesShape'
    <3>1. PICK q : q = [pc |-> "archive", id |-> ManualID, events |-> Displayed]
      OBVIOUS
    <3>2. asker' = [asker EXCEPT ![u] = q] /\ UNCHANGED <<lines, ruleFile, lastRules>> /\ q.pc = "archive"
      BY <2>9, <3>1 DEF AskForArchive
    <3>3. QED  BY <2>0, <3>2, OneAsker DEF IsRules
  <2>10. ASSUME NEW u \in Askers, SaveManual(u) PROVE PagesShape'
    <3>1. asker' = [asker EXCEPT ![u] = Idle] /\ UNCHANGED <<lines, ruleFile, lastRules>> /\ Idle.pc = "idle"
      BY <2>10 DEF SaveManual, Answered, Idle
    <3>2. QED  BY <2>0, <3>1, OneAsker DEF IsRules
  <2>11. QED  BY <2>2, <2>3, <2>4, <2>5, <2>6, <2>7, <2>8, <2>9, <2>10 DEF HistoryNext
<1>3. QED  BY <1>1, <1>2, PTL DEF HistorySpec

(* While forms rewrite the rules and the process stops in between, no page shows what the
   rules last in the file hide or more of a sender than they let through in a window, and
   what a page of a room leaves out waits (aip2plive/handler.go:181, 555, 761, 826, 1252). *)
THEOREM PagesObeyRulesHolds == HistorySpec => []PagesObeyRules
<1>1. ASSUME PagesShape PROVE RateHolds
  <2> SUFFICES ASSUME ruleFile # Emptied, info.public, ruleFile.limit > 0, ruleFile.window > 0,
                      NEW k, InOrder(k)
               PROVE  \A i \in Messages(k, HandleAPILiveRoom(TRUE)) :
                          Cardinality({j \in Messages(k, HandleAPILiveRoom(TRUE)) :
                              lines[j].at \in (lines[i].at - ruleFile.window)..lines[i].at}) <= ruleFile.limit
    BY DEF RateHolds
  <2> DEFINE among == FilterLiveEvents(lines, ruleFile, TRUE)
  <2>1. IsRules(ruleFile) /\ lines \in Seq(Lines)
    BY <1>1 DEF PagesShape
  <2>2. HandleAPILiveRoom(TRUE) = Guards(lines, ruleFile, among)
    BY DEF HandleAPILiveRoom, RulesRead, RoomPage, RoomAllowed
  <2>3. StampedInOrder(lines, k)
    BY DEF InOrder, StampedInOrder
  <2> HIDE DEF among
  <2>4. PICK G : G = Guards(lines, ruleFile, among)
    OBVIOUS
  <2>5. \A i \in Said(lines, k, G) : Cardinality(Near(lines, ruleFile, k, G, i)) <= ruleFile.limit
    BY <2>1, <2>3, <2>4, GuardsKeepRate
  <2>6. Messages(k, G) = Said(lines, k, G)
    BY DEF Messages, Said
  <2>7. \A i \in Messages(k, G) :
            Near(lines, ruleFile, k, G, i) = {j \in Messages(k, G) : lines[j].at \in (lines[i].at - ruleFile.window)..lines[i].at}
    BY <2>6 DEF Near
  <2>8. QED  BY <2>2, <2>4, <2>5, <2>6, <2>7
<1>2. ASSUME PagesShape PROVE BlockedStaysHidden
  <2>1. ruleFile = Emptied \/ ruleFile = lastRules
    BY <1>2 DEF PagesShape
  <2>2. HandleLiveIndex => RoomAllowed(lastRules)
    BY <2>1 DEF HandleLiveIndex
  <2>3. HandleLiveRoom(TRUE) \subseteq RoomPage(lastRules, TRUE)
    BY <2>1 DEF HandleLiveRoom
  <2>4. ASSUME ruleFile # Emptied
        PROVE  /\ HandleLiveIndex = HandleAPILiveRooms /\ HandleLivePendingIndex = HandleAPILivePendingRooms
               /\ HandleLiveRoom(TRUE) = HandleAPILiveRoom(TRUE) /\ HandleLivePendingRoom = HandleAPILivePendingRoom
    BY <2>4 DEF HandleLiveIndex, HandleAPILiveRooms, HandleLivePendingIndex, HandleAPILivePendingRooms, RulesRead,
                HandleLiveRoom, HandleAPILiveRoom, HandleLivePendingRoom, HandleAPILivePendingRoom,
                BuildLivePendingRooms, RoomAllowed, Allows
  <2>5. ASSUME ruleFile # Emptied, ~info.public, RoomAllowed(ruleFile)
        PROVE  /\ HandleLiveRoom(TRUE) = {i \in DOMAIN lines : Allows(ruleFile, lines[i].by, lines[i].parent) /\ ~lines[i].bare}
               /\ HandleLivePendingRoom = {i \in DOMAIN lines : ~Allows(ruleFile, lines[i].by, lines[i].parent) /\ ~lines[i].bare}
    <3>1. HandleLiveRoom(TRUE) = FilterLiveEvents(lines, ruleFile, TRUE)
      BY <2>5 DEF HandleLiveRoom, RoomPage
    <3>2. HandleLivePendingRoom = BlockedLiveEvents(lines, ruleFile)
      BY <2>5 DEF HandleLivePendingRoom, PendingRoom
    <3>3. QED  BY <2>5, <3>1, <3>2 DEF FilterLiveEvents, BlockedLiveEvents, EventAllowed
  <2>6. ASSUME ruleFile # Emptied, NEW i \in DOMAIN lines, ~info.public, ~lines[i].bare, i \notin HandleLiveRoom(TRUE)
        PROVE  HandleLivePendingIndex
    <3>1. CASE ~RoomAllowed(ruleFile)
      BY <2>6, <3>1 DEF HandleLivePendingIndex, BuildLivePendingRooms
    <3>2. CASE RoomAllowed(ruleFile)
      <4>1. i \in BlockedLiveEvents(lines, ruleFile)
        BY <2>5, <2>6, <3>2 DEF BlockedLiveEvents
      <4>2. QED  BY <2>6, <4>1 DEF HandleLivePendingIndex, BuildLivePendingRooms
    <3>3. QED  BY <3>1, <3>2
  <2>7. ASSUME ruleFile # Emptied, ~info.public, RoomAllowed(ruleFile)
        PROVE  HandleLiveRoom(TRUE) \cup HandleLivePendingRoom = {i \in DOMAIN lines : ~lines[i].bare}
    BY <2>5, <2>7
  <2>8. QED  BY <2>2, <2>3, <2>4, <2>6, <2>7 DEF BlockedStaysHidden
<1>3. PagesShape => PagesObeyRules
  BY <1>1, <1>2 DEF PagesObeyRules
<1>4. QED  BY <1>3, PagesShapeInvariant, PTL

-----------------------------------------------------------------------------
(* The daily archives of a live room. *)

(* A window ends at a multiple of its length, and holds what is stamped in it. *)
EndsWindow(n) == n \in Int /\ \E q \in Int : n = q * Day
WindowOf(n) == {e \in Lines : n - Day <= e.at /\ e.at < n}
EndOf(e) == WindowEnd(e.at) + Day

Loops == [pc : {"read", "save"}, next : Int, last : Int, events : SUBSET Lines]

(* The loop, and each daily archive, is about one window; others are under other names. *)
LoopShape ==
    /\ daily = Idle \/ /\ daily \in Loops /\ daily.next <= daily.last
                       /\ EndsWindow(daily.next) /\ EndsWindow(daily.last)
                       /\ daily.pc = "save" => daily.events \subseteq WindowOf(daily.next)
ArchivesShape ==
    \A id \in DOMAIN histories : id[1] = "daily" =>
        \E n \in Int : EndsWindow(n) /\ id = DailyID(n) /\ histories[id] \subseteq WindowOf(n)
AskersShape ==
    /\ asker = [u \in Askers |-> asker[u]]
    /\ \A u \in Askers : asker[u].pc = "archive" => asker[u].id[1] = "manual"

(* What was promised is archived, or the loop has its window to come: it is over, without
   an archive, and when the loop has read it what was promised was there. *)
ToCome(e) ==
    /\ daily # Idle /\ daily.next <= EndOf(e) /\ EndOf(e) <= daily.last /\ ~Exists(DailyID(EndOf(e)))
    /\ daily.pc = "save" /\ EndOf(e) = daily.next => e \in daily.events
PromisesKept == \A e \in promised : e.at >= FirstStart => e \in ArchivedDaily \/ ToCome(e)

DailyInv ==
    /\ lines \in Seq(Lines) /\ liveTime \in Nat /\ promised \subseteq Displayed
    /\ LoopShape /\ ArchivesShape /\ AskersShape /\ PromisesKept

LEMMA WindowEnds ==
    ASSUME NEW t \in Nat
    PROVE  /\ EndsWindow(WindowEnd(t)) /\ WindowEnd(t) <= t /\ t < WindowEnd(t) + Day
           /\ EndsWindow(WindowEnd(t) + Day) /\ EndsWindow(FirstWindowEnd(t))
<1>1. Day \in Nat \ {0}
  BY HistoryConstants
<1>2. (t \div Day) \in Int /\ (t \div Day) * Day <= t /\ t < (t \div Day) * Day + Day
  BY <1>1
<1>3. PICK q \in Int : q = t \div Day
  BY <1>2
<1>4. WindowEnd(t) = q * Day /\ q * Day \in Int
  BY <1>1, <1>3 DEF WindowEnd
<1>5. EndsWindow(q * Day)
  BY <1>4 DEF EndsWindow
<1>6. EndsWindow(q * Day + Day)
  <2>1. q + 1 \in Int /\ q * Day + Day = (q + 1) * Day /\ q * Day + Day \in Int
    BY <1>1
  <2>2. QED  BY <2>1 DEF EndsWindow
<1>7. QED  BY <1>2, <1>3, <1>4, <1>5, <1>6 DEF FirstWindowEnd

LEMMA WindowsApart ==
    ASSUME NEW m, NEW n, EndsWindow(m), EndsWindow(n), m < n
    PROVE  m + Day <= n
<1>1. Day \in Nat \ {0}
  BY HistoryConstants
<1>2. PICK p \in Int, q \in Int : m = p * Day /\ n = q * Day
  BY DEF EndsWindow
<1>3. p < q
  BY <1>1, <1>2
<1>4. p + 1 <= q
  BY <1>3
<1>5. (p + 1) * Day <= q * Day
  BY <1>1, <1>4
<1>6. QED  BY <1>1, <1>2, <1>5

LEMMA PreviousEnds == ASSUME NEW n, EndsWindow(n) PROVE EndsWindow(n - Day) /\ EndsWindow(n + Day)
<1>1. Day \in Nat \ {0} /\ n \in Int
  BY HistoryConstants DEF EndsWindow
<1>2. PICK q \in Int : n = q * Day
  BY DEF EndsWindow
<1>3. q - 1 \in Int /\ n - Day = (q - 1) * Day /\ q + 1 \in Int /\ n + Day = (q + 1) * Day
  BY <1>1, <1>2
<1>4. QED  BY <1>1, <1>3 DEF EndsWindow

(* An event is in the window that EndOf names, and in no other. *)
LEMMA EventWindow ==
    ASSUME NEW e \in Lines
    PROVE  /\ EndsWindow(EndOf(e)) /\ EndOf(e) \in Int /\ e \in WindowOf(EndOf(e))
           /\ \A n : EndsWindow(n) /\ e \in WindowOf(n) => n = EndOf(e)
<1>1. Day \in Nat \ {0} /\ e.at \in Nat
  BY HistoryConstants, LinesAreStamped
<1>2. PICK w : w = WindowEnd(e.at)
  OBVIOUS
<1>3. EndsWindow(w) /\ w <= e.at /\ e.at < w + Day /\ EndsWindow(w + Day) /\ w \in Int
  BY <1>1, <1>2, WindowEnds DEF EndsWindow
<1>4. e \in WindowOf(w + Day)
  BY <1>1, <1>3 DEF WindowOf
<1>5. ASSUME NEW n, EndsWindow(n), e \in WindowOf(n) PROVE n = w + Day
  <2>1. n \in Int /\ n - Day <= e.at /\ e.at < n /\ EndsWindow(n - Day) /\ n - Day \in Int
    BY <1>1, <1>5, PreviousEnds DEF WindowOf, EndsWindow
  <2>2. ~(w < n - Day)
    <3>1. w < n - Day => w + Day <= n - Day
      BY <1>3, <2>1, WindowsApart
    <3>2. QED  BY <1>1, <1>3, <2>1, <3>1
  <2>3. ~(n - Day < w)
    <3>1. n - Day < w => n - Day + Day <= w
      BY <1>3, <2>1, WindowsApart
    <3>2. QED  BY <1>1, <1>3, <2>1, <3>1
  <2>4. QED  BY <1>1, <1>3, <2>1, <2>2, <2>3
<1>6. QED  BY <1>2, <1>3, <1>4, <1>5 DEF EndOf, EndsWindow

LEMMA SameWindow == ASSUME NEW m, NEW n, DailyID(m) = DailyID(n) PROVE m = n
<1>1. DailyID(m)[2] = m /\ DailyID(n)[2] = n
  BY DEF DailyID
<1>2. QED  BY <1>1

LEMMA DailyName == ASSUME NEW n PROVE DailyID(n)[1] = "daily"
BY DEF DailyID

(* The first line that is displayed stays it. *)
LEMMA FirstPlaceIs ==
    ASSUME lines \in Seq(Lines), Displayed # {}
    PROVE  /\ FirstPlace \in DOMAIN lines /\ IsDisplayed(lines[FirstPlace])
           /\ \A j \in DOMAIN lines : IsDisplayed(lines[j]) => FirstPlace <= j
<1> DEFINE Places == {i \in DOMAIN lines : IsDisplayed(lines[i])}
<1>1. Places \subseteq Nat /\ Places # {}
  BY DEF Displayed, RangeOf
<1>2. PICK i \in Places : \A j \in Places : i <= j
  <2> HIDE DEF Places
  <2> QED  BY <1>1, LeastNumber
<1>3. i \in DOMAIN lines /\ IsDisplayed(lines[i]) /\ \A j \in DOMAIN lines : IsDisplayed(lines[j]) => i <= j
  BY <1>2
<1>4. QED  BY <1>3 DEF FirstPlace

LEMMA FirstStays ==
    ASSUME lines \in Seq(Lines), Displayed # {}, NEW e \in Lines, lines' = Append(lines, e)
    PROVE  /\ FirstDisplayed' = FirstDisplayed /\ Displayed \subseteq Displayed' /\ lines' \in Seq(Lines)
<1>1. /\ DOMAIN lines = 1..Len(lines) /\ Len(lines) \in Nat /\ lines' \in Seq(Lines)
      /\ DOMAIN lines' = 1..(Len(lines) + 1) /\ \A i \in DOMAIN lines : i \in DOMAIN lines' /\ lines'[i] = lines[i]
  OBVIOUS
<1>2. Displayed \subseteq Displayed'
  BY <1>1 DEF Displayed, RangeOf
<1>3. /\ FirstPlace \in DOMAIN lines /\ IsDisplayed(lines[FirstPlace])
      /\ \A j \in DOMAIN lines : IsDisplayed(lines[j]) => FirstPlace <= j
  BY FirstPlaceIs
<1>4. /\ FirstPlace' \in DOMAIN lines' /\ IsDisplayed(lines'[FirstPlace'])
      /\ \A j \in DOMAIN lines' : IsDisplayed(lines'[j]) => FirstPlace' <= j
  <2> DEFINE Places == {i \in DOMAIN lines' : IsDisplayed(lines'[i])}
  <2>1. Places \subseteq Nat /\ FirstPlace \in Places
    BY <1>1, <1>3
  <2>2. PICK i \in Places : \A j \in Places : i <= j
    <3> HIDE DEF Places
    <3> QED  BY <2>1, LeastNumber
  <2>3. i \in DOMAIN lines' /\ IsDisplayed(lines'[i]) /\ \A j \in DOMAIN lines' : IsDisplayed(lines'[j]) => i <= j
    BY <2>2
  <2>4. FirstPlace' = CHOOSE p \in DOMAIN lines' : IsDisplayed(lines'[p]) /\ \A j \in DOMAIN lines' : IsDisplayed(lines'[j]) => p <= j
    BY DEF FirstPlace, IsDisplayed
  <2>5. QED  BY <2>3, <2>4
<1>5. FirstPlace' <= FirstPlace /\ FirstPlace' \in Nat /\ FirstPlace \in Nat
  BY <1>1, <1>3, <1>4
<1>6. FirstPlace' \in DOMAIN lines
  BY <1>1, <1>3, <1>4, <1>5
<1>7. FirstPlace <= FirstPlace'
  BY <1>1, <1>3, <1>4, <1>6
<1>8. FirstPlace' = FirstPlace
  BY <1>5, <1>7
<1>9. QED  BY <1>1, <1>2, <1>3, <1>8 DEF FirstDisplayed

LEMMA SaveAdds ==
    ASSUME NEW id, NEW found, SaveRecord(id, found)
    PROVE  /\ DOMAIN histories' = DOMAIN histories \cup {id}
           /\ \A n \in DOMAIN histories : histories'[n] = histories[n]
           /\ id \notin DOMAIN histories => histories'[id] = found
BY DEF SaveRecord, Exists

LEMMA ArchivedStays ==
    ASSUME DOMAIN histories \subseteq DOMAIN histories', \A n \in DOMAIN histories : histories'[n] = histories[n]
    PROVE  ArchivedDaily \subseteq ArchivedDaily'
BY DEF ArchivedDaily

LEMMA ArchivesGrow ==
    ASSUME ArchivesShape, NEW id, NEW found, SaveRecord(id, found),
           id[1] = "daily" => \E n \in Int : EndsWindow(n) /\ id = DailyID(n) /\ found \subseteq WindowOf(n)
    PROVE  ArchivesShape'
<1> SUFFICES ASSUME NEW d \in DOMAIN histories', d[1] = "daily"
             PROVE  \E n \in Int : EndsWindow(n) /\ d = DailyID(n) /\ histories'[d] \subseteq WindowOf(n)
  BY DEF ArchivesShape, DailyID, EndsWindow, WindowOf
<1>1. CASE d \in DOMAIN histories
  <2>1. histories'[d] = histories[d]
    BY <1>1, SaveAdds
  <2>2. QED  BY <1>1, <2>1 DEF ArchivesShape
<1>2. CASE d \notin DOMAIN histories
  <2>1. d = id /\ histories'[d] = found
    BY <1>2, SaveAdds
  <2>2. QED  BY <2>1
<1>3. QED  BY <1>1, <1>2

(* A step that leaves the loop, the promises and the daily archives as they are. *)
LEMMA OtherHistoryStep ==
    ASSUME DailyInv, UNCHANGED <<daily, promised>>, lines' \in Seq(Lines), liveTime' \in Nat,
           ArchivesShape', AskersShape', Displayed \subseteq Displayed',
           promised # {} => FirstDisplayed' = FirstDisplayed,
           DOMAIN histories \subseteq DOMAIN histories', \A n \in DOMAIN histories : histories'[n] = histories[n],
           \A id \in DOMAIN histories' : id[1] = "daily" => id \in DOMAIN histories
    PROVE  DailyInv'
<1>1. LoopShape'
  BY DEF DailyInv, LoopShape, Loops, EndsWindow, WindowOf, Idle
<1>2. ASSUME NEW e \in promised, e.at >= FirstStart' PROVE e \in ArchivedDaily' \/ ToCome(e)'
  <2>1. e.at >= FirstStart
    BY <1>2 DEF FirstStart, FirstWindowEnd, WindowEnd
  <2>2. CASE e \in ArchivedDaily
    BY <2>2, ArchivedStays
  <2>3. CASE ToCome(e)
    <3>1. ~Exists(DailyID(EndOf(e)))'
      BY <2>3, DailyName DEF ToCome, Exists
    <3>2. QED  BY <2>3, <3>1 DEF ToCome, EndOf, WindowEnd, Idle
  <2>4. QED  BY <1>2, <2>1, <2>2, <2>3 DEF DailyInv, PromisesKept
<1>3. PromisesKept'
  BY <1>2 DEF PromisesKept
<1>4. QED  BY <1>1, <1>3 DEF DailyInv

(* What an event that is to come says when the loop looks at its window. *)
LEMMA ComesFound ==
    ASSUME DailyInv, NEW e \in promised, ToCome(e), EndOf(e) = daily.next
    PROVE  /\ e \in FilterByWindow(Displayed, daily.next - Day, daily.next)
           /\ ~Exists(DailyID(daily.next))
<1>1. e \in Displayed /\ e \in Lines
  BY DEF DailyInv, Displayed, RangeOf
<1>2. e \in WindowOf(daily.next)
  BY <1>1, EventWindow
<1>3. QED  BY <1>1, <1>2 DEF FilterByWindow, WindowOf, ToCome

(* The loop goes on to the next window: nothing but the last may have been promised in it. *)
LEMMA NextWindowKeeps ==
    ASSUME DailyInv, daily # Idle, daily' = NextWindow, UNCHANGED <<lines, liveTime, asker, promised>>,
           ArchivesShape',
           DOMAIN histories \subseteq DOMAIN histories', \A n \in DOMAIN histories : histories'[n] = histories[n],
           DOMAIN histories' \subseteq DOMAIN histories \cup {DailyID(daily.next)},
           \A e \in promised : ToCome(e) /\ EndOf(e) = daily.next => e \in ArchivedDaily'
    PROVE  DailyInv'
<1>1. /\ daily \in Loops /\ daily.next <= daily.last /\ EndsWindow(daily.next) /\ EndsWindow(daily.last)
      /\ Day \in Nat \ {0} /\ daily.next \in Int /\ daily.last \in Int
  BY HistoryConstants DEF DailyInv, LoopShape, Loops
<1>2. \/ daily' = Idle /\ daily.next + Day > daily.last
      \/ /\ daily' \in Loops /\ daily'.pc = "read" /\ daily'.next = daily.next + Day /\ daily'.last = daily.last
         /\ daily'.next <= daily'.last
  <2>1. PICK n \in Int : n = daily.next + Day
    BY <1>1
  <2>2. CASE n > daily.last
    BY <2>1, <2>2 DEF NextWindow
  <2>3. CASE ~(n > daily.last)
    <3>1. daily' = [daily EXCEPT !.pc = "read", !.next = daily.next + Day, !.events = {}]
      BY <2>1, <2>3 DEF NextWindow
    <3>2. daily' = [daily EXCEPT !.pc = "read", !.next = n, !.events = {}]
      BY <2>1, <3>1
    <3>3. daily' \in Loops /\ daily'.pc = "read" /\ daily'.next = n /\ daily'.last = daily.last
      BY <1>1, <3>2 DEF Loops
    <3>4. QED  BY <1>1, <2>1, <2>3, <3>3
  <2>4. QED  BY <2>2, <2>3
<1>3. LoopShape'
  <2>1. EndsWindow(daily.next + Day)
    BY <1>1, PreviousEnds
  <2>2. daily' # Idle => EndsWindow(daily'.next) /\ EndsWindow(daily'.last)
    BY <1>1, <1>2, <2>1
  <2>3. QED  BY <1>2, <2>2 DEF LoopShape, EndsWindow, Loops
<1>4. ASSUME NEW e \in promised, e.at >= FirstStart PROVE e \in ArchivedDaily' \/ ToCome(e)'
  <2>1. CASE e \in ArchivedDaily
    BY <2>1, ArchivedStays
  <2>2. CASE ToCome(e) /\ EndOf(e) = daily.next
    BY <2>2
  <2>3. CASE ToCome(e) /\ EndOf(e) # daily.next
    <3>1. EndsWindow(EndOf(e)) /\ EndOf(e) \in Int
      BY EventWindow DEF DailyInv, Displayed, RangeOf
    <3>2. daily.next < EndOf(e) /\ EndOf(e) <= daily.last
      BY <1>1, <2>3, <3>1 DEF ToCome
    <3>3. daily.next + Day <= EndOf(e)
      BY <1>1, <3>1, <3>2, WindowsApart
    <3>4. daily' # Idle /\ daily'.next <= EndOf(e) /\ EndOf(e) <= daily'.last /\ daily'.pc = "read"
      <4>1. ~(daily.next + Day > daily.last)
        BY <1>1, <3>1, <3>2, <3>3
      <4>2. daily' \in Loops /\ daily'.pc = "read" /\ daily'.next = daily.next + Day /\ daily'.last = daily.last
        BY <1>2, <4>1
      <4>3. daily' # Idle
        BY <4>2 DEF Idle
      <4>4. QED  BY <3>2, <3>3, <4>2, <4>3
    <3>5. DailyID(EndOf(e)) # DailyID(daily.next)
      BY <2>3, SameWindow
    <3>6. DailyID(EndOf(e)) \notin DOMAIN histories'
      BY <2>3, <3>5 DEF ToCome, Exists
    <3>7. QED  BY <3>4, <3>6 DEF ToCome, Exists, EndOf, WindowEnd, Idle
  <2>4. QED  BY <1>4, <2>1, <2>2, <2>3 DEF DailyInv, PromisesKept
<1>5. PromisesKept'
  BY <1>4 DEF PromisesKept, FirstStart, FirstWindowEnd, WindowEnd, FirstDisplayed, FirstPlace, IsDisplayed
<1>6. promised' \subseteq Displayed'
  BY DEF DailyInv, Displayed
<1>7. AskersShape'
  BY DEF DailyInv, AskersShape
<1>8. QED  BY <1>3, <1>5, <1>6, <1>7 DEF DailyInv

THEOREM DailyInvariant == HistorySpec => []DailyInv
<1>1. HistoryInit => DailyInv
  <2> SUFFICES ASSUME HistoryInit PROVE DailyInv
    OBVIOUS
  <2>1. /\ lines = <<>> /\ liveTime = 0 /\ histories = <<>> /\ daily = Idle /\ promised = {}
        /\ asker = [u \in Askers |-> Idle] /\ \A u \in Askers : asker[u].pc = "idle"
    BY DEF HistoryInit, Idle
  <2>2. lines \in Seq(Lines) /\ DOMAIN histories = {}
    BY <2>1
  <2>3. QED  BY <2>1, <2>2 DEF DailyInv, LoopShape, ArchivesShape, AskersShape, PromisesKept
<1>2. DailyInv /\ [HistoryNext]_historyvars => DailyInv'
  <2> SUFFICES ASSUME DailyInv, [HistoryNext]_historyvars PROVE DailyInv'
    OBVIOUS
  <2>0. /\ lines \in Seq(Lines) /\ liveTime \in Nat /\ ArchivesShape /\ AskersShape /\ LoopShape
        /\ promised \subseteq Displayed /\ Day \in Nat \ {0} /\ PromisesKept
    BY HistoryConstants DEF DailyInv
  <2>1. ASSUME UNCHANGED <<lines, histories, daily, promised>>, liveTime' \in Nat, AskersShape' PROVE DailyInv'
    <3>1. FirstDisplayed' = FirstDisplayed /\ Displayed' = Displayed /\ ArchivesShape'
      BY <2>0, <2>1 DEF FirstDisplayed, FirstPlace, Displayed, RangeOf, IsDisplayed, ArchivesShape, DailyID, EndsWindow, WindowOf
    <3>2. QED  BY <2>0, <2>1, <3>1, OtherHistoryStep
  <2>2. ASSUME NEW u \in Askers, NEW q, asker' = [asker EXCEPT ![u] = q], q.pc = "archive" => q.id[1] = "manual"
        PROVE  AskersShape'
    <3>1. asker' = [v \in Askers |-> asker'[v]] /\ \A v \in Askers : asker'[v] = IF v = u THEN q ELSE asker[v]
      BY <2>0, <2>2 DEF AskersShape
    <3>2. \A v \in Askers : asker'[v].pc = "archive" => asker'[v].id[1] = "manual"
      BY <2>0, <2>2, <3>1 DEF AskersShape
    <3>3. QED  BY <3>1, <3>2 DEF AskersShape
  <2>3. CASE UNCHANGED historyvars
    BY <2>0, <2>1, <2>3 DEF historyvars, AskersShape
  <2>4. CASE Pass
    BY <2>0, <2>1, <2>4 DEF Pass, AskersShape
  <2>5. CASE StopPlugin
    <3>1. /\ daily' = Idle /\ promised' = promised \cap ArchivedDaily /\ UNCHANGED <<lines, liveTime, histories>>
          /\ asker' = [u \in Askers |-> Idle] /\ \A u \in Askers : asker'[u].pc = "idle"
      BY <2>5 DEF StopPlugin, Idle
    <3>2. ArchivedDaily' = ArchivedDaily /\ Displayed' = Displayed
      BY <3>1 DEF ArchivedDaily, Displayed
    <3>3. ArchivesShape' /\ AskersShape'
      BY <2>0, <3>1 DEF ArchivesShape, DailyID, EndsWindow, WindowOf, AskersShape
    <3>4. LoopShape'
      BY <3>1 DEF LoopShape, Idle
    <3>5. PromisesKept'
      BY <3>1, <3>2 DEF PromisesKept
    <3>6. QED  BY <2>0, <3>1, <3>2, <3>3, <3>4, <3>5 DEF DailyInv
  <2>6. CASE BeginDaily
    <3>1. PICK first : first = FirstWindowEnd(FirstDisplayed.at)
      OBVIOUS
    <3>2. PICK now : now = WindowEnd(liveTime)
      OBVIOUS
    <3>3. /\ daily = Idle /\ Displayed # {} /\ first <= now
          /\ daily' = [pc |-> "read", next |-> first, last |-> now, events |-> {}]
          /\ promised' = promised \cup OverFor(liveTime)
          /\ UNCHANGED <<lines, liveTime, histories, asker>>
      BY <2>6, <3>1, <3>2 DEF BeginDaily
    <3>4. FirstDisplayed \in Lines /\ FirstDisplayed.at \in Nat
      BY <2>0, <3>3, FirstPlaceIs, LinesAreStamped DEF FirstDisplayed
    <3>5. EndsWindow(first) /\ EndsWindow(now) /\ first \in Int /\ now \in Int
      BY <2>0, <3>1, <3>2, <3>4, WindowEnds DEF EndsWindow
    <3>6. daily' \in Loops /\ daily'.pc = "read" /\ daily'.next = first /\ daily'.last = now /\ daily' # Idle
      BY <3>3, <3>5 DEF Loops, Idle
    <3>7. LoopShape'
      BY <3>3, <3>5, <3>6 DEF LoopShape, EndsWindow
    <3>8. /\ ArchivesShape' /\ AskersShape' /\ Displayed' = Displayed /\ promised' \subseteq Displayed'
          /\ ArchivedDaily' = ArchivedDaily /\ FirstStart' = FirstStart /\ FirstStart = first - Day
      <4>1. ArchivesShape' /\ AskersShape' /\ ArchivedDaily' = ArchivedDaily /\ Displayed' = Displayed
        BY <2>0, <3>3 DEF ArchivesShape, DailyID, EndsWindow, WindowOf, AskersShape, Displayed, ArchivedDaily
      <4>2. promised' \subseteq Displayed'
        BY <2>0, <3>3, <4>1 DEF OverFor
      <4>3. FirstDisplayed' = FirstDisplayed
        BY <3>3 DEF FirstDisplayed, FirstPlace, IsDisplayed
      <4>4. FirstStart' = FirstStart
        BY <4>3 DEF FirstStart, FirstWindowEnd, WindowEnd
      <4>5. FirstStart = first - Day
        BY <3>1 DEF FirstStart
      <4>6. QED  BY <4>1, <4>2, <4>4, <4>5
    <3>9. ASSUME NEW e \in promised', e.at >= FirstStart PROVE e \in ArchivedDaily \/ ToCome(e)'
      <4>1. CASE e \in promised
        <5>1. ~ToCome(e)
          BY <3>3 DEF ToCome
        <5>2. QED  BY <2>0, <3>9, <4>1, <5>1 DEF PromisesKept
      <4>2. CASE e \in OverFor(liveTime)
        <5>1. /\ e \in Lines /\ EndOf(e) <= now /\ ~Exists(DailyID(EndOf(e)))
          BY <2>0, <3>2, <4>2 DEF OverFor, EndOf, Displayed, RangeOf
        <5>2. /\ e.at \in Nat /\ EndsWindow(EndOf(e)) /\ EndOf(e) \in Int /\ e \in WindowOf(EndOf(e))
          BY <5>1, EventWindow, LinesAreStamped
        <5>3. first <= EndOf(e)
          <6>1. first - Day <= e.at /\ e.at < EndOf(e)
            BY <3>8, <3>9, <5>2 DEF WindowOf
          <6>2. EndOf(e) < first => EndOf(e) + Day <= first
            BY <3>5, <5>2, WindowsApart
          <6>3. QED  BY <2>0, <3>5, <5>2, <6>1, <6>2
        <5>4. QED  BY <3>3, <3>6, <5>1, <5>3 DEF ToCome, Exists, EndOf, WindowEnd, Idle, DailyID
      <4>3. QED  BY <3>3, <4>1, <4>2
    <3>10. PromisesKept'
      BY <3>8, <3>9 DEF PromisesKept
    <3>11. QED  BY <2>0, <3>3, <3>7, <3>8, <3>10 DEF DailyInv
  <2>7. CASE ReadWindow
    <3>1. PICK found : found = FilterByWindow(Displayed, daily.next - Day, daily.next)
      OBVIOUS
    <3>2. /\ daily.pc = "read" /\ UNCHANGED <<lines, liveTime, histories, asker, promised>>
          /\ daily' = IF found = {} \/ Exists(DailyID(daily.next)) THEN NextWindow
                      ELSE [daily EXCEPT !.pc = "save", !.events = found]
      BY <2>7, <3>1 DEF ReadWindow
    <3>3. daily # Idle /\ daily \in Loops
      BY <2>0, <3>2 DEF Idle, LoopShape
    <3>4. ArchivesShape' /\ AskersShape'
      BY <2>0, <3>2 DEF ArchivesShape, DailyID, EndsWindow, WindowOf, AskersShape
    <3>5. CASE found = {} \/ Exists(DailyID(daily.next))
      <4>1. \A e \in promised : ~(ToCome(e) /\ EndOf(e) = daily.next)
        BY <3>1, <3>5, ComesFound
      <4>2. QED  BY <3>2, <3>3, <3>4, <3>5, <4>1, NextWindowKeeps
    <3>6. CASE ~(found = {} \/ Exists(DailyID(daily.next)))
      <4>1. daily' = [daily EXCEPT !.pc = "save", !.events = found]
        BY <3>2, <3>6
      <4>2. found \subseteq Displayed /\ found \subseteq Lines /\ found \subseteq WindowOf(daily.next)
        BY <2>0, <3>1 DEF FilterByWindow, Displayed, RangeOf, WindowOf
      <4>3. /\ daily' \in Loops /\ daily'.pc = "save" /\ daily'.next = daily.next /\ daily'.last = daily.last
            /\ daily'.events = found /\ daily' # Idle
        BY <3>3, <4>1, <4>2 DEF Loops, Idle
      <4>4. LoopShape'
        BY <2>0, <3>3, <4>2, <4>3 DEF LoopShape, EndsWindow, WindowOf
      <4>5. /\ Displayed' = Displayed /\ ArchivedDaily' = ArchivedDaily /\ FirstStart' = FirstStart
        BY <3>2 DEF Displayed, ArchivedDaily, FirstStart, FirstWindowEnd, WindowEnd, FirstDisplayed, FirstPlace, IsDisplayed, RangeOf
      <4>6. ASSUME NEW e \in promised, ToCome(e) PROVE ToCome(e)'
        <5>1. EndOf(e) = daily.next => e \in found
          BY <3>1, <4>6, ComesFound
        <5>2. QED  BY <3>2, <4>3, <4>6, <5>1 DEF ToCome, Exists, EndOf, WindowEnd, Idle, DailyID
      <4>7. PromisesKept'
        BY <2>0, <3>2, <4>5, <4>6 DEF PromisesKept
      <4>8. QED  BY <2>0, <3>2, <3>4, <4>4, <4>5, <4>7 DEF DailyInv
    <3>7. QED  BY <3>5, <3>6
  <2>8. CASE SaveWindow
    <3>1. /\ daily.pc = "save" /\ UNCHANGED <<lines, liveTime, asker, promised>> /\ daily' = NextWindow
          /\ SaveRecord(DailyID(daily.next), daily.events)
      BY <2>8 DEF SaveWindow
    <3>2. daily # Idle /\ daily \in Loops /\ EndsWindow(daily.next) /\ daily.events \subseteq WindowOf(daily.next)
      BY <2>0, <3>1 DEF Idle, LoopShape
    <3>3. ArchivesShape'
      BY <2>0, <3>1, <3>2, ArchivesGrow DEF EndsWindow
    <3>4. /\ DOMAIN histories' = DOMAIN histories \cup {DailyID(daily.next)}
          /\ \A n \in DOMAIN histories : histories'[n] = histories[n]
          /\ DailyID(daily.next) \notin DOMAIN histories => histories'[DailyID(daily.next)] = daily.events
      BY <3>1, SaveAdds
    <3>5. ASSUME NEW e \in promised, ToCome(e), EndOf(e) = daily.next PROVE e \in ArchivedDaily'
      <4>1. e \in daily.events /\ DailyID(daily.next) \notin DOMAIN histories
        BY <3>1, <3>5 DEF ToCome, Exists
      <4>2. DailyID(daily.next)[1] = "daily" /\ DailyID(daily.next) \in DOMAIN histories'
            /\ e \in histories'[DailyID(daily.next)]
        BY <3>4, <4>1, DailyName
      <4>3. QED  BY <4>2 DEF ArchivedDaily
    <3>6. QED  BY <3>1, <3>2, <3>3, <3>4, <3>5, NextWindowKeeps
  <2>9. ASSUME NEW e \in Lines, AppendLine(e) PROVE DailyInv'
    <3>1. lines' = Append(lines, e) /\ UNCHANGED <<liveTime, histories, daily, asker, promised>>
      BY <2>9 DEF AppendLine
    <3>2. ArchivesShape' /\ AskersShape'
      BY <2>0, <3>1 DEF ArchivesShape, DailyID, EndsWindow, WindowOf, AskersShape
    <3>3. lines' \in Seq(Lines) /\ Displayed \subseteq Displayed'
      <4>1. Displayed # {} => lines' \in Seq(Lines) /\ Displayed \subseteq Displayed'
        BY <2>0, <3>1, FirstStays
      <4>2. lines' \in Seq(Lines)
        BY <2>0, <3>1
      <4>3. QED  BY <4>1, <4>2
    <3>4. promised # {} => FirstDisplayed' = FirstDisplayed
      BY <2>0, <3>1, FirstStays
    <3>5. QED  BY <2>0, <3>1, <3>2, <3>3, <3>4, OtherHistoryStep
  <2>10. ASSUME NEW u \in Askers, NEW f \in LiveForms, SendForm(u, f) PROVE DailyInv'
    <3>1. PICK q : q = [pc |-> "merge", form |-> f, rules |-> ruleFile]
      OBVIOUS
    <3>2. asker' = [asker EXCEPT ![u] = q] /\ UNCHANGED <<lines, liveTime, histories, daily, promised>> /\ q.pc # "archive"
      BY <2>10, <3>1 DEF SendForm
    <3>3. QED  BY <2>0, <2>1, <2>2, <3>2
  <2>11. ASSUME NEW u \in Askers, MergeLivePublicRules(u) PROVE DailyInv'
    <3>1. PICK q : q = [pc |-> "write", rules |-> MergedRules(u)]
      OBVIOUS
    <3>2. asker' = [asker EXCEPT ![u] = q] /\ UNCHANGED <<lines, liveTime, histories, daily, promised>> /\ q.pc # "archive"
      BY <2>11, <3>1 DEF MergeLivePublicRules
    <3>3. QED  BY <2>0, <2>1, <2>2, <3>2
  <2>12. ASSUME NEW u \in Askers, SaveLivePublicRules(u) PROVE DailyInv'
    <3>1. asker' = [asker EXCEPT ![u] = Idle] /\ UNCHANGED <<lines, liveTime, histories, daily, promised>> /\ Idle.pc # "archive"
      BY <2>12 DEF SaveLivePublicRules, Answered, Idle
    <3>2. QED  BY <2>0, <2>1, <2>2, <3>1
  <2>13. ASSUME NEW u \in Askers, AskForArchive(u) PROVE DailyInv'
    <3>1. PICK q : q = [pc |-> "archive", id |-> ManualID, events |-> Displayed]
      OBVIOUS
    <3>2. asker' = [asker EXCEPT ![u] = q] /\ UNCHANGED <<lines, liveTime, histories, daily, promised>> /\ q.id[1] = "manual"
      BY <2>13, <3>1 DEF AskForArchive, ManualID
    <3>3. QED  BY <2>0, <2>1, <2>2, <3>2
  <2>14. ASSUME NEW u \in Askers, SaveManual(u) PROVE DailyInv'
    <3>1. /\ asker[u].pc = "archive" /\ SaveRecord(asker[u].id, asker[u].events) /\ asker' = [asker EXCEPT ![u] = Idle]
          /\ UNCHANGED <<lines, liveTime, daily, promised>> /\ Idle.pc # "archive"
      BY <2>14 DEF SaveManual, Answered, Idle
    <3>2. asker[u].id[1] = "manual"
      BY <2>0, <3>1 DEF AskersShape
    <3>3. ArchivesShape' /\ AskersShape'
      BY <2>0, <2>2, <3>1, <3>2, ArchivesGrow
    <3>4. /\ DOMAIN histories' = DOMAIN histories \cup {asker[u].id}
          /\ \A n \in DOMAIN histories : histories'[n] = histories[n]
      BY <3>1, SaveAdds
    <3>5. \A id \in DOMAIN histories' : id[1] = "daily" => id \in DOMAIN histories
      BY <3>2, <3>4
    <3>6. FirstDisplayed' = FirstDisplayed /\ Displayed' = Displayed
      BY <3>1 DEF FirstDisplayed, FirstPlace, Displayed, RangeOf, IsDisplayed
    <3>7. QED  BY <2>0, <3>1, <3>3, <3>4, <3>5, <3>6, OtherHistoryStep
  <2>15. QED  BY <2>3, <2>4, <2>5, <2>6, <2>7, <2>8, <2>9, <2>10, <2>11, <2>12, <2>13, <2>14 DEF HistoryNext
<1>3. QED  BY <1>1, <1>2, PTL DEF HistorySpec

(* What was in the file, in a window that was over and without an archive, when the daily
   loop started is in a daily archive when the loop is done, however events arrive, people
   archive and the process stops in between, and no event is in two daily archives
   (live/store.go:717, 766, 799). *)
THEOREM DailyArchivesAreComplete == HistorySpec => []DailyArchivesComplete
<1>1. ASSUME DailyInv PROVE DailyArchivesComplete
  <2>1. ASSUME daily = Idle, NEW e \in promised, e.at >= FirstStart PROVE e \in ArchivedDaily
    BY <1>1, <2>1 DEF DailyInv, PromisesKept, ToCome
  <2>2. ASSUME NEW a \in DOMAIN histories, NEW b \in DOMAIN histories, a[1] = "daily", b[1] = "daily",
               a # b, NEW e \in histories[a] \cap histories[b]
        PROVE  FALSE
    <3>1. PICK m \in Int : EndsWindow(m) /\ a = DailyID(m) /\ histories[a] \subseteq WindowOf(m)
      BY <1>1, <2>2 DEF DailyInv, ArchivesShape
    <3>2. PICK n \in Int : EndsWindow(n) /\ b = DailyID(n) /\ histories[b] \subseteq WindowOf(n)
      BY <1>1, <2>2 DEF DailyInv, ArchivesShape
    <3>3. e \in WindowOf(m) /\ e \in WindowOf(n) /\ e \in Lines
      BY <2>2, <3>1, <3>2 DEF WindowOf
    <3>4. m = EndOf(e) /\ n = EndOf(e)
      BY <3>1, <3>2, <3>3, EventWindow
    <3>5. QED  BY <2>2, <3>1, <3>2, <3>4
  <2>3. QED  BY <2>1, <2>2 DEF DailyArchivesComplete
<1>2. QED  BY <1>1, DailyInvariant, PTL
=============================================================================

---------------------------- MODULE CreditStore ----------------------------
(***************************************************************************)
(* The online proofs of the credit system                                  *)
(* (internal/aip2p/credit_store.go).  A proof is a file in the directory   *)
(* of its day until "credit archive" moves the day into one compressed     *)
(* file or "credit clean" removes it.  The sync daemon saves and reads     *)
(* proofs, the command line tool is a process of its own, and no lock      *)
(* holds them apart.                                                       *)
(***************************************************************************)
EXTENDS Naturals, FiniteSets

CONSTANTS
    Proofs, Days,
    DayOf,          \* the day of a proof's window
    Old,            \* the days before the cutoff of the tool
    Savers,         \* goroutines that save: gossip, import of a bundle, the loop itself
    Readers,        \* goroutines that read balances and proofs
    CacheTTL,       \* cacheTTL, 30 s, in ticks of the clock
    MaxToolRuns,    \* bound: runs of the tool
    MaxCreditCrashes

ASSUME CreditConstants ==
    /\ DayOf \in [Proofs -> Days] /\ Old \subseteq Days
    /\ Days \cap {"idle", "days", "list"} = {} /\ "idle" \notin Proofs
    /\ CacheTTL \in Nat \ {0}
    /\ MaxToolRuns \in Nat /\ MaxCreditCrashes \in Nat

VARIABLES
    live,        \* the file of each proof: "none", "torn" or "whole"
    archive,     \* the archive of each day: its form and, when whole, its proofs
    saver, loading, tool,
    cache,       \* the daemon's cachedProofs, cacheDirty and the age of cacheLoadedAt
    toolRuns, creditCrashes

creditvars == <<live, archive, saver, loading, tool, cache, toolRuns, creditCrashes>>

NoArchive == [form |-> "none", has |-> {}]
Resting == [pc |-> "idle", days |-> {}, names |-> {}, found |-> {}, steady |-> {}]
NoTool == [pc |-> "idle", days |-> {}, got |-> {}, paths |-> {}]
NoCache == [proofs |-> {}, dirty |-> TRUE, age |-> CacheTTL]

CreditInit ==
    /\ live = [p \in Proofs |-> "none"] /\ archive = [d \in Days |-> NoArchive]
    /\ saver = [g \in Savers |-> "idle"] /\ loading = [r \in Readers |-> Resting]
    /\ tool = NoTool /\ cache = NoCache
    /\ toolRuns = 0 /\ creditCrashes = 0

LiveOn(d) == {p \in Proofs : DayOf[p] = d /\ live[p] # "none"}
Torn(s) == \E p \in s : live[p] = "torn"
Removed(s) == [p \in Proofs |-> IF p \in s THEN "none" ELSE live[p]]

(* The proofs some file holds whole, or the tool while it rewrites their archive;
   not those of the days that a clean is about to remove. *)
Stored(a) == {p \in Proofs : a[DayOf[p]].form = "whole" /\ p \in a[DayOf[p]].has}
Doomed(t) == IF t.pc \in {"clean", "prune"} THEN {p \in Proofs : DayOf[p] \in Old} ELSE {}
OnDisk(l, a, t) ==
    ({p \in Proofs : l[p] = "whole"} \cup Stored(a) \cup IF t.pc = "close" THEN t.got ELSE {}) \ Doomed(t)
(* What a load must find: on disk at every moment since its load began. *)
Reading(rs) == [r \in Readers |-> [rs[r] EXCEPT !.steady = @ \cap OnDisk(live', archive', tool')]]
Others(r, new) == loading' = [Reading(loading) EXCEPT ![r] = new]
Watched == loading' = Reading(loading)
-----------------------------------------------------------------------------
(* SaveProof: the name is free among the live files, then the file is written. *)
SaveBegins(g, p) ==
    /\ saver[g] = "idle" /\ live[p] = "none"
    /\ live' = [live EXCEPT ![p] = "torn"] /\ saver' = [saver EXCEPT ![g] = p]
    /\ UNCHANGED <<archive, tool, cache, toolRuns, creditCrashes>> /\ Watched
SaveEnds(g) ==
    /\ saver[g] # "idle"
    /\ live' = [live EXCEPT ![saver[g]] = IF @ = "none" THEN "none" ELSE "whole"]  \* unlinked meanwhile
    /\ cache' = [cache EXCEPT !.dirty = TRUE] /\ saver' = [saver EXCEPT ![g] = "idle"]
    /\ UNCHANGED <<archive, tool, toolRuns, creditCrashes>> /\ Watched
-----------------------------------------------------------------------------
(* ArchiveProofs, one old day after the other: read the live files, read the archive,
   truncate the archive, write both into it, remove the directory. *)
ToolStarts(pc, days, paths) ==
    /\ tool.pc = "idle" /\ toolRuns < MaxToolRuns /\ toolRuns' = toolRuns + 1
    /\ tool' = [NoTool EXCEPT !.pc = pc, !.days = days, !.paths = paths]
    /\ UNCHANGED <<live, archive, saver, cache, creditCrashes>> /\ Watched
ToolRests == UNCHANGED <<saver, cache, toolRuns, creditCrashes>> /\ Watched

ArchiveStarts == ToolStarts("load", {d \in Old : LiveOn(d) # {}}, {})
ArchiveLoads(d) ==
    /\ tool.pc = "load" /\ d \in tool.days
    /\ tool' = IF Torn(LiveOn(d)) THEN NoTool
               ELSE IF LiveOn(d) = {} THEN [tool EXCEPT !.days = @ \ {d}]
               ELSE [tool EXCEPT !.pc = "merge", !.days = @ \ {d}, !.paths = {d}, !.got = LiveOn(d)]
    /\ UNCHANGED <<live, archive>> /\ ToolRests
TheDay == CHOOSE d \in tool.paths : TRUE
ArchiveMerges ==
    /\ tool.pc = "merge"
    /\ tool' = IF archive[TheDay].form = "torn" THEN NoTool
               ELSE [tool EXCEPT !.pc = "create", !.got = @ \cup archive[TheDay].has]
    /\ UNCHANGED <<live, archive>> /\ ToolRests
ArchiveCreates ==
    /\ tool.pc = "create" /\ tool' = [tool EXCEPT !.pc = "close"]
    /\ archive' = [archive EXCEPT ![TheDay] = [form |-> "torn", has |-> {}]]
    /\ UNCHANGED live /\ ToolRests
ArchiveCloses ==
    /\ tool.pc = "close" /\ tool' = [tool EXCEPT !.pc = "remove"]
    /\ archive' = [archive EXCEPT ![TheDay] = [form |-> "whole", has |-> tool.got]]
    /\ UNCHANGED live /\ ToolRests
ArchiveRemoves ==
    /\ tool.pc = "remove" /\ live' = Removed(LiveOn(TheDay))
    /\ tool' = [tool EXCEPT !.pc = "load", !.paths = {}, !.got = {}]
    /\ UNCHANGED archive /\ ToolRests
ArchiveEnds == tool.pc = "load" /\ tool.days = {} /\ tool' = NoTool
               /\ UNCHANGED <<live, archive>> /\ ToolRests

(* CleanOldProofs: every live file listed at the start is loaded and, when old,
   removed; then the archives of old days. *)
CleanStarts == ToolStarts("clean", {}, {p \in Proofs : live[p] # "none"})
CleanLive(p) ==
    /\ tool.pc = "clean" /\ p \in tool.paths
    /\ IF live[p] # "whole" THEN tool' = NoTool /\ UNCHANGED live
       ELSE /\ tool' = [tool EXCEPT !.paths = @ \ {p}]
            /\ live' = IF DayOf[p] \in Old THEN Removed({p}) ELSE live
    /\ UNCHANGED archive /\ ToolRests
CleanArchives ==
    /\ tool.pc = "clean" /\ tool.paths = {}
    /\ tool' = [tool EXCEPT !.pc = "prune", !.days = {d \in Old : archive[d].form # "none"}]
    /\ UNCHANGED <<live, archive>> /\ ToolRests
CleanArchive(d) ==
    /\ tool.pc = "prune" /\ d \in tool.days
    /\ IF archive[d].form = "torn" THEN tool' = NoTool /\ UNCHANGED archive
       ELSE tool' = [tool EXCEPT !.days = @ \ {d}] /\ archive' = [archive EXCEPT ![d] = NoArchive]
    /\ UNCHANGED live /\ ToolRests
CleanEnds == tool.pc = "prune" /\ tool.days = {} /\ tool' = NoTool
             /\ UNCHANGED <<live, archive>> /\ ToolRests
-----------------------------------------------------------------------------
(* ensureCache: a fresh cache answers; otherwise everything is loaded from disk. *)
Fresh == ~cache.dirty /\ cache.age < CacheTTL
OnlyReads == UNCHANGED <<live, archive, saver, tool, toolRuns, creditCrashes>>

LoadBegins(r) ==      \* allStoredDays lists the live days first
    /\ loading[r].pc = "idle" /\ ~Fresh /\ OnlyReads /\ UNCHANGED cache
    /\ Others(r, [Resting EXCEPT !.pc = "days", !.days = {d \in Days : LiveOn(d) # {}},
                                 !.steady = OnDisk(live, archive, tool)])
LoadDays(r) ==
    /\ loading[r].pc = "days" /\ OnlyReads /\ UNCHANGED cache
    /\ Others(r, [loading[r] EXCEPT !.pc = "list", !.days = @ \cup {d \in Days : archive[d].form # "none"}])
(* loadProofsByDateFromDisk: the names of the live files, the files, the archive. *)
ListDay(r, d) ==
    /\ loading[r].pc = "list" /\ d \in loading[r].days /\ OnlyReads /\ UNCHANGED cache
    /\ Others(r, [loading[r] EXCEPT !.pc = d, !.names = LiveOn(d)])
LoadFile(r, p) ==
    /\ p \in loading[r].names /\ OnlyReads /\ UNCHANGED cache
    /\ Others(r, IF live[p] = "whole" THEN [loading[r] EXCEPT !.names = @ \ {p}, !.found = @ \cup {p}]
                 ELSE Resting)
(* Mutant: a day that has live files is not looked for in the archive. *)
LoadArchiveUnlessLive(r) ==
    LET d == loading[r].pc  there == {p \in loading[r].found : DayOf[p] = d} IN
    /\ d \in Days /\ loading[r].names = {} /\ OnlyReads /\ UNCHANGED cache
    /\ Others(r, IF archive[d].form = "torn" THEN Resting
                 ELSE [loading[r] EXCEPT !.pc = "list", !.days = @ \ {d},
                                         !.found = @ \cup IF there = {} THEN archive[d].has ELSE {}])

LoadArchive(r) ==
    LET d == loading[r].pc IN
    /\ d \in Days /\ loading[r].names = {} /\ OnlyReads /\ UNCHANGED cache
    /\ Others(r, IF archive[d].form = "torn" THEN Resting
                 ELSE [loading[r] EXCEPT !.pc = "list", !.days = @ \ {d}, !.found = @ \cup archive[d].has])
(* The load is stored unless another one stored a fresh cache meanwhile; a proof saved
   during the load is not in it, and its dirty mark is gone. *)
StoreCache(r) ==
    /\ loading[r].pc = "list" /\ loading[r].days = {} /\ OnlyReads
    /\ cache' = IF Fresh THEN cache ELSE [proofs |-> loading[r].found, dirty |-> FALSE, age |-> 0]
    /\ Others(r, Resting)
-----------------------------------------------------------------------------
(* The thirty seconds of the cache pass. *)
Passes ==
    /\ cache.age < CacheTTL /\ cache' = [cache EXCEPT !.age = @ + 1]
    /\ UNCHANGED <<live, archive, saver, tool, toolRuns, creditCrashes>> /\ Watched

DaemonCrash ==
    /\ creditCrashes < MaxCreditCrashes /\ creditCrashes' = creditCrashes + 1
    /\ saver' = [g \in Savers |-> "idle"] /\ cache' = NoCache /\ loading' = [r \in Readers |-> Resting]
    /\ UNCHANGED <<live, archive, tool, toolRuns>>
ToolCrash ==
    /\ creditCrashes < MaxCreditCrashes /\ creditCrashes' = creditCrashes + 1
    /\ tool.pc # "idle" /\ tool' = NoTool
    /\ UNCHANGED <<live, archive, saver, cache, toolRuns>> /\ Watched

Save == \E g \in Savers : SaveEnds(g) \/ \E p \in Proofs : SaveBegins(g, p)
Tool == \/ ArchiveStarts \/ ArchiveMerges \/ ArchiveCreates \/ ArchiveCloses \/ ArchiveRemoves \/ ArchiveEnds
        \/ CleanStarts \/ CleanArchives \/ CleanEnds \/ ToolCrash
        \/ \E d \in Days : ArchiveLoads(d) \/ CleanArchive(d)
        \/ \E p \in Proofs : CleanLive(p)
LoadProofs(r) == \/ LoadBegins(r) \/ LoadDays(r) \/ LoadArchive(r) \/ StoreCache(r)
           \/ \E d \in Days : ListDay(r, d)
           \/ \E p \in Proofs : LoadFile(r, p)
CreditNext == Save \/ Tool \/ Passes \/ DaemonCrash \/ \E r \in Readers : LoadProofs(r)
CreditSpec == CreditInit /\ [][CreditNext]_creditvars
-----------------------------------------------------------------------------
CreditTypeOK ==
    /\ live \in [Proofs -> {"none", "torn", "whole"}]
    /\ \A d \in Days : /\ archive[d].form \in {"none", "torn", "whole"}
                       /\ \A p \in archive[d].has : DayOf[p] = d
    /\ \A g \in Savers : saver[g] \in Proofs \cup {"idle"}
    /\ \A r \in Readers : loading[r].found \cup loading[r].names \cup loading[r].steady \subseteq Proofs
    /\ cache.age \in 0..CacheTTL /\ tool.got \subseteq Proofs

(* A load that ends without an error has found every proof that was on disk, live or
   archived, all the while: reading the live files of a day before its archive, and
   removing them only after it, is enough against a tool that moves the day without a
   lock (credit_store.go:106, 537).  A balance never dips because of an archive. *)
ReadsMissNothing ==
    \A r \in Readers : loading[r].pc = "list" /\ loading[r].days = {} => loading[r].steady \subseteq loading[r].found
=============================================================================

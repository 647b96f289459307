---------------------------- MODULE ContentIndex ----------------------------
(***************************************************************************)
(* The index of the content pages and its caches in one App of the aip2p   *)
(* plugin (internal/plugins/aip2p/server.go, index_cache.go,               *)
(* http_cache.go).  An index is built from the bundles and from the rule,  *)
(* policy and decision files, and kept until a probe of their times and    *)
(* sizes shows a change; moderation handlers invalidate the caches; a page *)
(* is built once for the requests that wait for it.                        *)
(*                                                                         *)
(* What a source holds is its version, and a probe or a build reads them   *)
(* all in one step.  One page, under one key, stands for all of them.      *)
(* Time shows only in what may have become due, old or stale.              *)
(***************************************************************************)
EXTENDS Naturals, FiniteSets

CONSTANTS
    Sources,       \* the files an index is built from
    Deep,          \* those whose changes only a full probe shows
    Decisions,     \* the one the moderation handlers write
    Builders,      \* goroutines that may compute an index at a time
    Requests,      \* requests for the page
    MaxChanges, MaxIndexFailures   \* bounds

None == "none"
ASSUME IndexConstants ==
    /\ Deep \subseteq Sources /\ Decisions \in Sources \ Deep
    /\ MaxChanges \in Nat /\ MaxIndexFailures \in Nat
    /\ None \notin Builders \cup Requests

VARIABLES
    disk,          \* the version of every source
    indexCache,    \* the index: ready, what it holds, the probe it was stored with
    probeCache,    \* the last full probe, the quick one before it, and whether it still counts
    inCharge,      \* indexBuildCh: the builder requests wait for
    builder,
    response,      \* the page in the response cache: "none", "fresh" or "stale"
    building,      \* responseBuilds: the request that builds the page
    request,
    moderator,     \* the step of a moderation handler
    changes, failures

ivars == <<disk, indexCache, probeCache, inCharge, builder, response, building, request,
           moderator, changes, failures>>

Unread == [s \in {} |-> 0]
NoIndex == [ready |-> FALSE, holds |-> Unread, probe |-> Unread]
NoProbe == [quick |-> Unread, full |-> Unread, counts |-> FALSE]
Unused == [pc |-> "idle", quick |-> Unread, probe |-> Unread, got |-> Unread]
Answered == [pc |-> "idle", on |-> None, current |-> FALSE]

IInit ==
    /\ disk = [s \in Sources |-> 0]
    /\ indexCache = NoIndex /\ probeCache = NoProbe /\ inCharge = None
    /\ builder = [b \in Builders |-> Unused]
    /\ response = None /\ building = None
    /\ request = [r \in Requests |-> Answered] /\ moderator = "idle"
    /\ changes = 0 /\ failures = 0

Quick == [s \in Sources \ Deep |-> disk[s]]
PageRests == UNCHANGED <<response, building>>
BuilderStep == PageRests /\ UNCHANGED <<disk, inCharge, request, moderator, changes>>
-----------------------------------------------------------------------------
(* The sync daemon stores bundles, an editor changes rules or policies. *)
Change(s) ==
    /\ changes < MaxChanges /\ changes' = changes + 1
    /\ disk' = [disk EXCEPT ![s] = @ + 1]
    /\ PageRests /\ UNCHANGED <<indexCache, probeCache, inCharge, builder, request, moderator, failures>>

(* The thirty seconds of a full probe pass. *)
ProbeExpires ==
    /\ probeCache.counts /\ probeCache' = [probeCache EXCEPT !.counts = FALSE]
    /\ BuilderStep /\ UNCHANGED <<indexCache, builder, failures>>

(* computeAndStoreIndex starts, nobody building an index: when there is none, or its two
   seconds are over, which they may be at any time. *)
Starts(b) ==
    /\ inCharge = None /\ builder[b].pc = "idle" /\ inCharge' = b
    /\ builder' = [builder EXCEPT ![b].pc = "probe"]
(* The warm-up loop asks for the index every two seconds. *)
Warm(b) ==
    /\ Starts(b)
    /\ PageRests /\ UNCHANGED <<disk, indexCache, probeCache, request, moderator, changes, failures>>

(* currentIndexSignature: the quick probe, and the full one unless the last still counts. *)
QuickProbe(b) ==
    /\ builder[b].pc = "probe"
    /\ builder' = [builder EXCEPT ![b] =
         IF probeCache.counts /\ probeCache.quick = Quick
         THEN [@ EXCEPT !.pc = "compare", !.probe = probeCache.full]
         ELSE [@ EXCEPT !.pc = "full", !.quick = Quick]]
    /\ BuilderStep /\ UNCHANGED <<indexCache, probeCache, failures>>
FullProbe(b) ==
    /\ builder[b].pc = "full" /\ builder' = [builder EXCEPT ![b].pc = "probed", ![b].probe = disk]
    /\ BuilderStep /\ UNCHANGED <<indexCache, probeCache, failures>>
StoreProbe(b) ==
    /\ builder[b].pc = "probed"
    /\ probeCache' = [quick |-> builder[b].quick, full |-> builder[b].probe, counts |-> TRUE]
    /\ builder' = [builder EXCEPT ![b].pc = "compare", ![b].quick = Unread]
    /\ BuilderStep /\ UNCHANGED <<indexCache, failures>>
(* The builder is done: those that wait for it ask again, the one that runs it goes on. *)
Awake(b, ok) == [r \in Requests |->
    IF request[r].on # b THEN request[r]
    ELSE IF request[r].pc = "await" THEN [request[r] EXCEPT !.pc = "index", !.on = None]
    ELSE [request[r] EXCEPT !.pc = IF ok THEN "render" ELSE "fail", !.on = None]]
Done(b, ok) ==
    /\ inCharge' = IF inCharge = b THEN None ELSE inCharge
    /\ builder' = [builder EXCEPT ![b] = Unused] /\ request' = Awake(b, ok)
    /\ PageRests /\ UNCHANGED <<disk, probeCache, moderator, changes>>

Compare(b) ==
    /\ builder[b].pc = "compare"
    /\ IF indexCache.ready /\ indexCache.probe = builder[b].probe
       THEN Done(b, TRUE)
       ELSE /\ builder' = [builder EXCEPT ![b].pc = "build"]
            /\ BuilderStep /\ UNCHANGED probeCache
    /\ UNCHANGED <<indexCache, failures>>

(* buildIndex reads the sources, and may fail. *)
Build(b) ==
    /\ builder[b].pc = "build"
    /\ builder' = [builder EXCEPT ![b].pc = "built", ![b].got = disk]
    /\ BuilderStep /\ UNCHANGED <<indexCache, probeCache, failures>>
BuildFails(b) ==
    /\ builder[b].pc = "build" /\ failures < MaxIndexFailures /\ failures' = failures + 1
    /\ Done(b, FALSE) /\ UNCHANGED indexCache
(* Mutant: the index is stored with the signature of the files as they are now. *)
StoreIndexProbedAfter(b) ==
    /\ builder[b].pc = "built"
    /\ indexCache' = [ready |-> TRUE, holds |-> builder[b].got, probe |-> disk]
    /\ Done(b, TRUE) /\ UNCHANGED failures

StoreIndex(b) ==
    /\ builder[b].pc = "built"
    /\ indexCache' = [ready |-> TRUE, holds |-> builder[b].got, probe |-> builder[b].probe]
    /\ Done(b, TRUE) /\ UNCHANGED failures
-----------------------------------------------------------------------------
(* fetchHTTPResponseVariant.  A page that is stale is answered with and built anew in the
   background; without one, a request builds it or waits for the one that does. *)
OnlyRequests == UNCHANGED <<disk, indexCache, probeCache, moderator, changes>>
Ask(r) ==
    /\ request[r] = Answered /\ response # "fresh"
    /\ IF building = None
       THEN building' = r /\ request' = [request EXCEPT ![r] = [pc |-> "index", on |-> None, current |-> TRUE]]
       ELSE response = None /\ request' = [request EXCEPT ![r].pc = "wait"] /\ UNCHANGED building
    /\ OnlyRequests /\ UNCHANGED <<inCharge, builder, response, failures>>

(* App.index: the index that is ready, even when it is due for a recheck, which then runs
   beside; else the index of whoever builds one, or of the request's own build. *)
UseIndex(r) ==
    /\ request[r].pc = "index" /\ indexCache.ready
    /\ request' = [request EXCEPT ![r].pc = "render"]
    /\ (\E b \in Builders : Starts(b)) \/ UNCHANGED <<inCharge, builder>>
    /\ OnlyRequests /\ PageRests /\ UNCHANGED failures
AwaitIndex(r) ==
    /\ request[r].pc = "index" /\ ~indexCache.ready /\ inCharge # None
    /\ request' = [request EXCEPT ![r].pc = "await", ![r].on = inCharge]
    /\ OnlyRequests /\ PageRests /\ UNCHANGED <<inCharge, builder, failures>>
OwnIndex(r) ==
    /\ request[r].pc = "index" /\ ~indexCache.ready
    /\ \E b \in Builders : Starts(b) /\ request' = [request EXCEPT ![r].pc = "own", ![r].on = b]
    /\ OnlyRequests /\ PageRests /\ UNCHANGED failures

(* The page is stored unless the caches were invalidated meanwhile; it is answered, and
   those that wait are: with the page, or with an error when there is none. *)
EndBuild == building' = None
            /\ request' = [q \in Requests |-> IF q = building \/ request[q].pc = "wait" THEN Answered ELSE request[q]]
Render(r) ==
    /\ request[r].pc = "render" /\ EndBuild
    /\ response' = IF request[r].current THEN "fresh" ELSE response
    /\ OnlyRequests /\ UNCHANGED <<inCharge, builder, failures>>
Fails(r) ==
    /\ request[r].pc = "fail" /\ EndBuild
    /\ OnlyRequests /\ UNCHANGED <<inCharge, builder, response, failures>>

(* The page expires, or the signature of the index is another; then it is too old. *)
PageAges ==
    /\ response # None /\ response' = IF response = "fresh" THEN "stale" ELSE None
    /\ OnlyRequests /\ UNCHANGED <<inCharge, builder, building, request, failures>>
-----------------------------------------------------------------------------
(* A moderation handler saves its decision, then invalidates the index, the probe and
   whoever builds an index, and after that the pages. *)
ModeratorStep == UNCHANGED <<builder, failures, building>>
SaveDecision ==
    /\ moderator = "idle" /\ changes < MaxChanges /\ changes' = changes + 1
    /\ moderator' = "saved" /\ disk' = [disk EXCEPT ![Decisions] = @ + 1]
    /\ ModeratorStep /\ UNCHANGED <<indexCache, probeCache, inCharge, response, request>>
InvalidateIndex ==
    /\ moderator = "saved" /\ moderator' = "index"
    /\ indexCache' = NoIndex /\ probeCache' = NoProbe /\ inCharge' = None
    /\ ModeratorStep /\ UNCHANGED <<disk, response, request, changes>>
InvalidatePages ==
    /\ moderator = "index" /\ moderator' = "idle"
    /\ response' = None /\ request' = [r \in Requests |-> [request[r] EXCEPT !.current = FALSE]]
    /\ ModeratorStep /\ UNCHANGED <<disk, indexCache, probeCache, inCharge, changes>>

BuilderRuns(b) ==
    \/ QuickProbe(b) \/ FullProbe(b) \/ StoreProbe(b) \/ Compare(b) \/ Build(b) \/ StoreIndex(b)
RequestRuns(r) == UseIndex(r) \/ AwaitIndex(r) \/ OwnIndex(r) \/ Render(r) \/ Fails(r)
ModeratorRuns == InvalidateIndex \/ InvalidatePages

INext ==
    \/ \E s \in Sources : Change(s)
    \/ ProbeExpires \/ PageAges \/ SaveDecision \/ ModeratorRuns
    \/ \E b \in Builders : Warm(b) \/ BuilderRuns(b) \/ BuildFails(b)
    \/ \E r \in Requests : Ask(r) \/ RequestRuns(r)

IFairness ==
    /\ \A b \in Builders : WF_ivars(BuilderRuns(b))
    /\ WF_ivars(\E b \in Builders : Warm(b))
    /\ \A r \in Requests : WF_ivars(RequestRuns(r))
    /\ WF_ivars(ProbeExpires) /\ WF_ivars(ModeratorRuns)
ISpec == IInit /\ [][INext]_ivars /\ IFairness
-----------------------------------------------------------------------------
ITypeOK ==
    /\ indexCache.ready => DOMAIN indexCache.holds = Sources /\ DOMAIN indexCache.probe = Sources
    /\ inCharge \in Builders \cup {None} /\ (inCharge # None => builder[inCharge].pc # "idle")
    /\ building # None <=> \E r \in Requests : request[r].pc \notin {"idle", "wait"}
    /\ \A r \in Requests : request[r].pc \in {"await", "own"} => builder[request[r].on].pc # "idle"

(* Once the files stay as they are, the index that pages are made of is that of the files,
   and remains so, although a build that an invalidation overtook may store an older index
   over a newer one, and a full probe counts for thirty seconds (server.go:708): an older
   index is never stored with the probe of newer files. *)
IndexCatchesUp == <>[](indexCache.ready /\ indexCache.holds = disk)

(* A request that waits for a page, or builds one, is answered, when the build it waits
   for fails, and when the caches are invalidated under it (http_cache.go:262,
   server.go:682). *)
EveryRequestAnswered == \A r \in Requests : []<>(request[r].pc = "idle")
=============================================================================

----------------------------- MODULE MCBundleSync -----------------------------
(* One instance each of the queue files of the sync daemon, of the bundle store, of
   the supervisor and of the index of the content pages.  They share no state in the
   model, so "part" picks the one that runs and the others rest: the states are the
   sum of the four. *)
EXTENDS SyncQueue, BundleStore, SyncSupervisor, ContentIndex

CONSTANTS a, b, m, b1, b2, b3, n1, n2

NoDirect == <<>>
Ages == [x \in Bundles |-> IF x = b2 THEN 1 ELSE 2]
TwoNames == [x \in Bundles |-> IF x = b3 THEN n2 ELSE n1]

VARIABLE part
vars == <<part, qvars, bvars, supvars, ivars>>

Init == /\ part \in {"queue", "store", "supervisor", "index"}
        /\ QInit /\ BInit /\ SupInit /\ IInit

QueueRuns(A) == part = "queue" /\ A /\ UNCHANGED <<part, bvars, supvars, ivars>>
StoreRuns(A) == part = "store" /\ A /\ UNCHANGED <<part, qvars, supvars, ivars>>
SupervisorRuns(A) == part = "supervisor" /\ A /\ UNCHANGED <<part, qvars, bvars, ivars>>
(* The second request only comes while the first builds the page. *)
IndexRuns(A) == part = "index" /\ A /\ UNCHANGED <<part, qvars, bvars, supvars>> /\ building' # "s"
Next == QueueRuns(QNext) \/ StoreRuns(BNext) \/ SupervisorRuns(SupNext) \/ IndexRuns(INext)

(* The fairness of the four specifications.  Only one part runs, so fairness of a step of
   one part or of another is fairness of both. *)
Fairness ==
    /\ WF_vars(QueueRuns(DaemonStep) \/ StoreRuns(LoopRuns) \/ SupervisorRuns(Tick) \/ IndexRuns(BuilderRuns("g")))
    /\ WF_vars(QueueRuns(Restart) \/ SupervisorRuns(LoopStep) \/ IndexRuns(BuilderRuns("h")))
    /\ WF_vars(IndexRuns(\E g \in Builders : Warm(g)))
    /\ \A r \in Requests : WF_vars(IndexRuns(RequestRuns(r)))
    /\ WF_vars(IndexRuns(ProbeExpires))
    /\ WF_vars(IndexRuns(ModeratorRuns))
Spec == Init /\ [][Next]_vars /\ Fairness

(* KeepsTrying, when the supervisor is what runs. *)
SupervisorKeepsTrying == part = "supervisor" => KeepsTrying

(* The supervisor neither gives up nor kills a worker that works. *)
SupervisorLetsWork == SupervisorKeepsTrying /\ ProgressIsSeen

(* The pages catch up and every request is answered, when the index is what runs. *)
PagesCatchUp == part = "index" => IndexCatchesUp /\ EveryRequestAnswered

(* The daemon passes over nothing: each queued reference is tried, each bundle announced. *)
NothingIsPassedOver == EveryRefIsTried /\ EventuallyAnnounced
=============================================================================

-------------------------- MODULE MCTeamSyncOutbox --------------------------
(***************************************************************************)
(* Instances of TeamSyncOutbox: two messages of one channel (a log), or    *)
(* two versions of one channel configuration (a register).                 *)
(***************************************************************************)
EXTENDS TeamSyncOutbox

CONSTANTS k1, k2, s1

MCStateKeyOf == [k \in Key |-> s1]
MCBucketOf == [s \in StateKey |-> s]
MCVersionOf == [k \in Key |-> IF k = k1 THEN 1 ELSE 2]

\* The writes that fail come before the crash; after the last crash the file is not read
\* again, and what a failure does to the scan and the ack handler is the same.
EarlyFaultsSpec == Init /\ [][Next /\ (restarts = 0 \/ faults' = faults)]_vars

-----------------------------------------------------------------------------
(* What the project's runbooks say of the outbox.                          *)

\* "Objects added between restarts go on being published from the persisted cursor":
\* once a cursor exists, a scan remembers an object this node wrote as seen only if it
\* went out.  The first scan after a restart does not: an object older than the cursor,
\* whose publish failed, is taken for published.  It goes out only when the seen set has
\* forgotten it, half an hour later (EventuallyPublished), not from the cursor.
CursorCatchesUp ==
  [][\A k \in LocalKey :
       (k \in seen' \ seen /\ cp[StateKeyOf[k]] # 0) => k \in sent]_vars

=============================================================================

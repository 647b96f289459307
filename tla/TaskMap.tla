------------------------------- MODULE TaskMap -------------------------------
(***************************************************************************)
(* What the task store of a team promises: a map from tasks to versions.   *)
(* One call at a time sets a task or removes it, whole or not at all.  The *)
(* promise ends when a call is cut short where it cannot be undone.        *)
(***************************************************************************)
EXTENDS Naturals

CONSTANTS Task, Version

VARIABLES
  val,    \* val[t]: version of t, 0 when absent
  call,   \* the call under way, if any
  intact  \* no call was cut short where it cannot be undone

tvars == <<val, call, intact>>

Absent == 0
NoCall == [ver |-> Absent]
Call == [task : Task, ver : Version \cup {Absent}]

TInit ==
  /\ val \in [Task -> Version \cup {Absent}]
  /\ call = NoCall
  /\ intact = TRUE

Start ==
  /\ call = NoCall /\ call' \in Call
  /\ UNCHANGED val

Commit ==
  /\ call \in Call /\ call' = NoCall
  /\ val' = [val EXCEPT ![call.task] = call.ver]

Drop ==
  /\ call \in Call /\ call' = NoCall
  /\ UNCHANGED val

Break == intact = TRUE /\ intact' = FALSE

TNext ==
  \/ intact' = intact /\ (Start \/ Commit \/ Drop)
  \/ Break
  \/ intact = FALSE /\ intact' = FALSE

TSpec == TInit /\ [][TNext]_tvars
=============================================================================

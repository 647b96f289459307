---------------------------- MODULE SyncSupervisor ----------------------------
(***************************************************************************)
(* ManagedSyncSupervisor (internal/plugins/aip2p/sync_supervisor.go): the  *)
(* serve process keeps one sync worker process running, restarts it when   *)
(* it exits, stops writing its status file or stops making progress, and   *)
(* opens a circuit after too many restarts.  A unit of time is the ticker  *)
(* of 30 seconds; the backoff of 1 to 10 seconds is shorter than that.     *)
(***************************************************************************)
EXTENDS Naturals, Sequences, FiniteSets

CONSTANTS
    StaleAfter,   \* cfg.StaleAfter, in ticks
    Window,       \* supervisorRestartWindow
    Threshold,    \* supervisorRestartThreshold
    Cooldown,     \* supervisorCircuitCooldown
    MaxEvents     \* bound: events the workers report

ASSUME SupervisorConstants ==
    /\ StaleAfter \in Nat \ {0} /\ Window \in Nat \ {0} /\ Threshold \in Nat \ {0}
    /\ Cooldown \in Nat \ {0} /\ MaxEvents \in Nat
    /\ Cooldown >= Window   \* both are two minutes

VARIABLES
    loopAt,     \* where loop is: "check", "start", "running", "delay" or "stopped"
    cancelled,  \* Stop was called
    worker,     \* the worker: "none", "alive" or "exited" (and not noticed yet)
    status,     \* the status file: the last event, whether refs are queued, its age
    events,     \* events reported so far; each has a time of its own
    eventAge,   \* history: the age of the last event
    progress,   \* the snapshot: the event seen and the age of ObservedAt
    restarts,   \* the ages of s.restarts
    circuit,    \* the time until CircuitOpenUntil; 0: closed
    recorded    \* history: the ages of all restarts younger than Window

supvars == <<loopAt, cancelled, worker, status, events, eventAge, progress, restarts, circuit, recorded>>

Old == StaleAfter + 1           \* ages are counted up to here
Blank == [event |-> 0, age |-> Old + 1]   \* a zero ObservedAt
NoStatus == [event |-> 0, queued |-> FALSE, age |-> Old + 1]   \* no file, or no PID in it

SupInit ==
    /\ loopAt = "check" /\ cancelled = FALSE /\ worker = "none"
    /\ status = NoStatus /\ events = 0 /\ eventAge = Old
    /\ progress = Blank /\ restarts = <<>> /\ circuit = 0 /\ recorded = <<>>

Older(n, cap) == IF n < cap THEN n + 1 ELSE n
Aged(s) == [i \in DOMAIN s |-> s[i] + 1]
(* trimRestartWindow; the oldest restarts are at the head. *)
TooOld(s, age) == CHOOSE k \in 0..Len(s) : \A i \in 1..Len(s) : i <= k <=> s[i] >= age
Younger(s, age) == SubSeq(s, TooOld(s, age) + 1, Len(s))

(* Time passes; only a status or a snapshot that exists grows older. *)
Tick ==
    /\ status' = IF status = NoStatus THEN NoStatus ELSE [status EXCEPT !.age = Older(@, Old)]
    /\ progress' = IF progress = Blank THEN Blank ELSE [progress EXCEPT !.age = Older(@, Old)]
    /\ eventAge' = Older(eventAge, Old)
    /\ restarts' = Younger(Aged(restarts), Window + 1)   \* older ones are trimmed before use
    /\ recorded' = Younger(Aged(recorded), Window)
    /\ circuit' = IF circuit = 0 THEN 0 ELSE circuit - 1
    /\ UNCHANGED <<loopAt, cancelled, worker, events>>
-----------------------------------------------------------------------------
(* recordRestart: the restart that fills the window opens the circuit and clears
   the list. *)
RecordRestart ==
    /\ recorded' = Append(recorded, 0)
    /\ IF Len(restarts) + 1 >= Threshold
       THEN restarts' = <<>> /\ circuit' = Cooldown
       ELSE restarts' = Append(restarts, 0) /\ UNCHANGED circuit
Quiet == UNCHANGED <<restarts, circuit, recorded>>

(* The head of the loop: a cancelled supervisor kills the child it knows; an open
   circuit is waited for, and forgets the restarts when it closes. *)
LoopHead ==
    /\ loopAt = "check"
    /\ IF cancelled THEN loopAt' = "stopped" /\ worker' = "none"
       ELSE circuit = 0 /\ loopAt' = "start" /\ UNCHANGED worker
    /\ UNCHANGED <<cancelled, status, events, eventAge, progress>> /\ Quiet
CancelledWhileWaiting ==
    /\ loopAt \in {"check", "delay"} /\ cancelled
    /\ loopAt' = "stopped"
    /\ UNCHANGED <<cancelled, worker, status, events, eventAge, progress>> /\ Quiet

StartChild ==
    /\ loopAt = "start"
    /\ loopAt' = "running" /\ worker' = "alive" /\ circuit' = 0
    /\ UNCHANGED <<cancelled, status, events, eventAge, progress, restarts, recorded>>
(* Mutant: a start that fails ends the loop. *)
StartFailsForGood ==
    /\ loopAt = "start"
    /\ loopAt' = "stopped" /\ RecordRestart
    /\ UNCHANGED <<cancelled, worker, status, events, eventAge, progress>>

StartFails ==
    /\ loopAt = "start"
    /\ loopAt' = "delay" /\ RecordRestart
    /\ UNCHANGED <<cancelled, worker, status, events, eventAge, progress>>
(* Mutant: the stopped supervisor leaves its worker. *)
StopForgetsWorker ==
    /\ loopAt = "running" /\ cancelled
    /\ loopAt' = "stopped"
    /\ UNCHANGED <<cancelled, worker, status, events, eventAge, progress>> /\ Quiet

(* The select of a running worker: cancelled, exited, or the ticker. *)
StopRunning ==
    /\ loopAt = "running" /\ cancelled
    /\ loopAt' = "stopped" /\ worker' = "none"
    /\ UNCHANGED <<cancelled, status, events, eventAge, progress>> /\ Quiet
WorkerExited ==
    /\ loopAt = "running" /\ worker = "exited"
    /\ loopAt' = "delay" /\ worker' = "none" /\ progress' = Blank
    /\ RecordRestart
    /\ UNCHANGED <<cancelled, status, events, eventAge>>
(* progressSnapshotFromStatus: a snapshot that saw something else, or nothing yet,
   is of now. *)
NextSnapshot ==
    IF progress = Blank \/ progress.event # status.event
    THEN [event |-> status.event, age |-> 0]
    ELSE progress
(* evaluateSyncHealth: the reason to restart, and the snapshot that is kept. *)
Health ==
    IF status = NoStatus THEN [reason |-> "", next |-> Blank]
    ELSE IF status.age > StaleAfter THEN [reason |-> "stale_heartbeat", next |-> progress]
    ELSE [reason |-> IF status.queued /\ NextSnapshot.age > StaleAfter THEN "stalled_queue" ELSE "",
          next |-> NextSnapshot]
CheckHealthy ==
    /\ loopAt = "running"
    /\ Health.reason = "" /\ progress' = Health.next
    /\ UNCHANGED <<loopAt, cancelled, worker, status, events, eventAge>> /\ Quiet
KillWorker ==
    /\ loopAt = "running"
    /\ Health.reason # "" /\ progress' = Health.next
    /\ loopAt' = "delay" /\ worker' = "none"
    /\ RecordRestart
    /\ UNCHANGED <<cancelled, status, events, eventAge>>

DelayOver ==
    /\ loopAt = "delay" /\ loopAt' = "check"
    /\ UNCHANGED <<cancelled, worker, status, events, eventAge, progress>> /\ Quiet

(* The worker writes its status, with or without an event since the last one, and
   may exit at any time. *)
WorkerReports ==
    /\ worker = "alive"
    /\ \E q \in BOOLEAN :
         \/ /\ status' = [event |-> status.event, queued |-> q, age |-> 0]
            /\ UNCHANGED <<events, eventAge>>
         \/ /\ events < MaxEvents /\ events' = events + 1 /\ eventAge' = 0
            /\ status' = [event |-> events + 1, queued |-> q, age |-> 0]
    /\ UNCHANGED <<loopAt, cancelled, worker, progress>> /\ Quiet
WorkerDies ==
    /\ worker = "alive" /\ worker' = "exited"
    /\ UNCHANGED <<loopAt, cancelled, status, events, eventAge, progress>> /\ Quiet
Stop ==
    /\ ~cancelled /\ cancelled' = TRUE
    /\ UNCHANGED <<loopAt, worker, status, events, eventAge, progress>> /\ Quiet

LoopStep ==
    \/ LoopHead \/ CancelledWhileWaiting \/ StartChild \/ StartFails \/ StopRunning
    \/ WorkerExited \/ KillWorker \/ DelayOver
SupNext == Tick \/ LoopStep \/ CheckHealthy \/ WorkerReports \/ WorkerDies \/ Stop
SupSpec == SupInit /\ [][SupNext]_supvars
SupFair == WF_supvars(Tick) /\ WF_supvars(LoopStep)
-----------------------------------------------------------------------------
SupTypeOK ==
    /\ loopAt \in {"check", "start", "running", "delay", "stopped"} /\ cancelled \in BOOLEAN
    /\ worker \in {"none", "alive", "exited"}
    /\ status \in [event: 0..MaxEvents, queued: BOOLEAN, age: 0..(Old + 1)]
    /\ events \in 0..MaxEvents /\ eventAge \in 0..Old
    /\ progress \in [event: 0..MaxEvents, age: 0..(Old + 1)]
    /\ restarts \in Seq(0..Window) /\ circuit \in 0..Cooldown
    /\ recorded \in Seq(0..(Window - 1))

(* However the workers die and starts fail, fewer than Threshold + 1 restarts happen
   in any Window, although opening the circuit forgets those already counted. *)
NoRestartStorm == Len(recorded) <= Threshold

(* A worker that reported an event within StaleAfter is not killed as stalled, whatever
   the snapshot was inherited from: an exited worker, or one that was killed. *)
ProgressIsSeen ==
    [][KillWorker /\ Health.reason = "stalled_queue" => eventAge > StaleAfter]_supvars

(* A supervisor that was stopped leaves no worker behind, wherever the loop was. *)
StopLeavesNoWorker == loopAt = "stopped" => worker = "none"

(* Both of the workers it starts. *)
WorkersBounded == NoRestartStorm /\ StopLeavesNoWorker

(* The circuit closes again: until Stop, the supervisor keeps coming back to a
   running worker or to the attempt to start one, however often that failed. *)
KeepsTrying == []<>(loopAt \in {"start", "running"} \/ cancelled)
=============================================================================

--------------------------- MODULE RunLifecycle ---------------------------
(***************************************************************************)
(* The life of a run inside the daemon: client requests (server.rs), spawn *)
(* and drain tasks (executor.rs), the heartbeat tick, the per-run monitors *)
(* and the handlers of their outcomes (heartbeat.rs), interleaved on the   *)
(* registry of module RunRegistry.                                         *)
(*                                                                         *)
(* One action is one critical section of the registry mutex or of the      *)
(* monitors mutex, together with the tmux calls up to the next await.      *)
(* What a tmux session, a disk, the network or a monitor's watchdogs do is *)
(* the environment's choice; the constants Requests, Outcomes and Faults   *)
(* say which of these choices a model explores.                            *)
(***************************************************************************)
EXTENDS RunRegistry

CONSTANTS
    MaxConcurrent,   \* max_concurrent_runs; 0 means no limit
    Slots,           \* monitor tasks that may coexist for one run (model bound)
    MaxClients,      \* stop and detach requests in progress at once (model bound)
    Requests,        \* client requests explored
    Outcomes,        \* monitor outcomes explored
    Faults           \* external failures explored

ASSUME SlotsAssumption == Slots \subseteq Nat \ {0}
ASSUME MaxConcurrentAssumption == MaxConcurrent \in Nat

VARIABLES
    task,     \* spawn task of each run: spawn_run or spawn_queued_run
    client,   \* progress of a stop_run or DetachRun handler of each run
    mon,      \* monitor tasks of each run, outcome handling included
    handle,   \* HeartbeatMonitor::monitors: the slot whose handle is in the map
    hb,       \* the heartbeat tick in progress
    alive     \* the runs whose tmux session gw-<run> exists (external)

vars == <<status, tmux, locks, queue, order, fails,
          task, client, mon, handle, hb, alive>>

----------------------------------------------------------------------------
NoTask == [kind |-> "none", pc |-> "none"]

Task(kind, pc) == [kind |-> kind, pc |-> pc]

TaskKind == {"direct", "drain", "retry"}

(* "preflight" before the registry is touched, "registered" with the repo  *)
(* lock taken, "waiting" in the 12 s init wait with the session up,        *)
(* "error" when spawn_queued_run has returned an error to the drain task.  *)
TaskPC == {"preflight", "registered", "waiting", "error"}

ClientPC == {"none", "cancel", "read", "exit", "mark", "drain", "detach"}

(* An outcome in hand, not yet handled.                                    *)
Outcome == {"completed", "failed", "crashed", "network", "panicked"}

(* "cancelled" is a monitor whose token is cancelled and that has not      *)
(* reached its select! yet.                                                *)
MonStage == {"none", "watch", "cancelled"} \union Outcome \union
            {"reap", "drain_ok", "drain_fail", "backoff", "netwait",
             "recover", "rec_wait"}

NoSlot == 0

IdleTick == [pc |-> "idle", active |-> {}, stopped |-> {}]

(* A run that holds its repository: Running, or on its way there.          *)
Holds(r) == \/ status[r] = "Running"
            \/ status[r] = "Queued" /\ task[r].pc \in {"registered", "waiting"}

Init ==
    /\ InitRegistry
    /\ task = [r \in Runs |-> NoTask]
    /\ client = [r \in Runs |-> "none"]
    /\ mon = [r \in Runs |-> [s \in Slots |-> "none"]]
    /\ handle = [r \in Runs |-> NoSlot]
    /\ hb = IdleTick
    /\ alive = {}

----------------------------------------------------------------------------
(* SubmitRun: one critical section decides between the queue and a direct  *)
(* spawn; the spawn happens after the lock is released.                    *)

AtCapacity == MaxConcurrent > 0 /\ CountRunning >= MaxConcurrent

MustQueue(r) == RepoOf[r] \in locks \/ AtCapacity

SubmitQueued(r) ==
    /\ "submit" \in Requests
    /\ status[r] = "absent" /\ task[r] = NoTask
    /\ MustQueue(r)
    /\ EnqueueRun(r)
    /\ UNCHANGED <<task, client, mon, handle, hb, alive>>

SubmitDirect(r) ==
    /\ "submit" \in Requests
    /\ status[r] = "absent" /\ task[r] = NoTask
    /\ ~MustQueue(r)
    /\ task' = [task EXCEPT ![r] = Task("direct", "preflight")]
    /\ UNCHANGED <<registryVars, client, mon, handle, hb, alive>>

----------------------------------------------------------------------------
(* spawn_run / spawn_queued_run.                                           *)

(* What becomes of the task when its spawn function returns an error: the  *)
(* drain task handles it, SubmitRun reports it and a retry task logs it.   *)
AfterError(r) ==
    IF task[r].kind = "drain" THEN Task("drain", "error") ELSE NoTask

PreflightFails(r) ==
    /\ "preflight" \in Faults
    /\ task[r].pc = "preflight"
    /\ task' = [task EXCEPT ![r] = AfterError(r)]
    /\ UNCHANGED <<registryVars, client, mon, handle, hb, alive>>

(* register_run for a direct spawn, promote_queued for a queued run.       *)
Register(r) ==
    /\ task[r].pc = "preflight"
    /\ IF task[r].kind = "direct" THEN RegisterRun(r) ELSE PromoteQueued(r)
    /\ task' = [task EXCEPT ![r].pc = "registered"]
    /\ UNCHANGED <<tmux, queue, order, fails, client, mon, handle, hb, alive>>

(* The repository is locked, the run is no longer Queued, or the lock file *)
(* or meta.json cannot be written; RepoLockGuard gives the lock back.      *)
RegisterFails(r) ==
    /\ task[r].pc = "preflight"
    /\ \/ "register" \in Faults
       \/ task[r].kind = "direct" /\ ~CanRegister(r)
       \/ task[r].kind # "direct" /\ ~CanPromote(r)
    /\ task' = [task EXCEPT ![r] = AfterError(r)]
    /\ UNCHANGED <<registryVars, client, mon, handle, hb, alive>>

(* spawn_after_register up to the init wait.                               *)
SpawnSession(r) ==
    /\ task[r].pc = "registered"
    /\ r \notin alive
    /\ alive' = alive \union {r}
    /\ task' = [task EXCEPT ![r].pc = "waiting"]
    /\ UNCHANGED <<registryVars, client, mon, handle, hb>>

(* Mutant: the error path returns without update_status.                   *)
SpawnSessionFails_KeepsStatus(r) ==
    /\ task[r].pc = "registered"
    /\ "spawn" \in Faults \/ r \in alive
    /\ task' = [task EXCEPT ![r] = AfterError(r)]
    /\ UNCHANGED <<registryVars, client, mon, handle, hb, alive>>

(* pre_phase_cleanup or spawn_claude_session fails.                        *)
SpawnSessionFails(r) ==
    /\ task[r].pc = "registered"
    /\ "spawn" \in Faults \/ r \in alive
    /\ TryStageStatus(r, "Failed")
    /\ task' = [task EXCEPT ![r] = AfterError(r)]
    /\ UNCHANGED <<tmux, queue, order, fails, client, mon, handle, hb, alive>>

(* Mutant: the session is not recorded in the entry.                       *)
Dispatch_NoSession(r) ==
    /\ task[r].pc = "waiting"
    /\ r \in alive
    /\ TryStageStatus(r, "Running")
    /\ \/ CanStage(r, "Running") /\ task' = [task EXCEPT ![r] = NoTask]
       \/ /\ "flush" \in Faults \/ ~CanStage(r, "Running")
          /\ task' = [task EXCEPT ![r] = AfterError(r)]
    /\ UNCHANGED <<tmux, queue, order, fails, client, mon, handle, hb, alive>>

(* The arc command is sent and the entry flips to Running; a rejected      *)
(* transition is an error that leaves the session behind, a failed flush   *)
(* of meta.json one that leaves the run Running.                           *)
Dispatch(r) ==
    /\ task[r].pc = "waiting"
    /\ r \in alive
    /\ tmux' = tmux \union {r}
    /\ TryStageStatus(r, "Running")
    /\ \/ CanStage(r, "Running") /\ task' = [task EXCEPT ![r] = NoTask]
       \/ /\ "flush" \in Faults \/ ~CanStage(r, "Running")
          /\ task' = [task EXCEPT ![r] = AfterError(r)]
    /\ UNCHANGED <<queue, order, fails, client, mon, handle, hb, alive>>

(* send_keys fails: the session is killed and the run marked Failed.       *)
DispatchFails(r) ==
    /\ task[r].pc = "waiting"
    /\ "send" \in Faults \/ r \notin alive
    /\ alive' = alive \ {r}
    /\ TryStageStatus(r, "Failed")
    /\ task' = [task EXCEPT ![r] = AfterError(r)]
    /\ UNCHANGED <<tmux, queue, order, fails, client, mon, handle, hb>>

----------------------------------------------------------------------------
(* drain_if_available: one critical section records the result, pops the   *)
(* next run (its own repository first), and starts a task for it.  F are   *)
(* the runs marked Failed in the same section, tk the tasks without it.    *)

StageFailedAndDrained(F, drained) ==
    /\ status' = [r \in Runs |-> IF r \in drained THEN "Stopped"
                                 ELSE IF r \in F THEN "Failed" ELSE status[r]]
    /\ locks' = locks \ ReleasedBy(F \union drained)

(* Mutant: the head is looked at and left in its queue.                    *)
PopInto_Peeks(src, q, kind, tk) ==
    \/ src = {} /\ queue' = q /\ task' = tk
    \/ \E p \in src :
         /\ queue' = q
         /\ task' = [tk EXCEPT ![Head(q[p])] = Task(kind, "preflight")]

PopInto(src, q, kind, tk) ==
    \/ src = {} /\ queue' = q /\ task' = tk
    \/ \E p \in src :
         /\ queue' = [q EXCEPT ![p] = Tail(@)]
         /\ task' = [tk EXCEPT ![Head(q[p])] = Task(kind, "preflight")]

DrainIfAvailable(p, failed) ==
    LET q == QueueAfter(p, failed)
        f == FailsAfter(p, failed)
    IN  /\ StageFailedAndDrained({}, Drained(p, failed))
        /\ fails' = f
        /\ PopInto(OwnElseAny(p, q, f), q, "drain", task)
        /\ UNCHANGED <<tmux, order>>

(* The drain task's error branch: mark the popped run Failed, count the    *)
(* failure, retry once with the next run of the same repository.           *)
DrainTaskFails(r) ==
    LET p == RepoOf[r]
        q == QueueAfter(p, TRUE)
        f == FailsAfter(p, TRUE)
    IN  /\ task[r].pc = "error"
        /\ StageFailedAndDrained({r}, Drained(p, TRUE))
        /\ fails' = f
        /\ PopInto(OwnQueue(p, q, f), q, "retry", [task EXCEPT ![r] = NoTask])
        /\ UNCHANGED <<tmux, order, client, mon, handle, hb, alive>>

----------------------------------------------------------------------------
(* StopRun: a pending run is dequeued on the spot; anything else goes to   *)
(* executor::stop_run, which works in steps.  One request per run at a     *)
(* time, and at most MaxClients of them, is a bound of the model.          *)

CanBegin(r) ==
    /\ client[r] = "none"
    /\ Cardinality({x \in Runs : client[x] # "none"}) < MaxClients

StopQueued(r) ==
    /\ "stop" \in Requests
    /\ status[r] = "Queued"
    /\ DequeueRun(r)
    /\ UNCHANGED <<task, client, mon, handle, hb, alive>>

StopBegin(r) ==
    /\ "stop" \in Requests
    /\ CanBegin(r)
    /\ status[r] # "absent"
    /\ ~(status[r] = "Queued" /\ IsPending(r))
    /\ client' = [client EXCEPT ![r] = "cancel"]
    /\ UNCHANGED <<registryVars, task, mon, handle, hb, alive>>

(* Mutant: the handle is dropped, the token is not cancelled.              *)
CancelMonitor_Forgets(r) ==
    /\ handle' = [handle EXCEPT ![r] = NoSlot]
    /\ UNCHANGED mon

(* Remove the monitor's handle from the map and cancel its token.          *)
CancelMonitor(r) ==
    /\ mon' = [mon EXCEPT ![r] = [s \in Slots |->
                 IF s = handle[r] /\ @[s] = "watch" THEN "cancelled" ELSE @[s]]]
    /\ handle' = [handle EXCEPT ![r] = NoSlot]

StopCancel(r) ==
    /\ client[r] = "cancel"
    /\ CancelMonitor(r)
    /\ client' = [client EXCEPT ![r] = "read"]
    /\ UNCHANGED <<registryVars, task, hb, alive>>

(* Mutant: only a Running run is worth stopping.                           *)
StopRead_RunningOnly(r) ==
    /\ client[r] = "read"
    /\ client' = [client EXCEPT ![r] = IF status[r] # "Running" THEN "none"
                                       ELSE IF r \in tmux THEN "exit"
                                       ELSE "mark"]
    /\ UNCHANGED <<registryVars, task, mon, handle, hb, alive>>

StopRead(r) ==
    /\ client[r] = "read"
    /\ client' = [client EXCEPT ![r] = IF ~Active(r) THEN "none"
                                       ELSE IF r \in tmux THEN "exit"
                                       ELSE "mark"]
    /\ UNCHANGED <<registryVars, task, mon, handle, hb, alive>>

(* /exit, the grace period and the force-kill, whose failure is logged.    *)
StopExit(r) ==
    /\ client[r] = "exit"
    /\ \/ alive' = alive \ {r}
       \/ "kill" \in Faults /\ UNCHANGED alive
    /\ client' = [client EXCEPT ![r] = "mark"]
    /\ UNCHANGED <<registryVars, task, mon, handle, hb>>

(* update_status inside the mutex: an error, with the status changed in    *)
(* memory and not on disk, ends the request before its drain.              *)
StopMark(r) ==
    /\ client[r] = "mark"
    /\ StageStatus(r, "Stopped")
    /\ \/ client' = [client EXCEPT ![r] = "drain"]
       \/ "flush" \in Faults /\ client' = [client EXCEPT ![r] = "none"]
    /\ UNCHANGED <<tmux, queue, order, fails, task, mon, handle, hb, alive>>

StopDrain(r) ==
    /\ client[r] = "drain"
    /\ DrainIfAvailable(RepoOf[r], FALSE)
    /\ client' = [client EXCEPT ![r] = "none"]
    /\ UNCHANGED <<mon, handle, hb, alive>>

(* DetachRun: any known run, whatever its status; the session survives and *)
(* no drain follows.                                                       *)
DetachCancel(r) ==
    /\ "detach" \in Requests
    /\ CanBegin(r)
    /\ status[r] # "absent"
    /\ CancelMonitor(r)
    /\ client' = [client EXCEPT ![r] = "detach"]
    /\ UNCHANGED <<registryVars, task, hb, alive>>

DetachMark(r) ==
    /\ client[r] = "detach"
    /\ StageStatus(r, "Stopped")
    /\ client' = [client EXCEPT ![r] = "none"]
    /\ UNCHANGED <<tmux, queue, order, fails, task, mon, handle, hb, alive>>

RemoveQueued(r) ==
    /\ "remove" \in Requests
    /\ DequeueRun(r)
    /\ UNCHANGED <<task, client, mon, handle, hb, alive>>

Clear(P) ==
    /\ "clear" \in Requests
    /\ ClearQueue(P)
    /\ UNCHANGED <<task, client, mon, handle, hb, alive>>

----------------------------------------------------------------------------
(* HeartbeatMonitor::check_all_runs: a snapshot under the registry mutex,  *)
(* the monitor map under its own mutex, then one pane capture per run.     *)

TickSnapshot ==
    /\ hb.pc = "idle"
    /\ hb' = [pc |-> "snapshot",
              active |-> {r \in tmux : Active(r)},
              stopped |-> {r \in Runs : status[r] \in Terminal}]
    /\ UNCHANGED <<registryVars, task, client, mon, handle, alive>>

(* Mutant: the handle of a finished monitor is never pruned.               *)
TickHandle_NoPrune(r) ==
    IF r \in hb.stopped THEN {NoSlot}
    ELSE IF handle[r] # NoSlot THEN {handle[r]}
    ELSE LET free == {s \in Slots : mon[r][s] = "none"}
         IN  IF r \in hb.active /\ free # {} THEN free ELSE {NoSlot}

(* The handle of a run after the tick: removed for a stopped run, kept     *)
(* while its task runs, inserted for an unmonitored active run (in a free  *)
(* slot), pruned once its task has finished.                               *)
TickHandle(r) ==
    IF r \in hb.stopped THEN {NoSlot}
    ELSE IF handle[r] # NoSlot
         THEN IF mon[r][handle[r]] = "none" THEN {NoSlot} ELSE {handle[r]}
    ELSE LET free == {s \in Slots : mon[r][s] = "none"}
         IN  IF r \in hb.active /\ free # {} THEN free ELSE {NoSlot}

TickMonitors ==
    /\ hb.pc = "snapshot"
    /\ \E h \in [Runs -> Slots \union {NoSlot}] :
         /\ \A r \in Runs : h[r] \in TickHandle(r)
         /\ handle' = h
         /\ mon' = [r \in Runs |-> [s \in Slots |->
                CASE s = h[r] /\ handle[r] = NoSlot -> "watch"
                  [] s = handle[r] /\ r \in hb.stopped /\ mon[r][s] = "watch"
                       -> "cancelled"
                  [] OTHER -> mon[r][s]]]
    /\ hb' = [hb EXCEPT !.pc = "capture", !.stopped = {}]
    /\ UNCHANGED <<registryVars, task, client, alive>>

(* update_phase_from_pane: the run becomes Succeeded when its pane can be  *)
(* captured, the repository's checkpoint reports completion and the run is *)
(* still Running.                                                          *)
TickCapture(r) ==
    /\ hb.pc = "capture"
    /\ r \in hb.active
    /\ hb' = [hb EXCEPT !.active = @ \ {r}]
    /\ \/ UNCHANGED <<status, locks>>
       \/ /\ "heartbeat" \in Outcomes
          /\ r \in alive
          /\ status[r] = "Running"
          /\ StageStatus(r, "Succeeded")
    /\ UNCHANGED <<tmux, queue, order, fails, task, client, mon, handle, alive>>

TickEnd ==
    /\ hb.pc = "capture"
    /\ hb.active = {}
    /\ hb' = IdleTick
    /\ UNCHANGED <<registryVars, task, client, mon, handle, alive>>

----------------------------------------------------------------------------
(* DaemonRunMonitor::run, seen from outside: a watching monitor returns an *)
(* outcome; its kill gate may have killed the session first.  A cancelled  *)
(* one returns Cancelled at its next select!, or the outcome of the poll   *)
(* it is in the middle of.                                                 *)

Stage(r, s, to) == mon' = [mon EXCEPT ![r][s] = to]

Watching(r, s) == mon[r][s] \in {"watch", "cancelled"}

MonitorReport(r, s, o) ==
    /\ Watching(r, s)
    /\ o \in Outcome
    /\ Stage(r, s, o)
    /\ \/ UNCHANGED alive
       \/ o \in {"failed", "crashed", "network"} /\ alive' = alive \ {r}
    /\ UNCHANGED <<registryVars, task, client, handle, hb>>

MonitorCancelled(r, s) ==
    /\ mon[r][s] = "cancelled"
    /\ Stage(r, s, "none")
    /\ UNCHANGED <<registryVars, task, client, handle, hb, alive>>

----------------------------------------------------------------------------
(* handle_monitor_outcome.                                                 *)

HandleCompleted(r, s) ==
    /\ mon[r][s] = "completed"
    /\ StageStatus(r, "Succeeded")
    /\ Stage(r, s, IF r \in tmux THEN "reap" ELSE "drain_ok")
    /\ UNCHANGED <<tmux, queue, order, fails, task, client, handle, hb, alive>>

(* Kill the finished session; a failure is logged.                         *)
Reap(r, s) ==
    /\ mon[r][s] = "reap"
    /\ Stage(r, s, "drain_ok")
    /\ \/ alive' = alive \ {r}
       \/ "kill" \in Faults /\ UNCHANGED alive
    /\ UNCHANGED <<registryVars, task, client, handle, hb>>

(* Failed, a fatal error class, or a monitor that panicked: only the last  *)
(* ends without a drain.                                                   *)
HandleFailed(r, s) ==
    /\ mon[r][s] \in {"failed", "panicked"}
    /\ StageStatus(r, "Failed")
    /\ Stage(r, s, IF mon[r][s] = "failed" THEN "drain_fail" ELSE "none")
    /\ UNCHANGED <<tmux, queue, order, fails, task, client, handle, hb, alive>>

(* Crashed, Stuck, Timeout or a retryable error: the crash-loop detector   *)
(* allows a restart after a backoff, or stops the run.                     *)
HandleCrashed(r, s) ==
    /\ mon[r][s] = "crashed"
    /\ \/ Stage(r, s, "backoff") /\ UNCHANGED <<status, locks>>
       \/ Stage(r, s, "drain_fail") /\ StageStatus(r, "Failed")
    /\ UNCHANGED <<tmux, queue, order, fails, task, client, handle, hb, alive>>

HandleNetwork(r, s) ==
    /\ mon[r][s] = "network"
    /\ Stage(r, s, "netwait")
    /\ UNCHANGED <<registryVars, task, client, handle, hb, alive>>

(* wait_for_connectivity gives up: Failed, and no drain.                   *)
NetworkTimeout(r, s) ==
    /\ mon[r][s] = "netwait"
    /\ StageStatus(r, "Failed")
    /\ Stage(r, s, "none")
    /\ UNCHANGED <<tmux, queue, order, fails, task, client, handle, hb, alive>>

HandlerDrain(r, s) ==
    /\ mon[r][s] \in {"drain_ok", "drain_fail"}
    /\ DrainIfAvailable(RepoOf[r], mon[r][s] = "drain_fail")
    /\ Stage(r, s, "none")
    /\ UNCHANGED <<client, handle, hb, alive>>

----------------------------------------------------------------------------
(* attempt_recovery and spawn_recovery_with_command.                       *)

(* The terminal-status gate, its own critical section.                     *)
RecoveryGate(r, s) ==
    /\ mon[r][s] \in {"backoff", "netwait"}
    /\ Stage(r, s, IF status[r] \in Terminal THEN "none" ELSE "recover")
    /\ UNCHANGED <<registryVars, task, client, handle, hb, alive>>

(* The recovery ends without a new session: the checkpoint is already      *)
(* complete, a disk is low, the session cannot be replaced, or Claude is   *)
(* still alive in it.                                                      *)
RecoveryEnds(r, s) ==
    /\ mon[r][s] = "recover"
    /\ Stage(r, s, "none")
    /\ \/ "already_done" \in Outcomes /\ StageStatus(r, "Succeeded") /\ UNCHANGED alive
       \/ "preflight" \in Faults /\ StageStatus(r, "Failed") /\ UNCHANGED alive
       \/ "spawn" \in Faults /\ StageStatus(r, "Failed") /\ alive' = alive \ {r}
       \/ "kill" \in Faults /\ r \in alive /\ StageStatus(r, "Failed") /\ UNCHANGED alive
       \/ r \in alive /\ TryStageStatus(r, "Running") /\ UNCHANGED alive
    /\ UNCHANGED <<tmux, queue, order, fails, task, client, handle, hb>>

(* The dead session is killed and a new one started.                       *)
RecoverySpawn(r, s) ==
    /\ mon[r][s] = "recover"
    /\ Stage(r, s, "rec_wait")
    /\ alive' = alive \union {r}
    /\ UNCHANGED <<registryVars, task, client, handle, hb>>

RecoveryDispatch(r, s) ==
    /\ mon[r][s] = "rec_wait"
    /\ r \in alive
    /\ tmux' = tmux \union {r}
    /\ TryStageStatus(r, "Running")
    /\ Stage(r, s, "none")
    /\ UNCHANGED <<queue, order, fails, task, client, handle, hb, alive>>

(* send_keys fails: the run is marked Failed, the session is left alone.   *)
RecoveryDispatchFails(r, s) ==
    /\ mon[r][s] = "rec_wait"
    /\ "send" \in Faults \/ r \notin alive
    /\ StageStatus(r, "Failed")
    /\ Stage(r, s, "none")
    /\ UNCHANGED <<tmux, queue, order, fails, task, client, handle, hb, alive>>

----------------------------------------------------------------------------
(* A tmux session ends by itself (external).                               *)
SessionDies(r) ==
    /\ "session" \in Faults
    /\ r \in alive
    /\ alive' = alive \ {r}
    /\ UNCHANGED <<registryVars, task, client, mon, handle, hb>>

Submit(r) == SubmitQueued(r) \/ SubmitDirect(r)

SpawnStep(r) ==
    \/ PreflightFails(r) \/ Register(r) \/ RegisterFails(r)
    \/ SpawnSession(r) \/ SpawnSessionFails(r)
    \/ Dispatch(r) \/ DispatchFails(r)
    \/ DrainTaskFails(r)

ClientStep(r) ==
    \/ StopCancel(r) \/ StopRead(r) \/ StopExit(r) \/ StopMark(r) \/ StopDrain(r)
    \/ DetachMark(r)

ClientRequest(r) ==
    \/ StopQueued(r) \/ StopBegin(r) \/ DetachCancel(r) \/ RemoveQueued(r)

Tick == TickSnapshot \/ TickMonitors \/ (\E r \in Runs : TickCapture(r)) \/ TickEnd

HandlerStep(r, s) ==
    \/ HandleCompleted(r, s) \/ Reap(r, s) \/ HandleFailed(r, s)
    \/ HandleCrashed(r, s) \/ HandleNetwork(r, s) \/ NetworkTimeout(r, s)
    \/ HandlerDrain(r, s)
    \/ RecoveryGate(r, s) \/ RecoveryEnds(r, s) \/ RecoverySpawn(r, s)
    \/ RecoveryDispatch(r, s) \/ RecoveryDispatchFails(r, s)
    \/ MonitorCancelled(r, s)

Next ==
    \/ \E r \in Runs :
         \/ Submit(r) \/ SpawnStep(r) \/ ClientRequest(r) \/ ClientStep(r)
         \/ SessionDies(r)
         \/ \E s \in Slots :
              \/ HandlerStep(r, s)
              \/ \E o \in Outcomes : MonitorReport(r, s, o)
    \/ \E P \in {Repos} \union {{p} : p \in Repos} : Clear(P)
    \/ Tick

Spec == Init /\ [][Next]_vars

(* The tokio runtime polls every task: a spawn task, a client handler and  *)
(* an outcome handler that can take a step eventually does, and the        *)
(* heartbeat interval keeps ticking.  Requests, outcomes and session       *)
(* deaths are never forced.                                                *)
Fairness ==
    /\ \A r \in Runs :
         /\ WF_vars(SpawnStep(r))
         /\ WF_vars(ClientStep(r))
         /\ \A s \in Slots : WF_vars(HandlerStep(r, s))
    /\ WF_vars(Tick)

FairSpec == Spec /\ Fairness

----------------------------------------------------------------------------
TypeOK ==
    /\ RegistryTypeOK
    /\ task \in [Runs -> {NoTask} \union [kind : TaskKind, pc : TaskPC]]
    /\ client \in [Runs -> ClientPC]
    /\ mon \in [Runs -> [Slots -> MonStage]]
    /\ handle \in [Runs -> Slots \union {NoSlot}]
    /\ hb \in [pc : {"idle", "snapshot", "capture"},
               active : SUBSET Runs, stopped : SUBSET Runs]
    /\ alive \subseteq Runs

----------------------------------------------------------------------------
(* Safety.                                                                 *)

(* No zombie lock (INV-7): a repository lock is held only while some run   *)
(* on that repository is Running or is being spawned, so a locked          *)
(* repository always has a run whose end will free it.  The lock is taken  *)
(* in register_run and promote_queued and given back, on a dozen error     *)
(* paths, only through a terminal status or RepoLockGuard.                 *)
NoLockLeak == \A p \in locks : \E r \in Runs : RepoOf[r] = p /\ Holds(r)

(* A pending entry sits in its own repository's queue, at most once, and   *)
(* is nobody else's business: no task is spawning it, it was never given a *)
(* session, and it is Queued (or Stopped, when it was detached while it    *)
(* waited).  drain_if_available, StopRun, RemoveQueued, ClearQueue and the *)
(* circuit breaker all race for the same entries.                          *)
PendingEntry(p, r) ==
    /\ RepoOf[r] = p
    /\ task[r] = NoTask
    /\ r \notin tmux
    /\ status[r] \in {"Queued", "Stopped"}

PendingSound ==
    \A p \in Repos : \A i \in DOMAIN queue[p] :
        /\ PendingEntry(p, queue[p][i])
        /\ \A j \in DOMAIN queue[p] : queue[p][i] = queue[p][j] => i = j

(* A Running run has a recorded session, so the heartbeat's tick, which    *)
(* skips entries without one, can see it; and a monitor or an outcome      *)
(* handler only ever works on such a run.                                  *)
RunningIsWatchable ==
    \A r \in Runs :
        /\ status[r] = "Running" => r \in tmux
        /\ \A s \in Slots : mon[r][s] # "none" => r \in tmux

(* A monitor whose token is not cancelled is the one in the monitors map:  *)
(* no run is watched, nudged and killed by two monitors at a time, however *)
(* stop_run, DetachRun and the tick interleave on the map.                 *)
SingleMonitor ==
    \A r \in Runs : \A s \in Slots : mon[r][s] = "watch" => handle[r] = s

(* What stage_status_locked promises (INV-6): once terminal, a run is      *)
(* never Queued or Running again, whatever late task or handler still      *)
(* holds its identifier.                                                   *)
TerminalForever ==
    [][\A r \in Runs : status[r] \in Terminal => status'[r] \in Terminal]_vars

(* FIFO within a repository: while x waits, nobody who was not ahead of it *)
(* in the queue gets ahead of it, and nobody behind it starts.  Submits,   *)
(* removals, drains and the circuit breaker all rewrite the queue.         *)
Ahead(q, x, y) == \E i, j \in DOMAIN q : i < j /\ q[i] = x /\ q[j] = y

FifoPerRepo ==
    [][\A p \in Repos : \A x \in Pending(p), y \in Runs :
         /\ ~Ahead(queue[p], y, x) => ~Ahead(queue'[p], y, x)
         /\ Ahead(queue[p], x, y) => task'[y] = NoTask]_vars

(* While runs wait, somebody is left whose end drains the queue: a Running *)
(* run, a spawn in progress, or a handler that still has its call of       *)
(* drain_if_available ahead of it.  The daemon has no other trigger for    *)
(* the queue.                                                              *)
WillDrain(r) ==
    \/ Holds(r)
    \/ task[r] # NoTask
    \/ client[r] = "drain"
    \/ \E s \in Slots : mon[r][s] \in {"reap", "drain_ok", "drain_fail"}

QueueServed ==
    (\E p \in Repos : queue[p] # <<>>) => \E r \in Runs : WillDrain(r)

----------------------------------------------------------------------------
(* Liveness, under the fairness of the daemon's own tasks.                 *)

(* `gw stop` and `gw stop --detach` take effect: a request in progress     *)
(* ends with the run in a terminal status, also when the run is being      *)
(* spawned, is recovering, or completes meanwhile.                         *)
StopTakesEffect ==
    \A r \in Runs : client[r] # "none" ~> status[r] \in Terminal

(* A Running run does not stay unwatched: it gets a monitor, or stops      *)
(* being Running, in spite of pruned handles and finished recoveries.      *)
RunningGetsMonitor ==
    \A r \in Runs :
        status[r] = "Running" ~>
            status[r] # "Running" \/ \E s \in Slots : mon[r][s] # "none"
============================================================================

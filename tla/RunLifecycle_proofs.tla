------------------------- MODULE RunLifecycle_proofs --------------------------
(***************************************************************************)
(* Theorems about the life of a run, for every set of runs, repositories   *)
(* and monitor slots, every limit, and every choice of requests, outcomes  *)
(* and faults.                                                             *)
(***************************************************************************)
EXTENDS RunLifecycle, RunRegistry_proofs, FiniteSetTheorems, WellFoundedInduction

(* The types of the variables RunLifecycle adds to the registry.           *)
TaskType == {NoTask} \union [kind : TaskKind, pc : TaskPC]

LocalTypeOK ==
    /\ task \in [Runs -> TaskType]
    /\ client \in [Runs -> ClientPC]
    /\ mon \in [Runs -> [Slots -> MonStage]]
    /\ handle \in [Runs -> Slots \union {NoSlot}]
    /\ hb \in [pc : {"idle", "snapshot", "capture"},
               active : SUBSET Runs, stopped : SUBSET Runs]
    /\ alive \subseteq Runs

(* TypeOK in two parts: the registry's variables, and the ones of this     *)
(* module.                                                                 *)
LEMMA TypeOKSplit == TypeOK <=> RegistryTypeOK /\ LocalTypeOK
BY DEF TypeOK, LocalTypeOK, TaskType

(* The daemon starts well typed, with nothing loaded.                      *)
LEMMA InitTypeOK == Init => TypeOK
<1> SUFFICES ASSUME Init PROVE TypeOK
  OBVIOUS
<1>1. \A S : <<>> \in Seq(S)
  BY EmptyQueue
<1>2. 0 \in 0..(MaxConsecutiveFailures - 1)
  BY LimitsAssumption
<1>3. RegistryTypeOK
  BY <1>1, <1>2 DEF Init, InitRegistry, RegistryTypeOK
<1>4. LocalTypeOK
  BY DEF Init, LocalTypeOK, TaskType, ClientPC, MonStage, IdleTick
<1> QED
  BY <1>3, <1>4, TypeOKSplit

(* The status changes used by the actions are to proper statuses.          *)
LEMMA Statuses ==
  {"Queued", "Running", "Succeeded", "Failed", "Stopped"} = RunStatus
BY DEF RunStatus, Terminal

(* A task in progress moves to another step of its spawn function.         *)
LEMMA TaskMoves ==
  ASSUME LocalTypeOK, NEW r \in Runs, task[r].pc # "none", NEW pc \in TaskPC
  PROVE  [task EXCEPT ![r].pc = pc] \in [Runs -> TaskType]
<1>1. task \in [Runs -> TaskType] /\ task[r] \in TaskType
  BY DEF LocalTypeOK
<1>2. task[r] \in [kind : TaskKind, pc : TaskPC]
  BY <1>1 DEF TaskType, NoTask
<1>3. [task[r] EXCEPT !.pc = pc] \in TaskType
  BY <1>2 DEF TaskType
<1> QED
  BY <1>1, <1>3

(* A monitor task moves to another stage.                                  *)
LEMMA MonitorMoves ==
  ASSUME LocalTypeOK, NEW r \in Runs, NEW s \in Slots, NEW to \in MonStage,
         Stage(r, s, to)
  PROVE  mon' \in [Runs -> [Slots -> MonStage]]
BY DEF LocalTypeOK, Stage

(* drain_if_available keeps the types of what it changes.                  *)
LEMMA PopTypes ==
  ASSUME RegistryTypeOK, NEW q \in [Repos -> Seq(Runs)],
         NEW src, \A x \in src : x \in Repos /\ q[x] # <<>>,
         NEW kind \in TaskKind, NEW tk \in [Runs -> TaskType],
         PopInto(src, q, kind, tk)
  PROVE  queue' \in [Repos -> Seq(Runs)] /\ task' \in [Runs -> TaskType]
<1>1. CASE src = {} /\ queue' = q /\ task' = tk
  BY <1>1
<1>2. ASSUME NEW p \in src,
             queue' = [q EXCEPT ![p] = Tail(@)],
             task' = [tk EXCEPT ![Head(q[p])] = Task(kind, "preflight")]
      PROVE  queue' \in [Repos -> Seq(Runs)] /\ task' \in [Runs -> TaskType]
  <2>1. Tail(q[p]) \in Seq(Runs)
    BY TailOfDistinct
  <2>2. Task(kind, "preflight") \in TaskType
    BY DEF Task, TaskType, TaskPC
  <2> QED
    BY <1>2, <2>1, <2>2
<1> QED
  BY <1>1, <1>2 DEF PopInto

(* The status changes of a drain keep the registry's types.                *)
LEMMA StageFailedTypes ==
  ASSUME RegistryTypeOK, NEW F, NEW D, StageFailedAndDrained(F, D)
  PROVE  /\ status' \in [Runs -> RunStatus \union {"absent"}]
         /\ locks' \subseteq Repos
BY Statuses DEF RegistryTypeOK, StageFailedAndDrained

(* drain_if_available keeps the types of everything it changes.            *)
LEMMA DrainTypes ==
  ASSUME RegistryTypeOK, LocalTypeOK, NEW p \in Repos, NEW failed \in BOOLEAN,
         DrainIfAvailable(p, failed)
  PROVE  RegistryTypeOK' /\ task' \in [Runs -> TaskType]
<1> DEFINE q == QueueAfter(p, failed)
           f == FailsAfter(p, failed)
<1>1. /\ StageFailedAndDrained({}, Drained(p, failed))
      /\ fails' = f
      /\ PopInto(OwnElseAny(p, q, f), q, "drain", task)
      /\ UNCHANGED <<tmux, order>>
  BY DEF DrainIfAvailable
<1>2. q \in [Repos -> Seq(Runs)] /\ f \in [Repos -> 0..(MaxConsecutiveFailures - 1)]
  BY QueueAfterFacts, FailsAfterType
<1> HIDE DEF q, f
<1>3. \A x \in OwnElseAny(p, q, f) : x \in Repos /\ q[x] # <<>>
  BY <1>2, SourceFacts
<1>4. "drain" \in TaskKind /\ task \in [Runs -> TaskType]
  BY DEF TaskKind, LocalTypeOK
<1>5. queue' \in [Repos -> Seq(Runs)] /\ task' \in [Runs -> TaskType]
  BY <1>1, <1>2, <1>3, <1>4, PopTypes
<1>6. /\ status' \in [Runs -> RunStatus \union {"absent"}]
      /\ locks' \subseteq Repos
  BY <1>1, StageFailedTypes
<1> QED
  BY <1>1, <1>2, <1>5, <1>6 DEF RegistryTypeOK

(* SubmitRun.                                                              *)
LEMMA SubmitTypes ==
  ASSUME TypeOK, NEW r \in Runs, Submit(r)
  PROVE  TypeOK'
<1>0. RegistryTypeOK /\ LocalTypeOK
  BY TypeOKSplit
<1> SUFFICES RegistryTypeOK' /\ LocalTypeOK'
  BY DEF TypeOK, LocalTypeOK, TaskType
<1>1. CASE SubmitQueued(r)
  BY <1>0, <1>1, EnqueueTypes
  DEF SubmitQueued, LocalTypeOK, TaskType, NoTask, Task, TaskKind, TaskPC
<1>2. CASE SubmitDirect(r)
  BY <1>0, <1>2
  DEF SubmitDirect, registryVars, RegistryTypeOK, LocalTypeOK, TaskType, NoTask,
      Task, TaskKind, TaskPC
<1> QED
  BY <1>1, <1>2 DEF Submit

(* The steps of a spawn task.                                              *)
LEMMA SpawnTypes ==
  ASSUME TypeOK, NEW r \in Runs, SpawnStep(r)
  PROVE  TypeOK'
<1>0. RegistryTypeOK /\ LocalTypeOK
  BY TypeOKSplit
<1> SUFFICES RegistryTypeOK' /\ LocalTypeOK'
  BY DEF TypeOK, LocalTypeOK, TaskType
<1>1. CASE PreflightFails(r)
  BY <1>0, <1>1
  DEF PreflightFails, AfterError, registryVars, RegistryTypeOK, LocalTypeOK,
      TaskType, NoTask, Task, TaskKind, TaskPC
<1>2. CASE Register(r)
  <2>1. task' \in [Runs -> TaskType]
    BY <1>0, <1>2, TaskMoves DEF Register, TaskPC
  <2>2. RegistryTypeOK'
    BY <1>0, <1>2, RepoOfAssumption
    DEF Register, RegisterRun, PromoteQueued, StatusAfter, RunStatus, RegistryTypeOK
  <2> QED
    BY <1>0, <1>2, <2>1, <2>2 DEF Register, LocalTypeOK
<1>3. CASE RegisterFails(r)
  BY <1>0, <1>3
  DEF RegisterFails, AfterError, registryVars, RegistryTypeOK, LocalTypeOK,
      TaskType, NoTask, Task, TaskKind, TaskPC
<1>4. CASE SpawnSession(r)
  <2>1. task' \in [Runs -> TaskType]
    BY <1>0, <1>4, TaskMoves DEF SpawnSession, TaskPC
  <2> QED
    BY <1>0, <1>4, <2>1 DEF SpawnSession, registryVars, RegistryTypeOK, LocalTypeOK
<1>5. CASE SpawnSessionFails(r)
  BY <1>0, <1>5, StageStatusTypes, Statuses
  DEF SpawnSessionFails, AfterError, RegistryTypeOK, LocalTypeOK, TaskType, NoTask,
      Task, TaskKind, TaskPC
<1>6. CASE Dispatch(r)
  BY <1>0, <1>6, StageStatusTypes, Statuses
  DEF Dispatch, AfterError, RegistryTypeOK, LocalTypeOK, TaskType, NoTask, Task,
      TaskKind, TaskPC
<1>7. CASE DispatchFails(r)
  BY <1>0, <1>7, StageStatusTypes, Statuses
  DEF DispatchFails, AfterError, RegistryTypeOK, LocalTypeOK, TaskType, NoTask,
      Task, TaskKind, TaskPC
<1>8. CASE DrainTaskFails(r)
  <2> DEFINE p == RepoOf[r]
             q == QueueAfter(p, TRUE)
             f == FailsAfter(p, TRUE)
             tk == [task EXCEPT ![r] = NoTask]
  <2>1. /\ StageFailedAndDrained({r}, Drained(p, TRUE))
        /\ fails' = f
        /\ PopInto(OwnQueue(p, q, f), q, "retry", tk)
        /\ UNCHANGED <<tmux, order, client, mon, handle, hb, alive>>
    BY <1>8 DEF DrainTaskFails
  <2>2. p \in Repos
    BY RepoOfAssumption
  <2>3. q \in [Repos -> Seq(Runs)] /\ f \in [Repos -> 0..(MaxConsecutiveFailures - 1)]
    BY <1>0, <2>2, QueueAfterFacts, FailsAfterType
  <2>4. "retry" \in TaskKind /\ tk \in [Runs -> TaskType]
    BY <1>0 DEF TaskKind, LocalTypeOK, TaskType
  <2> HIDE DEF p, q, f, tk
  <2>5. \A x \in OwnQueue(p, q, f) : x \in Repos /\ q[x] # <<>>
    BY <1>0, <2>2, <2>3, SourceFacts
  <2>6. queue' \in [Repos -> Seq(Runs)] /\ task' \in [Runs -> TaskType]
    BY <1>0, <2>1, <2>3, <2>4, <2>5, PopTypes
  <2>7. /\ status' \in [Runs -> RunStatus \union {"absent"}]
        /\ locks' \subseteq Repos
    BY <1>0, <2>1, StageFailedTypes
  <2> QED
    BY <1>0, <2>1, <2>3, <2>6, <2>7 DEF RegistryTypeOK, LocalTypeOK
<1> QED
  BY <1>1, <1>2, <1>3, <1>4, <1>5, <1>6, <1>7, <1>8 DEF SpawnStep

(* The first step of a stop, detach or remove request.                     *)
LEMMA RequestTypes ==
  ASSUME TypeOK, NEW r \in Runs, ClientRequest(r)
  PROVE  TypeOK'
<1>0. RegistryTypeOK /\ LocalTypeOK
  BY TypeOKSplit
<1> SUFFICES RegistryTypeOK' /\ LocalTypeOK'
  BY DEF TypeOK, LocalTypeOK, TaskType
<1>1. CASE StopQueued(r)
  BY <1>0, <1>1, DequeueTypes DEF StopQueued, LocalTypeOK
<1>2. CASE StopBegin(r)
  BY <1>0, <1>2
  DEF StopBegin, ClientPC, registryVars, RegistryTypeOK, LocalTypeOK, TaskType,
      NoTask, Task, TaskKind, TaskPC
<1>3. CASE DetachCancel(r)
  BY <1>0, <1>3
  DEF DetachCancel, CancelMonitor, ClientPC, MonStage, registryVars,
      RegistryTypeOK, LocalTypeOK, TaskType, NoTask, Task, TaskKind, TaskPC
<1>4. CASE RemoveQueued(r)
  BY <1>0, <1>4, DequeueTypes DEF RemoveQueued, LocalTypeOK
<1> QED
  BY <1>1, <1>2, <1>3, <1>4 DEF ClientRequest

(* The later steps of a stop or detach request.                            *)
LEMMA ClientTypes ==
  ASSUME TypeOK, NEW r \in Runs, ClientStep(r)
  PROVE  TypeOK'
<1>0. RegistryTypeOK /\ LocalTypeOK
  BY TypeOKSplit
<1> SUFFICES RegistryTypeOK' /\ LocalTypeOK'
  BY DEF TypeOK, LocalTypeOK, TaskType
<1>1. CASE StopCancel(r)
  BY <1>0, <1>1
  DEF StopCancel, CancelMonitor, ClientPC, MonStage, registryVars, RegistryTypeOK,
      LocalTypeOK, TaskType, NoTask, Task, TaskKind, TaskPC
<1>2. CASE StopRead(r)
  BY <1>0, <1>2
  DEF StopRead, ClientPC, registryVars, RegistryTypeOK, LocalTypeOK, TaskType,
      NoTask, Task, TaskKind, TaskPC
<1>3. CASE StopExit(r)
  BY <1>0, <1>3
  DEF StopExit, ClientPC, registryVars, RegistryTypeOK, LocalTypeOK, TaskType,
      NoTask, Task, TaskKind, TaskPC
<1>4. CASE StopMark(r)
  BY <1>0, <1>4, StageStatusTypes, Statuses
  DEF StopMark, ClientPC, RegistryTypeOK, LocalTypeOK, TaskType, NoTask, Task,
      TaskKind, TaskPC
<1>5. CASE StopDrain(r)
  BY <1>0, <1>5, DrainTypes, RepoOfAssumption DEF StopDrain, LocalTypeOK, ClientPC
<1>6. CASE DetachMark(r)
  BY <1>0, <1>6, StageStatusTypes, Statuses
  DEF DetachMark, ClientPC, RegistryTypeOK, LocalTypeOK, TaskType, NoTask, Task,
      TaskKind, TaskPC
<1> QED
  BY <1>1, <1>2, <1>3, <1>4, <1>5, <1>6 DEF ClientStep

(* The heartbeat tick.                                                     *)
LEMMA TickTypes ==
  ASSUME TypeOK, Tick
  PROVE  TypeOK'
<1>0. RegistryTypeOK /\ LocalTypeOK
  BY TypeOKSplit
<1> SUFFICES RegistryTypeOK' /\ LocalTypeOK'
  BY DEF TypeOK, LocalTypeOK, TaskType
<1>1. CASE TickSnapshot
  BY <1>0, <1>1
  DEF TickSnapshot, Active, registryVars, RegistryTypeOK, LocalTypeOK, TaskType,
      NoTask, Task, TaskKind, TaskPC
<1>2. CASE TickMonitors
  <2>1. mon' \in [Runs -> [Slots -> MonStage]]
    BY <1>0, <1>2 DEF TickMonitors, MonStage, LocalTypeOK
  <2>2. handle' \in [Runs -> Slots \union {NoSlot}]
    BY <1>2 DEF TickMonitors
  <2>3. hb' \in [pc : {"idle", "snapshot", "capture"},
               active : SUBSET Runs, stopped : SUBSET Runs]
    BY <1>0, <1>2 DEF TickMonitors, LocalTypeOK
  <2> QED
    BY <1>0, <1>2, <2>1, <2>2, <2>3
    DEF TickMonitors, registryVars, RegistryTypeOK, LocalTypeOK
<1>3. CASE \E r \in Runs : TickCapture(r)
  <2>1. PICK r \in Runs : TickCapture(r)
    BY <1>3
  <2>2. /\ hb' = [hb EXCEPT !.active = @ \ {r}]
        /\ UNCHANGED <<tmux, queue, order, fails, task, client, mon, handle, alive>>
        /\ \/ UNCHANGED <<status, locks>>
           \/ StageStatus(r, "Succeeded")
    BY <2>1 DEF TickCapture
  <2>3. RegistryTypeOK'
    <3>1. CASE UNCHANGED <<status, locks>>
      BY <1>0, <2>2, <3>1 DEF RegistryTypeOK
    <3>2. CASE StageStatus(r, "Succeeded")
      BY <1>0, <2>2, <3>2, StageStatusTypes, Statuses DEF RegistryTypeOK
    <3> QED
      BY <2>2, <3>1, <3>2
  <2>4. LocalTypeOK'
    BY <1>0, <2>2 DEF LocalTypeOK
  <2> QED
    BY <2>3, <2>4
<1>4. CASE TickEnd
  BY <1>0, <1>4
  DEF TickEnd, IdleTick, registryVars, RegistryTypeOK, LocalTypeOK, TaskType,
      NoTask, Task, TaskKind, TaskPC
<1> QED
  BY <1>1, <1>2, <1>3, <1>4 DEF Tick

(* The handlers of a monitor's outcome, and recovery.                      *)
LEMMA HandlerTypes ==
  ASSUME TypeOK, NEW r \in Runs, NEW s \in Slots, HandlerStep(r, s)
  PROVE  TypeOK'
<1>0. RegistryTypeOK /\ LocalTypeOK
  BY TypeOKSplit
<1> SUFFICES RegistryTypeOK' /\ LocalTypeOK'
  BY DEF TypeOK, LocalTypeOK, TaskType
<1>1. CASE HandleCompleted(r, s)
  BY <1>0, <1>1, StageStatusTypes, Statuses
  DEF HandleCompleted, Stage, MonStage, RegistryTypeOK, LocalTypeOK, TaskType,
      NoTask, Task, TaskKind, TaskPC
<1>2. CASE Reap(r, s)
  BY <1>0, <1>2
  DEF Reap, Stage, MonStage, registryVars, RegistryTypeOK, LocalTypeOK, TaskType,
      NoTask, Task, TaskKind, TaskPC
<1>3. CASE HandleFailed(r, s)
  BY <1>0, <1>3, StageStatusTypes, Statuses
  DEF HandleFailed, Stage, MonStage, RegistryTypeOK, LocalTypeOK, TaskType, NoTask,
      Task, TaskKind, TaskPC
<1>4. CASE HandleCrashed(r, s)
  <2>1. mon' \in [Runs -> [Slots -> MonStage]]
    BY <1>0, <1>4, MonitorMoves DEF HandleCrashed, MonStage
  <2>2. RegistryTypeOK'
    <3>1. CASE UNCHANGED <<status, locks>>
      BY <1>0, <1>4, <3>1 DEF HandleCrashed, RegistryTypeOK
    <3>2. CASE StageStatus(r, "Failed")
      <4>1. /\ status' \in [Runs -> RunStatus \union {"absent"}]
            /\ locks' \subseteq Repos
        BY <1>0, <3>2, StageStatusTypes, Statuses
      <4> QED
        BY <1>0, <1>4, <4>1 DEF HandleCrashed, RegistryTypeOK
    <3> QED
      BY <1>4, <3>1, <3>2 DEF HandleCrashed
  <2> QED
    BY <1>0, <1>4, <2>1, <2>2 DEF HandleCrashed, LocalTypeOK
<1>5. CASE HandleNetwork(r, s)
  BY <1>0, <1>5
  DEF HandleNetwork, Stage, MonStage, registryVars, RegistryTypeOK, LocalTypeOK,
      TaskType, NoTask, Task, TaskKind, TaskPC
<1>6. CASE NetworkTimeout(r, s)
  BY <1>0, <1>6, StageStatusTypes, Statuses
  DEF NetworkTimeout, Stage, MonStage, RegistryTypeOK, LocalTypeOK, TaskType,
      NoTask, Task, TaskKind, TaskPC
<1>7. CASE HandlerDrain(r, s)
  BY <1>0, <1>7, DrainTypes, RepoOfAssumption
  DEF HandlerDrain, LocalTypeOK, Stage, MonStage
<1>8. CASE RecoveryGate(r, s)
  BY <1>0, <1>8
  DEF RecoveryGate, Stage, MonStage, registryVars, RegistryTypeOK, LocalTypeOK,
      TaskType, NoTask, Task, TaskKind, TaskPC
<1>9. CASE RecoveryEnds(r, s)
  BY <1>0, <1>9, StageStatusTypes, Statuses
  DEF RecoveryEnds, Stage, MonStage, RegistryTypeOK, LocalTypeOK, TaskType, NoTask,
      Task, TaskKind, TaskPC
<1>10. CASE RecoverySpawn(r, s)
  BY <1>0, <1>10
  DEF RecoverySpawn, Stage, MonStage, registryVars, RegistryTypeOK, LocalTypeOK,
      TaskType, NoTask, Task, TaskKind, TaskPC
<1>11. CASE RecoveryDispatch(r, s)
  BY <1>0, <1>11, StageStatusTypes, Statuses
  DEF RecoveryDispatch, Stage, MonStage, RegistryTypeOK, LocalTypeOK, TaskType,
      NoTask, Task, TaskKind, TaskPC
<1>12. CASE RecoveryDispatchFails(r, s)
  BY <1>0, <1>12, StageStatusTypes, Statuses
  DEF RecoveryDispatchFails, Stage, MonStage, RegistryTypeOK, LocalTypeOK,
      TaskType, NoTask, Task, TaskKind, TaskPC
<1>13. CASE MonitorCancelled(r, s)
  BY <1>0, <1>13
  DEF MonitorCancelled, Stage, MonStage, registryVars, RegistryTypeOK, LocalTypeOK,
      TaskType, NoTask, Task, TaskKind, TaskPC
<1> QED
  BY <1>1, <1>2, <1>3, <1>4, <1>5, <1>6, <1>7, <1>8, <1>9, <1>10, <1>11, <1>12,
      <1>13
  DEF HandlerStep

(* Every step keeps the types.                                             *)
LEMMA NextTypes == TypeOK /\ [Next]_vars => TypeOK'
<1> SUFFICES ASSUME TypeOK, [Next]_vars PROVE TypeOK'
  OBVIOUS
<1>0. RegistryTypeOK /\ LocalTypeOK
  BY TypeOKSplit
<1>1. CASE UNCHANGED vars
  BY <1>1 DEF vars, TypeOK, RegistryTypeOK
<1>2. ASSUME NEW r \in Runs, SessionDies(r) PROVE TypeOK'
  BY <1>2 DEF SessionDies, TypeOK, RegistryTypeOK, registryVars
<1>3. ASSUME NEW r \in Runs, NEW s \in Slots, NEW o, MonitorReport(r, s, o)
      PROVE  TypeOK'
  <2>1. RegistryTypeOK'
    BY <1>0, <1>3 DEF MonitorReport, RegistryTypeOK, registryVars
  <2>2. LocalTypeOK'
    BY <1>0, <1>3 DEF MonitorReport, LocalTypeOK, Stage, MonStage
  <2> QED
    BY <2>1, <2>2 DEF TypeOK, LocalTypeOK, TaskType
<1>4. ASSUME NEW P, Clear(P) PROVE TypeOK'
  <2>1. RegistryTypeOK'
    BY <1>0, <1>4, ClearTypes DEF Clear
  <2>2. LocalTypeOK'
    BY <1>0, <1>4 DEF Clear, LocalTypeOK
  <2> QED
    BY <2>1, <2>2 DEF TypeOK, LocalTypeOK, TaskType
<1> QED
  BY <1>1, <1>2, <1>3, <1>4, SubmitTypes, SpawnTypes, RequestTypes, ClientTypes,
     TickTypes, HandlerTypes DEF Next

(* Type correctness: in particular a monitors map never names a slot that  *)
(* is not there, and the circuit breaker's counter stays below its limit,  *)
(* so a repository whose queue was drained by the breaker is served again. *)
THEOREM TypeCorrect == Spec => []TypeOK
BY InitTypeOK, NextTypes, PTL DEF Spec

----------------------------------------------------------------------------
(* Parts of the inductive invariant.                                       *)

(* A run the registry does not know has no session, no request, and at     *)
(* most a spawn task that has not reached the registry.                    *)
AbsentUntouched ==
    \A r \in Runs : status[r] = "absent" =>
        /\ r \notin tmux
        /\ client[r] = "none"
        /\ task[r].pc \in {"none", "preflight", "error"}

(* The tick in progress only looks at runs with a recorded session.        *)
TickSound == hb.active \subseteq tmux

(* What the steps of other tasks do to a monitor.                          *)
LEMMA StageFacts ==
  ASSUME LocalTypeOK, NEW r \in Runs, NEW s \in Slots, NEW to, Stage(r, s, to),
         NEW x \in Runs, NEW y \in Slots
  PROVE  mon'[x][y] = IF x = r /\ y = s THEN to ELSE mon[x][y]
BY DEF LocalTypeOK, Stage

(* Cancelling touches one monitor at most, the one in the map, and only if *)
(* it still watches.                                                       *)
LEMMA CancelFacts ==
  ASSUME LocalTypeOK, NEW r \in Runs, CancelMonitor(r),
         NEW x \in Runs, NEW y \in Slots
  PROVE  /\ mon'[x][y] = IF x = r /\ y = handle[r] /\ mon[x][y] = "watch"
                         THEN "cancelled" ELSE mon[x][y]
         /\ handle'[x] = IF x = r THEN NoSlot ELSE handle[x]
BY DEF LocalTypeOK, CancelMonitor

(* What one tick does to one monitor: nothing, start it for an unmonitored *)
(* run of its snapshot, or cancel the one in the map.                      *)
LEMMA TickMonitorsFacts ==
  ASSUME TypeOK, TickMonitors, NEW r \in Runs, NEW s \in Slots
  PROVE  \/ /\ mon'[r][s] = mon[r][s]
            /\ mon[r][s] = "watch" /\ handle[r] = s => handle'[r] = s
         \/ /\ mon[r][s] = "none" /\ mon'[r][s] = "watch"
            /\ handle[r] = NoSlot /\ handle'[r] = s /\ r \in hb.active
         \/ mon'[r][s] = "cancelled" /\ mon[r][s] = "watch"
<1>1. PICK h \in [Runs -> Slots \union {NoSlot}] :
        /\ \A x \in Runs : h[x] \in TickHandle(x)
        /\ handle' = h
        /\ mon' = [x \in Runs |-> [y \in Slots |->
               CASE y = h[x] /\ handle[x] = NoSlot -> "watch"
                 [] y = handle[x] /\ x \in hb.stopped /\ mon[x][y] = "watch"
                      -> "cancelled"
                 [] OTHER -> mon[x][y]]]
  BY DEF TickMonitors
<1>2. h[r] \in TickHandle(r) /\ handle'[r] = h[r]
  BY <1>1
<1>3. s # NoSlot
  BY SlotsAssumption DEF NoSlot
<1> DEFINE stage(x, y) ==
             CASE y = h[x] /\ handle[x] = NoSlot -> "watch"
               [] y = handle[x] /\ x \in hb.stopped /\ mon[x][y] = "watch"
                    -> "cancelled"
               [] OTHER -> mon[x][y]
<1>9. mon'[r][s] = stage(r, s)
  <2>1. mon' = [x \in Runs |-> [y \in Slots |-> stage(x, y)]]
    BY <1>1
  <2> HIDE DEF stage
  <2> QED
    BY <2>1
<1>4. CASE s = h[r] /\ handle[r] = NoSlot
  <2>1. mon'[r][s] = "watch"
    BY <1>9, <1>3, <1>4
  <2>2. mon[r][s] = "none" /\ r \in hb.active
    BY <1>2, <1>3, <1>4 DEF TickHandle
  <2> QED
    BY <1>2, <1>4, <2>1, <2>2
<1>5. CASE ~(s = h[r] /\ handle[r] = NoSlot)
  <2>1. CASE s = handle[r] /\ r \in hb.stopped /\ mon[r][s] = "watch"
    BY <1>9, <1>3, <1>5, <2>1
  <2>2. CASE ~(s = handle[r] /\ r \in hb.stopped /\ mon[r][s] = "watch")
    <3>1. mon'[r][s] = mon[r][s]
      BY <1>9, <1>5, <2>2
    <3>2. mon[r][s] = "watch" /\ handle[r] = s => handle'[r] = s
      BY <1>2, <1>3, <2>2 DEF TickHandle
    <3> QED
      BY <3>1, <3>2
  <2> QED
    BY <2>1, <2>2
<1> QED
  BY <1>4, <1>5

(* RunningIsWatchable and TickSound are inductive.                         *)
LEMMA WatchStep ==
  ASSUME TypeOK, RunningIsWatchable, TickSound, Next
  PROVE  RunningIsWatchable' /\ TickSound'
<1>0. RegistryTypeOK /\ LocalTypeOK
  BY TypeOKSplit
<1>1. ASSUME NEW r \in Runs,
                SubmitQueued(r) \/ StopQueued(r) \/ RemoveQueued(r)
      PROVE  RunningIsWatchable' /\ TickSound'
  BY <1>0, <1>1
  DEF SubmitQueued, StopQueued, RemoveQueued, EnqueueRun, StatusAfter, DequeueRun,
      StageStatus, RunningIsWatchable, TickSound, RegistryTypeOK, LocalTypeOK,
      Terminal
<1>2. ASSUME NEW r \in Runs,
                SubmitDirect(r) \/ PreflightFails(r) \/ RegisterFails(r)
             \/ SpawnSession(r) \/ StopBegin(r) \/ StopRead(r) \/ StopExit(r)
             \/ SessionDies(r)
      PROVE  RunningIsWatchable' /\ TickSound'
  BY <1>0, <1>2
  DEF SubmitDirect, PreflightFails, RegisterFails, SpawnSession, StopBegin,
      StopRead, StopExit, SessionDies, registryVars, Task, AfterError, CanBegin,
      RunningIsWatchable, TickSound, RegistryTypeOK, LocalTypeOK, Terminal
<1>3. ASSUME NEW r \in Runs, Register(r) PROVE RunningIsWatchable' /\ TickSound'
  BY <1>0, <1>3
  DEF Register, RegisterRun, PromoteQueued, CanPromote, CanRegister, StatusAfter,
      RunningIsWatchable, TickSound, RegistryTypeOK, LocalTypeOK, Terminal
<1>4. ASSUME NEW r \in Runs,
                SpawnSessionFails(r) \/ DispatchFails(r)
      PROVE  RunningIsWatchable' /\ TickSound'
  BY <1>0, <1>4
  DEF SpawnSessionFails, DispatchFails, TryStageStatus, CanStage, StageStatus,
      StatusAfter, AfterError, Task, RunningIsWatchable, TickSound, RegistryTypeOK,
      LocalTypeOK, Terminal
<1>5. ASSUME NEW r \in Runs, Dispatch(r) PROVE RunningIsWatchable' /\ TickSound'
  BY <1>0, <1>5
  DEF Dispatch, TryStageStatus, CanStage, StageStatus, StatusAfter, AfterError,
      Task, RunningIsWatchable, TickSound, RegistryTypeOK, LocalTypeOK, Terminal
<1>6. ASSUME NEW r \in Runs, DrainTaskFails(r)
      PROVE  RunningIsWatchable' /\ TickSound'
  BY <1>0, <1>6
  DEF DrainTaskFails, StageFailedAndDrained, RunningIsWatchable, TickSound,
      RegistryTypeOK
<1>7. ASSUME NEW r \in Runs,
                DetachCancel(r) \/ StopCancel(r)
      PROVE  RunningIsWatchable' /\ TickSound'
  BY <1>0, <1>7, CancelFacts
  DEF DetachCancel, StopCancel, registryVars, RunningIsWatchable, TickSound
<1>8. ASSUME NEW r \in Runs,
                StopMark(r) \/ DetachMark(r) \/ TickCapture(r)
      PROVE  RunningIsWatchable' /\ TickSound'
  BY <1>0, <1>8
  DEF StopMark, DetachMark, TickCapture, StageStatus, StatusAfter,
      RunningIsWatchable, TickSound, RegistryTypeOK, LocalTypeOK, Terminal
<1>9. ASSUME NEW r \in Runs, StopDrain(r) PROVE RunningIsWatchable' /\ TickSound'
  BY <1>0, <1>9
  DEF StopDrain, DrainIfAvailable, StageFailedAndDrained, PopInto,
      RunningIsWatchable, TickSound, RegistryTypeOK, LocalTypeOK, Terminal
<1>10. ASSUME NEW r \in Runs, NEW s \in Slots,
                 HandleCompleted(r, s) \/ HandleFailed(r, s) \/ HandleCrashed(r, s)
              \/ NetworkTimeout(r, s) \/ RecoveryDispatchFails(r, s)
       PROVE  RunningIsWatchable' /\ TickSound'
  <2> USE DEF StageStatus, StatusAfter, Stage, RunningIsWatchable, TickSound,
      RegistryTypeOK, LocalTypeOK, Terminal
  <2>1. CASE HandleCompleted(r, s)
    BY <1>0, <2>1 DEF HandleCompleted
  <2>2. CASE HandleFailed(r, s)
    BY <1>0, <2>2 DEF HandleFailed
  <2>3. CASE HandleCrashed(r, s)
    BY <1>0, <2>3 DEF HandleCrashed
  <2>4. CASE NetworkTimeout(r, s)
    BY <1>0, <2>4 DEF NetworkTimeout
  <2>5. CASE RecoveryDispatchFails(r, s)
    BY <1>0, <2>5 DEF RecoveryDispatchFails
  <2> QED
    BY <1>10, <2>1, <2>2, <2>3, <2>4, <2>5
<1>11. ASSUME NEW r \in Runs, NEW s \in Slots,
                 Reap(r, s) \/ HandleNetwork(r, s) \/ RecoveryGate(r, s)
              \/ RecoverySpawn(r, s) \/ MonitorCancelled(r, s)
       PROVE  RunningIsWatchable' /\ TickSound'
  BY <1>0, <1>11
  DEF Reap, HandleNetwork, RecoveryGate, RecoverySpawn, MonitorCancelled,
      registryVars, Stage, RunningIsWatchable, TickSound, RegistryTypeOK,
      LocalTypeOK, Terminal
<1>12. ASSUME NEW r \in Runs, NEW s \in Slots, HandlerDrain(r, s)
       PROVE  RunningIsWatchable' /\ TickSound'
  BY <1>0, <1>12
  DEF HandlerDrain, DrainIfAvailable, StageFailedAndDrained, PopInto, Stage,
      RunningIsWatchable, TickSound, RegistryTypeOK, LocalTypeOK, Terminal
<1>13. ASSUME NEW r \in Runs, NEW s \in Slots, RecoveryEnds(r, s)
       PROVE  RunningIsWatchable' /\ TickSound'
  BY <1>0, <1>13
  DEF RecoveryEnds, TryStageStatus, CanStage, StageStatus, StatusAfter, Stage,
      RunningIsWatchable, TickSound, RegistryTypeOK, LocalTypeOK, Terminal
<1>14. ASSUME NEW r \in Runs, NEW s \in Slots, RecoveryDispatch(r, s)
       PROVE  RunningIsWatchable' /\ TickSound'
  BY <1>0, <1>14
  DEF RecoveryDispatch, TryStageStatus, CanStage, StageStatus, StatusAfter, Stage,
      RunningIsWatchable, TickSound, RegistryTypeOK, LocalTypeOK, Terminal
<1>15. ASSUME NEW r \in Runs, NEW s \in Slots, NEW o, MonitorReport(r, s, o)
       PROVE  RunningIsWatchable' /\ TickSound'
  BY <1>0, <1>15
  DEF MonitorReport, registryVars, Stage, Watching, Outcome, RunningIsWatchable,
      TickSound, RegistryTypeOK, LocalTypeOK, Terminal
<1>16. ASSUME NEW P \in SUBSET Repos, Clear(P)
       PROVE  RunningIsWatchable' /\ TickSound'
  BY <1>0, <1>16
  DEF Clear, ClearQueue, StatusAfter, RunningIsWatchable, TickSound,
      RegistryTypeOK, LocalTypeOK, Terminal
<1>17. CASE TickSnapshot \/ TickEnd
  BY <1>0, <1>17
  DEF TickSnapshot, TickEnd, registryVars, Active, IdleTick, RunningIsWatchable,
      TickSound, RegistryTypeOK, LocalTypeOK, Terminal
<1>18. CASE TickMonitors
  <2>1. UNCHANGED <<status, tmux>> /\ hb'.active = hb.active
    BY <1>0, <1>18 DEF TickMonitors, registryVars, LocalTypeOK
  <2>2. \A r \in Runs, s \in Slots :
           mon'[r][s] # "none" => mon[r][s] # "none" \/ r \in hb.active
    BY <1>18, TickMonitorsFacts
  <2> QED
    BY <2>1, <2>2 DEF RunningIsWatchable, TickSound
<1>19. \A P \in {Repos} \union {{p} : p \in Repos} : P \in SUBSET Repos
  OBVIOUS
<1> QED
  BY <1>1, <1>2, <1>3, <1>4, <1>5, <1>6, <1>7, <1>8, <1>9, <1>10, <1>11, <1>12,
     <1>13, <1>14, <1>15, <1>16, <1>17, <1>18, <1>19
  DEF Next, Submit, SpawnStep, ClientRequest, ClientStep, HandlerStep, Tick

(* SingleMonitor is inductive.                                             *)
LEMMA SingleMonitorStep ==
  ASSUME TypeOK, SingleMonitor, Next
  PROVE  SingleMonitor'
<1>0. RegistryTypeOK /\ LocalTypeOK
  BY TypeOKSplit
<1>1. ASSUME NEW r \in Runs,
                SubmitQueued(r) \/ SubmitDirect(r) \/ PreflightFails(r)
             \/ Register(r) \/ RegisterFails(r) \/ SpawnSession(r)
             \/ SpawnSessionFails(r) \/ Dispatch(r) \/ DispatchFails(r)
             \/ DrainTaskFails(r) \/ StopQueued(r) \/ StopBegin(r)
             \/ RemoveQueued(r) \/ StopRead(r) \/ StopExit(r) \/ StopMark(r)
             \/ StopDrain(r) \/ DetachMark(r) \/ SessionDies(r) \/ TickCapture(r)
      PROVE  SingleMonitor'
  BY <1>0, <1>1
  DEF SubmitQueued, SubmitDirect, PreflightFails, Register, RegisterFails,
      SpawnSession, SpawnSessionFails, Dispatch, DispatchFails, DrainTaskFails,
      StopQueued, StopBegin, RemoveQueued, StopRead, StopExit, StopMark, StopDrain,
      DetachMark, SessionDies, TickCapture, SingleMonitor
<1>2. ASSUME NEW r \in Runs,
                DetachCancel(r) \/ StopCancel(r)
      PROVE  SingleMonitor'
  BY <1>0, <1>2, CancelFacts DEF DetachCancel, StopCancel, SingleMonitor
<1>3. ASSUME NEW r \in Runs, NEW s \in Slots,
                HandleCompleted(r, s) \/ Reap(r, s) \/ HandleFailed(r, s)
             \/ HandleCrashed(r, s) \/ HandleNetwork(r, s)
      PROVE  SingleMonitor'
  BY <1>0, <1>3, StageFacts
  DEF HandleCompleted, Reap, HandleFailed, HandleCrashed, HandleNetwork,
      SingleMonitor
<1>4. ASSUME NEW r \in Runs, NEW s \in Slots,
                NetworkTimeout(r, s) \/ HandlerDrain(r, s) \/ RecoveryGate(r, s)
             \/ RecoveryEnds(r, s)
      PROVE  SingleMonitor'
  BY <1>0, <1>4, StageFacts
  DEF NetworkTimeout, HandlerDrain, RecoveryGate, RecoveryEnds, SingleMonitor
<1>5. ASSUME NEW r \in Runs, NEW s \in Slots,
                RecoverySpawn(r, s) \/ RecoveryDispatch(r, s)
             \/ RecoveryDispatchFails(r, s) \/ MonitorCancelled(r, s)
      PROVE  SingleMonitor'
  BY <1>0, <1>5, StageFacts
  DEF RecoverySpawn, RecoveryDispatch, RecoveryDispatchFails, MonitorCancelled,
      SingleMonitor
<1>6. ASSUME NEW r \in Runs, NEW s \in Slots, NEW o, MonitorReport(r, s, o)
      PROVE  SingleMonitor'
  BY <1>0, <1>6, StageFacts DEF MonitorReport, Outcome, SingleMonitor
<1>7. ASSUME NEW P \in SUBSET Repos, Clear(P) PROVE SingleMonitor'
  BY <1>0, <1>7 DEF Clear, SingleMonitor
<1>8. CASE TickSnapshot \/ TickEnd
  BY <1>0, <1>8 DEF TickSnapshot, TickEnd, SingleMonitor
<1>9. CASE TickMonitors
  BY <1>9, TickMonitorsFacts DEF SingleMonitor
<1>10. \A P \in {Repos} \union {{p} : p \in Repos} : P \in SUBSET Repos
  OBVIOUS
<1> QED
  BY <1>1, <1>2, <1>3, <1>4, <1>5, <1>6, <1>7, <1>8, <1>9, <1>10
  DEF Next, Submit, SpawnStep, ClientRequest, ClientStep, HandlerStep, Tick

----------------------------------------------------------------------------
(* What the queue operations do, given that the queues are sound.          *)

(* The inductive form of PendingSound: executor::stop_run does not work on *)
(* a pending run either, except to find that it is Stopped.                *)
PendingClient(r) ==
    \/ client[r] \in {"none", "detach"}
    \/ status[r] = "Stopped" /\ client[r] \in {"cancel", "read"}

PendingInv ==
    \A p \in Repos :
        /\ Distinct(queue[p])
        /\ \A r \in Pending(p) : PendingEntry(p, r) /\ PendingClient(r)

(* Queue p after a step has lost the runs of X, has not gained any, and    *)
(* still has no repetition.                                                *)
Loses(p, X) == Distinct(queue'[p]) /\ ToSet(queue'[p]) \subseteq Pending(p) \ X

(* A queue is a sequence of runs.                                          *)
LEMMA PendingTypes ==
  ASSUME TypeOK, NEW p \in Repos
  PROVE  queue[p] \in Seq(Runs) /\ Pending(p) \subseteq Runs
<1>1. queue[p] \in Seq(Runs)
  BY DEF TypeOK, RegistryTypeOK
<1> QED
  BY <1>1 DEF Pending, ToSet

(* A run is in at most one queue, its own repository's.                    *)
LEMMA PendingOnce ==
  ASSUME PendingInv, NEW p \in Repos, NEW q \in Repos, NEW r \in Pending(p),
         r \in Pending(q)
  PROVE  p = q
BY DEF PendingInv, PendingEntry

(* Dequeuing r by StopRun or RemoveQueued takes r out of its queue and     *)
(* nothing else out of any queue.                                          *)
LEMMA DequeueEffect ==
  ASSUME TypeOK, PendingInv, NEW r \in Runs, DequeueRun(r)
  PROVE  /\ IsPending(r)
         /\ StageStatus(r, "Stopped")
         /\ UNCHANGED <<tmux, order, fails>>
         /\ \A p \in Repos : Loses(p, {r})
<1>1. PICK p \in Repos : \E i \in DOMAIN queue[p] :
         /\ queue[p][i] = r
         /\ queue' = [queue EXCEPT ![p] = RemoveAt(@, i)]
         /\ StageStatus(r, "Stopped")
         /\ UNCHANGED <<tmux, order, fails>>
  BY DEF DequeueRun
<1>2. PICK i \in DOMAIN queue[p] :
         /\ queue[p][i] = r
         /\ queue' = [queue EXCEPT ![p] = RemoveAt(@, i)]
         /\ StageStatus(r, "Stopped")
         /\ UNCHANGED <<tmux, order, fails>>
  BY <1>1
<1>3. r \in Pending(p)
  BY <1>2 DEF Pending, ToSet
<1>4. queue[p] \in Seq(Runs) /\ Distinct(queue[p]) /\ queue \in [Repos -> Seq(Runs)]
  BY PendingTypes DEF PendingInv, TypeOK, RegistryTypeOK
<1>5. queue'[p] = RemoveAt(queue[p], i)
  BY <1>2, <1>4
<1>6. Loses(p, {r})
  BY <1>2, <1>4, <1>5, RemoveAtOfDistinct DEF Loses, Pending
<1>7. ASSUME NEW x \in Repos, x # p PROVE Loses(x, {r})
  <2>1. queue'[x] = queue[x]
    BY <1>2, <1>4, <1>7
  <2>2. r \notin Pending(x)
    BY <1>3, <1>7, PendingOnce
  <2> QED
    BY <2>1, <2>2 DEF Loses, Pending, PendingInv
<1> QED
  BY <1>2, <1>3, <1>6, <1>7 DEF IsPending

(* ClearQueue leaves none of the cleared runs in a queue.                  *)
LEMMA ClearEffect ==
  ASSUME TypeOK, PendingInv, NEW P \in SUBSET Repos, ClearQueue(P), NEW p \in Repos
  PROVE  Loses(p, UNION {Pending(x) : x \in P})
<1>1. queue'[p] = IF p \in P THEN <<>> ELSE queue[p]
  BY DEF ClearQueue
<1>2. CASE p \in P
  BY <1>1, <1>2, EmptyQueue DEF Loses
<1>3. CASE p \notin P
  <2>1. ASSUME NEW x \in P, NEW r \in Pending(p), r \in Pending(x) PROVE FALSE
    BY <1>3, <2>1, PendingOnce
  <2> QED
    BY <1>1, <1>3, <2>1 DEF Loses, Pending, PendingInv
<1> QED
  BY <1>2, <1>3

(* The effect of a drain: a set D of pending runs is marked Stopped by the *)
(* circuit breaker, a set H (at most one) is popped for spawning, and both *)
(* leave the queues; F are the runs marked Failed in the same section.     *)
DrainEffect(F, tk) ==
  \E D \in SUBSET Runs, H \in SUBSET Runs :
    /\ \A r \in D \union H : IsPending(r)
    /\ StageFailedAndDrained(F, D)
    /\ \A p \in Repos : Loses(p, D \union H)
    /\ \A r \in Runs : \/ task'[r] = tk[r]
                       \/ /\ r \in H
                          /\ task'[r] \in {Task("drain", "preflight"),
                              Task("retry", "preflight")}

(* A pop has the effect of a drain: at most the head of one queue goes to  *)
(* a new task, and the breaker's victims are gone from the queues.         *)
LEMMA PopEffect ==
  ASSUME TypeOK, PendingInv, NEW p \in Repos, NEW failed \in BOOLEAN,
         NEW src, \A x \in src : x \in Repos /\ QueueAfter(p, failed)[x] # <<>>,
         NEW kind \in {"drain", "retry"}, NEW tk \in [Runs -> TaskType], NEW F,
         StageFailedAndDrained(F, Drained(p, failed)),
         PopInto(src, QueueAfter(p, failed), kind, tk)
  PROVE  DrainEffect(F, tk)
<1> DEFINE q == QueueAfter(p, failed)
           D == Drained(p, failed)
<1>0. RegistryTypeOK
  BY TypeOKSplit
<1>1. /\ q \in [Repos -> Seq(Runs)]
      /\ \A x \in Repos : q[x] \in {<<>>, queue[x]}
      /\ D # {} => q[p] = <<>>
      /\ D \subseteq Pending(p)
  BY <1>0, QueueAfterFacts
<1>2. D \in SUBSET Runs /\ \A r \in D : IsPending(r)
  BY <1>1, PendingTypes DEF IsPending
<1>3. StageFailedAndDrained(F, D) /\ PopInto(src, q, kind, tk)
  OBVIOUS
<1>4. \A x \in src : x \in Repos /\ q[x] # <<>>
  OBVIOUS
<1> HIDE DEF q, D
<1>5. ASSUME NEW x \in Repos
      PROVE  Distinct(q[x]) /\ ToSet(q[x]) \subseteq Pending(x) \ D
  <2>1. CASE q[x] = <<>>
    BY <2>1, EmptyQueue
  <2>2. CASE q[x] = queue[x] /\ q[x] # <<>>
    <3>1. ASSUME NEW r \in Pending(x), r \in D PROVE FALSE
      <4>1. x = p
        BY <1>1, <3>1, PendingOnce
      <4> QED
        BY <1>1, <2>2, <3>1, <4>1
    <3> QED
      BY <2>2, <3>1 DEF PendingInv, Pending
  <2> QED
    BY <1>1, <2>1, <2>2
<1>6. CASE src = {} /\ queue' = q /\ task' = tk
  <2>1. \A x \in Repos : Loses(x, D \union {})
    BY <1>5, <1>6 DEF Loses
  <2> QED
    BY <1>2, <1>3, <1>6, <2>1 DEF DrainEffect
<1>7. ASSUME NEW o \in src,
             queue' = [q EXCEPT ![o] = Tail(@)],
             task' = [tk EXCEPT ![Head(q[o])] = Task(kind, "preflight")]
      PROVE  DrainEffect(F, tk)
  <2> DEFINE h == Head(q[o])
  <2>1. o \in Repos /\ q[o] \in Seq(Runs) /\ q[o] # <<>>
    BY <1>1, <1>4
  <2>2. /\ h \in ToSet(q[o])
        /\ ToSet(Tail(q[o])) \subseteq ToSet(q[o])
        /\ Distinct(Tail(q[o]))
        /\ h \notin ToSet(Tail(q[o]))
    BY <1>5, <2>1, TailOfDistinct
  <2> HIDE DEF h
  <2>3. h \in Pending(o) /\ h \in Runs
    BY <1>5, <2>1, <2>2, PendingTypes
  <2>4. Loses(o, D \union {h})
    BY <1>1, <1>5, <1>7, <2>1, <2>2 DEF Loses
  <2>5. ASSUME NEW x \in Repos, x # o PROVE Loses(x, D \union {h})
    <3>1. queue'[x] = q[x]
      BY <1>1, <1>7, <2>5
    <3>2. h \notin Pending(x)
      BY <2>1, <2>3, <2>5, PendingOnce
    <3> QED
      BY <1>5, <3>1, <3>2 DEF Loses
  <2>6. \A r \in D \union {h} : IsPending(r)
    BY <1>2, <2>1, <2>3 DEF IsPending
  <2>7. \A r \in Runs : \/ task'[r] = tk[r]
                        \/ /\ r \in {h}
                           /\ task'[r] \in {Task("drain", "preflight"),
                               Task("retry", "preflight")}
    BY <1>7 DEF h
  <2>8. \A x \in Repos : Loses(x, D \union {h})
    BY <2>4, <2>5
  <2>9. {h} \in SUBSET Runs
    BY <2>3
  <2> QED
    BY <1>2, <1>3, <2>6, <2>7, <2>8, <2>9 DEF DrainEffect
<1> QED
  BY <1>3, <1>6, <1>7 DEF PopInto

(* The critical section of drain_if_available is such a drain.             *)
LEMMA DrainIfAvailableEffect ==
  ASSUME TypeOK, PendingInv, NEW p \in Repos, NEW failed \in BOOLEAN,
         DrainIfAvailable(p, failed)
  PROVE  DrainEffect({}, task) /\ UNCHANGED <<tmux, order>>
<1>0. RegistryTypeOK /\ LocalTypeOK
  BY TypeOKSplit
<1>1. QueueAfter(p, failed) \in [Repos -> Seq(Runs)]
  BY <1>0, QueueAfterFacts
<1>2. \A x \in OwnElseAny(p, QueueAfter(p, failed), FailsAfter(p, failed)) :
         x \in Repos /\ QueueAfter(p, failed)[x] # <<>>
  BY <1>0, <1>1, SourceFacts
<1>3. task \in [Runs -> TaskType]
  BY <1>0 DEF LocalTypeOK
<1> QED
  BY <1>2, <1>3, PopEffect DEF DrainIfAvailable

(* So is the error branch of a drain task, which also fails its run r.     *)
LEMMA DrainTaskFailsEffect ==
  ASSUME TypeOK, PendingInv, NEW r \in Runs, DrainTaskFails(r)
  PROVE  DrainEffect({r}, [task EXCEPT ![r] = NoTask])
<1> DEFINE p == RepoOf[r]
           q == QueueAfter(p, TRUE)
           f == FailsAfter(p, TRUE)
           tk == [task EXCEPT ![r] = NoTask]
<1>0. RegistryTypeOK /\ LocalTypeOK /\ p \in Repos
  BY TypeOKSplit, RepoOfAssumption
<1>1. /\ StageFailedAndDrained({r}, Drained(p, TRUE))
      /\ PopInto(OwnQueue(p, q, f), q, "retry", tk)
  BY DEF DrainTaskFails
<1>2. tk \in [Runs -> TaskType]
  BY <1>0 DEF LocalTypeOK, TaskType
<1> HIDE DEF p, f, tk
<1>3. QueueAfter(p, TRUE) \in [Repos -> Seq(Runs)]
  BY <1>0, QueueAfterFacts
<1>4. \A x \in OwnQueue(p, q, f) : x \in Repos /\ q[x] # <<>>
  BY <1>0, <1>3, SourceFacts
<1>5. DrainEffect({r}, tk)
  BY <1>0, <1>1, <1>2, <1>4, PopEffect
<1> QED
  BY <1>5 DEF tk

(* Pending runs that keep their task, and are neither given a session nor  *)
(* taken up by executor::stop_run, keep PendingInv.                        *)
LEMMA PendingKept ==
  ASSUME TypeOK, PendingInv, \A p \in Repos : Loses(p, {}),
         \A p \in Repos : \A r \in ToSet(queue'[p]) :
            /\ task'[r] = task[r]
            /\ r \in tmux' => r \in tmux
            /\ status'[r] \in {status[r], "Stopped"}
            /\ client'[r] \in {client[r], "none", "detach"}
  PROVE  PendingInv'
<1> SUFFICES ASSUME NEW p \in Repos
             PROVE  /\ Distinct(queue'[p])
                    /\ \A r \in ToSet(queue'[p]) :
                         PendingEntry(p, r)' /\ PendingClient(r)'
  BY DEF PendingInv, Pending
<1>1. Distinct(queue'[p]) /\ ToSet(queue'[p]) \subseteq Pending(p)
  BY DEF Loses
<1>2. ASSUME NEW r \in ToSet(queue'[p])
      PROVE  PendingEntry(p, r)' /\ PendingClient(r)'
  <2>1. PendingEntry(p, r) /\ PendingClient(r)
    BY <1>1, <1>2 DEF PendingInv
  <2> QED
    BY <1>2, <2>1 DEF PendingEntry, PendingClient
<1> QED
  BY <1>1, <1>2

(* AbsentUntouched is kept by the two drains.                              *)
LEMMA DrainKeepsAbsent ==
  ASSUME TypeOK, AbsentUntouched, NEW F, NEW tk, DrainEffect(F, tk), UNCHANGED tmux,
         \A x \in Runs : client'[x] \in {client[x], "none"},
         \A x \in Runs : tk[x] \in {task[x], NoTask}
  PROVE  AbsentUntouched'
<1>1. PICK D \in SUBSET Runs, H \in SUBSET Runs :
        /\ StageFailedAndDrained(F, D)
        /\ \A r \in Runs : \/ task'[r] = tk[r]
                           \/ task'[r] \in {Task("drain", "preflight"),
                               Task("retry", "preflight")}
  BY DEF DrainEffect
<1>2. \A r \in Runs : status'[r] = "absent" => status[r] = "absent"
  BY <1>1 DEF StageFailedAndDrained
<1>3. \A r \in Runs : task'[r] \in {task[r], NoTask, Task("drain", "preflight"),
    Task("retry", "preflight")}
  BY <1>1
<1> QED
  BY <1>2, <1>3 DEF AbsentUntouched, NoTask, Task

(* AbsentUntouched is kept.                                                *)
LEMMA AbsentStep ==
  ASSUME TypeOK, AbsentUntouched, RunningIsWatchable, PendingInv, Next
  PROVE  AbsentUntouched'
<1>0. RegistryTypeOK /\ LocalTypeOK
  BY TypeOKSplit
<1>1. ASSUME NEW r \in Runs, SubmitQueued(r) PROVE AbsentUntouched'
  BY <1>0, <1>1
  DEF SubmitQueued, EnqueueRun, StatusAfter, AbsentUntouched, RunningIsWatchable,
      Terminal, RegistryTypeOK, LocalTypeOK, NoTask
<1>2. ASSUME NEW r \in Runs, SubmitDirect(r) PROVE AbsentUntouched'
  BY <1>0, <1>2
  DEF SubmitDirect, registryVars, Task, AbsentUntouched, RunningIsWatchable,
      Terminal, RegistryTypeOK, LocalTypeOK, NoTask
<1>3. ASSUME NEW r \in Runs, PreflightFails(r) PROVE AbsentUntouched'
  BY <1>0, <1>3
  DEF PreflightFails, registryVars, AfterError, Task, AbsentUntouched,
      RunningIsWatchable, Terminal, RegistryTypeOK, LocalTypeOK, NoTask
<1>4. ASSUME NEW r \in Runs, Register(r) PROVE AbsentUntouched'
  BY <1>0, <1>4
  DEF Register, RegisterRun, PromoteQueued, CanPromote, CanRegister, StatusAfter,
      AbsentUntouched, RunningIsWatchable, Terminal, RegistryTypeOK, LocalTypeOK,
      NoTask
<1>5. ASSUME NEW r \in Runs, RegisterFails(r) PROVE AbsentUntouched'
  BY <1>0, <1>5
  DEF RegisterFails, registryVars, AfterError, Task, AbsentUntouched,
      RunningIsWatchable, Terminal, RegistryTypeOK, LocalTypeOK, NoTask
<1>6. ASSUME NEW r \in Runs, SpawnSession(r) PROVE AbsentUntouched'
  <2>1. status[r] # "absent"
    BY <1>6 DEF SpawnSession, AbsentUntouched
  <2>2. \A x \in Runs : x # r => task'[x] = task[x]
    BY <1>0, <1>6 DEF SpawnSession, LocalTypeOK
  <2> QED
    BY <1>6, <2>1, <2>2 DEF SpawnSession, registryVars, AbsentUntouched
<1>7. ASSUME NEW r \in Runs,
                SpawnSessionFails(r) \/ Dispatch(r) \/ DispatchFails(r)
      PROVE  AbsentUntouched'
  BY <1>0, <1>7
  DEF SpawnSessionFails, Dispatch, DispatchFails, TryStageStatus, CanStage,
      StageStatus, StatusAfter, AfterError, Task, AbsentUntouched,
      RunningIsWatchable, Terminal, RegistryTypeOK, LocalTypeOK, NoTask
<1>8. ASSUME NEW r \in Runs, DrainTaskFails(r) PROVE AbsentUntouched'
  <2>1. DrainEffect({r}, [task EXCEPT ![r] = NoTask])
    BY <1>8, DrainTaskFailsEffect
  <2>2. \A x \in Runs : [task EXCEPT ![r] = NoTask][x] \in {task[x], NoTask}
    BY <1>0 DEF LocalTypeOK
  <2> QED
    BY <1>8, <2>1, <2>2, DrainKeepsAbsent DEF DrainTaskFails
<1>9. ASSUME NEW r \in Runs,
                StopQueued(r) \/ RemoveQueued(r)
      PROVE  AbsentUntouched'
  BY <1>0, <1>9
  DEF StopQueued, RemoveQueued, DequeueRun, StageStatus, StatusAfter,
      AbsentUntouched, RunningIsWatchable, Terminal, RegistryTypeOK, LocalTypeOK,
      NoTask
<1>10. ASSUME NEW r \in Runs,
                 StopBegin(r) \/ DetachCancel(r)
       PROVE  AbsentUntouched'
  BY <1>0, <1>10
  DEF StopBegin, DetachCancel, registryVars, CanBegin, CancelMonitor,
      AbsentUntouched, RunningIsWatchable, Terminal, RegistryTypeOK, LocalTypeOK,
      NoTask
<1>11. ASSUME NEW r \in Runs,
                 StopCancel(r) \/ StopRead(r) \/ StopExit(r) \/ SessionDies(r)
       PROVE  AbsentUntouched'
  BY <1>0, <1>11
  DEF StopCancel, StopRead, StopExit, SessionDies, registryVars, CancelMonitor,
      AbsentUntouched, RunningIsWatchable, Terminal, RegistryTypeOK, LocalTypeOK,
      NoTask
<1>12. ASSUME NEW r \in Runs,
                 StopMark(r) \/ DetachMark(r) \/ TickCapture(r)
       PROVE  AbsentUntouched'
  BY <1>0, <1>12
  DEF StopMark, DetachMark, TickCapture, StageStatus, StatusAfter, AbsentUntouched,
      RunningIsWatchable, Terminal, RegistryTypeOK, LocalTypeOK, NoTask
<1>13. ASSUME NEW r \in Runs, StopDrain(r) PROVE AbsentUntouched'
  <2>1. DrainEffect({}, task) /\ UNCHANGED tmux
    BY <1>13, DrainIfAvailableEffect, RepoOfAssumption DEF StopDrain
  <2>2. \A x \in Runs : client'[x] \in {client[x], "none"}
    BY <1>0, <1>13 DEF StopDrain, LocalTypeOK
  <2> QED
    BY <2>1, <2>2, DrainKeepsAbsent
<1>14. ASSUME NEW r \in Runs, NEW s \in Slots,
                 HandleCompleted(r, s) \/ HandleFailed(r, s) \/ HandleCrashed(r, s)
              \/ NetworkTimeout(r, s) \/ RecoveryDispatchFails(r, s)
       PROVE  AbsentUntouched'
  BY <1>0, <1>14
  DEF HandleCompleted, HandleFailed, HandleCrashed, NetworkTimeout,
      RecoveryDispatchFails, StageStatus, StatusAfter, Stage, AbsentUntouched,
      RunningIsWatchable, Terminal, RegistryTypeOK, LocalTypeOK, NoTask
<1>15. ASSUME NEW r \in Runs, NEW s \in Slots,
                 Reap(r, s) \/ HandleNetwork(r, s) \/ RecoveryGate(r, s)
              \/ RecoverySpawn(r, s) \/ MonitorCancelled(r, s)
       PROVE  AbsentUntouched'
  BY <1>0, <1>15
  DEF Reap, HandleNetwork, RecoveryGate, RecoverySpawn, MonitorCancelled,
      registryVars, Stage, AbsentUntouched, RunningIsWatchable, Terminal,
      RegistryTypeOK, LocalTypeOK, NoTask
<1>16. ASSUME NEW r \in Runs, NEW s \in Slots, HandlerDrain(r, s)
       PROVE  AbsentUntouched'
  <2>1. DrainEffect({}, task) /\ UNCHANGED tmux
    BY <1>16, DrainIfAvailableEffect, RepoOfAssumption DEF HandlerDrain
  <2> QED
    BY <1>16, <2>1, DrainKeepsAbsent DEF HandlerDrain
<1>17. ASSUME NEW r \in Runs, NEW s \in Slots,
                 RecoveryEnds(r, s) \/ RecoveryDispatch(r, s)
       PROVE  AbsentUntouched'
  BY <1>0, <1>17
  DEF RecoveryEnds, RecoveryDispatch, TryStageStatus, CanStage, StageStatus,
      StatusAfter, Stage, AbsentUntouched, RunningIsWatchable, Terminal,
      RegistryTypeOK, LocalTypeOK, NoTask
<1>18. ASSUME NEW r \in Runs, NEW s \in Slots, NEW o, MonitorReport(r, s, o)
       PROVE  AbsentUntouched'
  BY <1>0, <1>18
  DEF MonitorReport, registryVars, Stage, Watching, Outcome, AbsentUntouched,
      RunningIsWatchable, Terminal, RegistryTypeOK, LocalTypeOK, NoTask
<1>19. ASSUME NEW P \in SUBSET Repos, Clear(P) PROVE AbsentUntouched'
  BY <1>0, <1>19
  DEF Clear, ClearQueue, StatusAfter, AbsentUntouched, RunningIsWatchable,
      Terminal, RegistryTypeOK, LocalTypeOK, NoTask
<1>20. CASE TickSnapshot \/ TickMonitors \/ TickEnd
  BY <1>0, <1>20
  DEF TickSnapshot, TickMonitors, TickEnd, registryVars, Active, IdleTick,
      AbsentUntouched, RunningIsWatchable, Terminal, RegistryTypeOK, LocalTypeOK,
      NoTask
<1>21. \A P \in {Repos} \union {{p} : p \in Repos} : P \in SUBSET Repos
  OBVIOUS
<1> QED
  BY <1>1, <1>2, <1>3, <1>4, <1>5, <1>6, <1>7, <1>8, <1>9, <1>10, <1>11, <1>12,
     <1>13, <1>14, <1>15, <1>16, <1>17, <1>18, <1>19, <1>20, <1>21
  DEF Next, Submit, SpawnStep, ClientRequest, ClientStep, HandlerStep, Tick

(* PendingInv is kept by the two drains; F is not pending any more.        *)
LEMMA DrainKeepsPending ==
  ASSUME TypeOK, PendingInv, NEW F, NEW tk, DrainEffect(F, tk), UNCHANGED tmux,
         \A x \in Runs : client'[x] \in {client[x], "none"},
         \A x \in Runs : x \notin F => tk[x] = task[x],
         \A x \in F : ~IsPending(x)
  PROVE  PendingInv'
<1>1. PICK D \in SUBSET Runs, H \in SUBSET Runs :
        /\ StageFailedAndDrained(F, D)
        /\ \A p \in Repos : Loses(p, D \union H)
        /\ \A r \in Runs : task'[r] = tk[r] \/ r \in H
  BY DEF DrainEffect
<1>2. \A p \in Repos : Loses(p, {})
  BY <1>1 DEF Loses
<1>3. ASSUME NEW p \in Repos, NEW r \in ToSet(queue'[p])
      PROVE  /\ task'[r] = task[r]
             /\ status'[r] = status[r]
             /\ client'[r] \in {client[r], "none"}
  <2>1. r \in Pending(p) /\ r \in Runs /\ r \notin D /\ r \notin H
    BY <1>1, PendingTypes DEF Loses
  <2>2. r \notin F
    BY <2>1 DEF IsPending
  <2> QED
    BY <1>1, <2>1, <2>2 DEF StageFailedAndDrained
<1> QED
  BY <1>2, <1>3, PendingKept

(* PendingInv is kept.                                                     *)
LEMMA PendingStep ==
  ASSUME TypeOK, AbsentUntouched, RunningIsWatchable, PendingInv, Next
  PROVE  PendingInv'
<1>0. RegistryTypeOK /\ LocalTypeOK
  BY TypeOKSplit
<1>1. ASSUME NEW r \in Runs, SubmitQueued(r) PROVE PendingInv'
  <2> DEFINE p == RepoOf[r]
  <2>1. p \in Repos /\ queue \in [Repos -> Seq(Runs)]
    BY <1>0, RepoOfAssumption DEF RegistryTypeOK
  <2>2. /\ status[r] = "absent" /\ r \notin Pending(p) /\ task[r] = NoTask
        /\ r \notin tmux /\ client[r] = "none"
    BY <1>1, <2>1 DEF SubmitQueued, PendingInv, PendingEntry, AbsentUntouched
  <2>3. /\ status' = [status EXCEPT ![r] = "Queued"]
        /\ queue' = [queue EXCEPT ![p] = Append(@, r)]
        /\ UNCHANGED <<tmux, task, client>>
    BY <1>0, <1>1 DEF SubmitQueued, EnqueueRun, StatusAfter, RegistryTypeOK
  <2> HIDE DEF p
  <2>4. /\ Distinct(queue'[p])
        /\ ToSet(queue'[p]) \subseteq Pending(p) \union {r}
    BY <2>1, <2>2, <2>3, AppendToDistinct DEF PendingInv, Pending
  <2>5. \A x \in Repos : x # p => queue'[x] = queue[x]
    BY <2>1, <2>3
  <2>6. \A x \in Repos : /\ Distinct(queue'[x])
                         /\ \A y \in ToSet(queue'[x]) : y \in Pending(x) \/ (x = p /\ y = r)
    BY <2>4, <2>5 DEF PendingInv, Pending
  <2>7. \A x \in Repos : \A y \in Pending(x) :
           /\ PendingEntry(x, y) /\ PendingClient(y)
           /\ y \in Runs
    BY PendingTypes DEF PendingInv
  <2>8. PendingEntry(p, r)' /\ PendingClient(r)'
    BY <1>0, <2>2, <2>3 DEF PendingEntry, PendingClient, RegistryTypeOK, p
  <2>9. \A x \in Repos : \A y \in Pending(x) :
           PendingEntry(x, y)' /\ PendingClient(y)'
    BY <1>0, <2>2, <2>3, <2>7 DEF PendingEntry, PendingClient, RegistryTypeOK
  <2> SUFFICES ASSUME NEW x \in Repos
               PROVE  /\ Distinct(queue'[x])
                      /\ \A y \in ToSet(queue'[x]) :
                           PendingEntry(x, y)' /\ PendingClient(y)'
    BY DEF PendingInv, Pending
  <2>10. Distinct(queue'[x])
    BY <2>6
  <2>11. ASSUME NEW y \in ToSet(queue'[x])
         PROVE  PendingEntry(x, y)' /\ PendingClient(y)'
    <3>1. CASE y \in Pending(x)
      BY <2>9, <3>1
    <3>2. CASE x = p /\ y = r
      BY <2>8, <3>2
    <3> QED
      BY <2>6, <3>1, <3>2
  <2> QED
    BY <2>10, <2>11
<1>2. ASSUME NEW r \in Runs, SubmitDirect(r) PROVE PendingInv'
  BY <1>0, <1>2, PendingTypes
  DEF SubmitDirect, registryVars, Task, PendingInv, PendingEntry, PendingClient,
      Pending, Terminal, NoTask, RegistryTypeOK, LocalTypeOK, RunningIsWatchable,
      AbsentUntouched
<1>3. ASSUME NEW r \in Runs,
                PreflightFails(r) \/ RegisterFails(r)
      PROVE  PendingInv'
  BY <1>0, <1>3, PendingTypes
  DEF PreflightFails, RegisterFails, registryVars, AfterError, Task, PendingInv,
      PendingEntry, PendingClient, Pending, Terminal, NoTask, RegistryTypeOK,
      LocalTypeOK, RunningIsWatchable
<1>4. ASSUME NEW r \in Runs, Register(r) PROVE PendingInv'
  BY <1>0, <1>4, PendingTypes
  DEF Register, RegisterRun, PromoteQueued, CanPromote, CanRegister, StatusAfter,
      PendingInv, PendingEntry, PendingClient, Pending, Terminal, NoTask,
      RegistryTypeOK, LocalTypeOK, RunningIsWatchable
<1>5. ASSUME NEW r \in Runs, SpawnSession(r) PROVE PendingInv'
  BY <1>0, <1>5, PendingTypes
  DEF SpawnSession, registryVars, PendingInv, PendingEntry, PendingClient, Pending,
      Terminal, NoTask, RegistryTypeOK, LocalTypeOK, RunningIsWatchable
<1>6. ASSUME NEW r \in Runs, SpawnSessionFails(r) PROVE PendingInv'
  BY <1>0, <1>6, PendingTypes
  DEF SpawnSessionFails, TryStageStatus, CanStage, StageStatus, StatusAfter,
      AfterError, Task, PendingInv, PendingEntry, PendingClient, Pending, Terminal,
      NoTask, RegistryTypeOK, LocalTypeOK, RunningIsWatchable
<1>7. ASSUME NEW r \in Runs, Dispatch(r) PROVE PendingInv'
  BY <1>0, <1>7, PendingTypes
  DEF Dispatch, TryStageStatus, CanStage, StageStatus, StatusAfter, AfterError,
      Task, PendingInv, PendingEntry, PendingClient, Pending, Terminal, NoTask,
      RegistryTypeOK, LocalTypeOK, RunningIsWatchable
<1>8. ASSUME NEW r \in Runs, DispatchFails(r) PROVE PendingInv'
  BY <1>0, <1>8, PendingTypes
  DEF DispatchFails, TryStageStatus, CanStage, StageStatus, StatusAfter,
      AfterError, Task, PendingInv, PendingEntry, PendingClient, Pending, Terminal,
      NoTask, RegistryTypeOK, LocalTypeOK, RunningIsWatchable
<1>9. ASSUME NEW r \in Runs, DrainTaskFails(r) PROVE PendingInv'
  <2>1. DrainEffect({r}, [task EXCEPT ![r] = NoTask]) /\ UNCHANGED <<tmux, client>>
    BY <1>9, DrainTaskFailsEffect DEF DrainTaskFails
  <2>2. \A x \in Runs : x # r => [task EXCEPT ![r] = NoTask][x] = task[x]
    BY <1>0 DEF LocalTypeOK
  <2>3. ~IsPending(r)
    BY <1>9 DEF DrainTaskFails, NoTask, IsPending, PendingInv, PendingEntry
  <2> DEFINE tk == [task EXCEPT ![r] = NoTask]
  <2>4. /\ \A x \in Runs : client'[x] \in {client[x], "none"}
        /\ \A x \in Runs : x \notin {r} => tk[x] = task[x]
        /\ \A x \in {r} : ~IsPending(x)
    BY <2>1, <2>2, <2>3
  <2> HIDE DEF tk
  <2>5. DrainEffect({r}, tk) /\ UNCHANGED tmux
    BY <2>1 DEF tk
  <2> QED
    BY <2>4, <2>5, DrainKeepsPending
<1>10. ASSUME NEW r \in Runs,
                 StopQueued(r) \/ RemoveQueued(r)
       PROVE  PendingInv'
  <2>1. DequeueRun(r) /\ UNCHANGED <<task, client, mon, handle, hb, alive>>
    BY <1>10 DEF StopQueued, RemoveQueued
  <2>2. /\ \A p \in Repos : Loses(p, {r})
        /\ StageStatus(r, "Stopped")
        /\ UNCHANGED <<tmux, order, fails>>
    BY <2>1, DequeueEffect
  <2>3. \A p \in Repos : Loses(p, {}) /\ ToSet(queue'[p]) \subseteq Runs
    BY <2>2, PendingTypes DEF Loses
  <2> QED
    BY <2>1, <2>2, <2>3, PendingKept DEF StageStatus, StatusAfter
<1>11. ASSUME NEW r \in Runs, StopBegin(r) PROVE PendingInv'
  BY <1>0, <1>11, PendingTypes
  DEF StopBegin, registryVars, CanBegin, PendingInv, PendingEntry, PendingClient,
      Pending, Terminal, NoTask, RegistryTypeOK, LocalTypeOK, RunningIsWatchable,
      IsPending
<1>12. ASSUME NEW r \in Runs, DetachCancel(r) PROVE PendingInv'
  BY <1>0, <1>12, PendingTypes
  DEF DetachCancel, registryVars, CanBegin, CancelMonitor, PendingInv,
      PendingEntry, PendingClient, Pending, Terminal, NoTask, RegistryTypeOK,
      LocalTypeOK, RunningIsWatchable
<1>13. ASSUME NEW r \in Runs, StopCancel(r) PROVE PendingInv'
  BY <1>0, <1>13, PendingTypes
  DEF StopCancel, registryVars, CancelMonitor, PendingInv, PendingEntry,
      PendingClient, Pending, Terminal, NoTask, RegistryTypeOK, LocalTypeOK,
      RunningIsWatchable
<1>14. ASSUME NEW r \in Runs, StopRead(r) PROVE PendingInv'
  BY <1>0, <1>14, PendingTypes
  DEF StopRead, registryVars, PendingInv, PendingEntry, PendingClient, Pending,
      Terminal, NoTask, RegistryTypeOK, LocalTypeOK, RunningIsWatchable, Active
<1>15. ASSUME NEW r \in Runs,
                 StopExit(r) \/ SessionDies(r)
       PROVE  PendingInv'
  BY <1>0, <1>15, PendingTypes
  DEF StopExit, SessionDies, registryVars, PendingInv, PendingEntry, PendingClient,
      Pending, Terminal, NoTask, RegistryTypeOK, LocalTypeOK, RunningIsWatchable
<1>16. ASSUME NEW r \in Runs, StopMark(r) PROVE PendingInv'
  BY <1>0, <1>16, PendingTypes
  DEF StopMark, StageStatus, StatusAfter, PendingInv, PendingEntry, PendingClient,
      Pending, Terminal, NoTask, RegistryTypeOK, LocalTypeOK, RunningIsWatchable
<1>17. ASSUME NEW r \in Runs, StopDrain(r) PROVE PendingInv'
  <2>1. DrainEffect({}, task) /\ UNCHANGED tmux
    BY <1>17, DrainIfAvailableEffect, RepoOfAssumption DEF StopDrain
  <2>2. \A x \in Runs : client'[x] \in {client[x], "none"}
    BY <1>0, <1>17 DEF StopDrain, LocalTypeOK
  <2> QED
    BY <2>1, <2>2, DrainKeepsPending
<1>18. ASSUME NEW r \in Runs, DetachMark(r) PROVE PendingInv'
  BY <1>0, <1>18, PendingTypes
  DEF DetachMark, StageStatus, StatusAfter, PendingInv, PendingEntry,
      PendingClient, Pending, Terminal, NoTask, RegistryTypeOK, LocalTypeOK,
      RunningIsWatchable
<1>19. ASSUME NEW r \in Runs, NEW s \in Slots,
                 HandleCompleted(r, s) \/ HandleFailed(r, s) \/ HandleCrashed(r, s)
              \/ NetworkTimeout(r, s) \/ RecoveryDispatchFails(r, s)
       PROVE  PendingInv'
  BY <1>0, <1>19, PendingTypes
  DEF HandleCompleted, HandleFailed, HandleCrashed, NetworkTimeout,
      RecoveryDispatchFails, StageStatus, StatusAfter, Stage, PendingInv,
      PendingEntry, PendingClient, Pending, Terminal, NoTask, RegistryTypeOK,
      LocalTypeOK, RunningIsWatchable
<1>20. ASSUME NEW r \in Runs, NEW s \in Slots,
                 Reap(r, s) \/ HandleNetwork(r, s) \/ RecoveryGate(r, s)
              \/ RecoverySpawn(r, s) \/ MonitorCancelled(r, s)
       PROVE  PendingInv'
  BY <1>0, <1>20, PendingTypes
  DEF Reap, HandleNetwork, RecoveryGate, RecoverySpawn, MonitorCancelled,
      registryVars, Stage, PendingInv, PendingEntry, PendingClient, Pending,
      Terminal, NoTask, RegistryTypeOK, LocalTypeOK, RunningIsWatchable
<1>21. ASSUME NEW r \in Runs, NEW s \in Slots, HandlerDrain(r, s) PROVE PendingInv'
  <2>1. DrainEffect({}, task) /\ UNCHANGED tmux
    BY <1>21, DrainIfAvailableEffect, RepoOfAssumption DEF HandlerDrain
  <2> QED
    BY <1>21, <2>1, DrainKeepsPending DEF HandlerDrain
<1>22. ASSUME NEW r \in Runs, NEW s \in Slots, RecoveryEnds(r, s) PROVE PendingInv'
  BY <1>0, <1>22, PendingTypes
  DEF RecoveryEnds, TryStageStatus, CanStage, StageStatus, StatusAfter, Stage,
      PendingInv, PendingEntry, PendingClient, Pending, Terminal, NoTask,
      RegistryTypeOK, LocalTypeOK, RunningIsWatchable
<1>23. ASSUME NEW r \in Runs, NEW s \in Slots, RecoveryDispatch(r, s)
       PROVE  PendingInv'
  BY <1>0, <1>23, PendingTypes
  DEF RecoveryDispatch, TryStageStatus, CanStage, StageStatus, StatusAfter, Stage,
      PendingInv, PendingEntry, PendingClient, Pending, Terminal, NoTask,
      RegistryTypeOK, LocalTypeOK, RunningIsWatchable
<1>24. ASSUME NEW r \in Runs, NEW s \in Slots, NEW o, MonitorReport(r, s, o)
       PROVE  PendingInv'
  BY <1>0, <1>24, PendingTypes
  DEF MonitorReport, registryVars, Stage, Watching, Outcome, PendingInv,
      PendingEntry, PendingClient, Pending, Terminal, NoTask, RegistryTypeOK,
      LocalTypeOK, RunningIsWatchable
<1>25. ASSUME NEW P \in SUBSET Repos, Clear(P) PROVE PendingInv'
  <2>1. ClearQueue(P) /\ UNCHANGED <<task, client, mon, handle, hb, alive>>
    BY <1>25 DEF Clear
  <2>2. \A p \in Repos : Loses(p, UNION {Pending(x) : x \in P})
    BY <2>1, ClearEffect
  <2>3. \A p \in Repos : Loses(p, {}) /\ ToSet(queue'[p]) \subseteq Runs
    BY <2>2, PendingTypes DEF Loses
  <2> QED
    BY <2>1, <2>3, PendingKept DEF ClearQueue, StatusAfter
<1>26. CASE TickSnapshot \/ TickMonitors \/ TickEnd
  BY <1>0, <1>26, PendingTypes
  DEF TickSnapshot, TickMonitors, TickEnd, registryVars, Active, IdleTick,
      PendingInv, PendingEntry, PendingClient, Pending, Terminal, NoTask,
      RegistryTypeOK, LocalTypeOK, RunningIsWatchable
<1>27. ASSUME NEW r \in Runs, TickCapture(r) PROVE PendingInv'
  BY <1>0, <1>27, PendingTypes
  DEF TickCapture, StageStatus, StatusAfter, PendingInv, PendingEntry,
      PendingClient, Pending, Terminal, NoTask, RegistryTypeOK, LocalTypeOK,
      RunningIsWatchable
<1>28. \A P \in {Repos} \union {{p} : p \in Repos} : P \in SUBSET Repos
  OBVIOUS
<1> QED
  BY <1>1, <1>2, <1>3, <1>4, <1>5, <1>6, <1>7, <1>8, <1>9, <1>10, <1>11, <1>12,
     <1>13, <1>14, <1>15, <1>16, <1>17, <1>18, <1>19, <1>20, <1>21, <1>22,
     <1>23, <1>24, <1>25, <1>26, <1>27, <1>28
  DEF Next, Submit, SpawnStep, ClientRequest, ClientStep, HandlerStep, Tick

(* Locks that are given back for the runs of R, and only R ceasing to hold *)
(* its repository, keep NoLockLeak.                                        *)
LEMMA LockKept ==
  ASSUME TypeOK, NoLockLeak, NEW R \in SUBSET Runs,
         locks' \subseteq locks \ ReleasedBy(R),
         \A r \in Runs : r \notin R /\ Holds(r) => Holds(r)'
  PROVE  NoLockLeak'
<1> SUFFICES ASSUME NEW p \in locks' PROVE \E r \in Runs : RepoOf[r] = p /\ Holds(r)'
  BY DEF NoLockLeak
<1>1. PICK r \in Runs : RepoOf[r] = p /\ Holds(r)
  BY DEF NoLockLeak
<1>2. r \notin R
  BY <1>1 DEF ReleasedBy
<1> QED
  BY <1>1, <1>2

(* No lock taken, and nobody ceasing to hold.                              *)
LEMMA HoldersKept ==
  ASSUME NoLockLeak, locks' \subseteq locks, \A r \in Runs : Holds(r) => Holds(r)'
  PROVE  NoLockLeak'
<1> SUFFICES ASSUME NEW p \in locks' PROVE \E r \in Runs : RepoOf[r] = p /\ Holds(r)'
  BY DEF NoLockLeak
<1>1. PICK r \in Runs : RepoOf[r] = p /\ Holds(r)
  BY DEF NoLockLeak
<1> QED
  BY <1>1

(* stage_status_locked with a terminal status.                             *)
LEMMA TerminalKeepsLocks ==
  ASSUME TypeOK, NoLockLeak, NEW r \in Runs, NEW to \in Terminal, StageStatus(r, to),
         \A x \in Runs : x # r => task'[x] = task[x]
  PROVE  NoLockLeak'
<1>1. locks' \subseteq locks \ ReleasedBy({r}) /\ {r} \in SUBSET Runs
  BY DEF StageStatus
<1>2. \A x \in Runs : x \notin {r} /\ Holds(x) => Holds(x)'
  BY DEF StageStatus, StatusAfter, Holds
<1> QED
  BY <1>1, <1>2, LockKept

(* A drain frees the repositories of the runs it ends, which are the only  *)
(* ones that stop holding one.                                             *)
LEMMA DrainKeepsLocks ==
  ASSUME TypeOK, PendingInv, NoLockLeak, NEW F \in SUBSET Runs, NEW tk,
         DrainEffect(F, tk),
         \A x \in Runs : x \notin F => tk[x] = task[x]
  PROVE  NoLockLeak'
<1>1. PICK D \in SUBSET Runs, H \in SUBSET Runs :
        /\ \A r \in D \union H : IsPending(r)
        /\ StageFailedAndDrained(F, D)
        /\ \A r \in Runs : task'[r] = tk[r] \/ r \in H
  BY DEF DrainEffect
<1>2. \A r \in H : r \in Runs /\ ~Holds(r)
  BY <1>1 DEF IsPending, PendingInv, PendingEntry, Holds, NoTask
<1>3. ASSUME NEW r \in Runs, r \notin F \union D, Holds(r) PROVE Holds(r)'
  <2>1. r \notin H
    BY <1>2, <1>3
  <2>2. task'[r] = task[r] /\ status'[r] = status[r]
    BY <1>1, <1>3, <2>1 DEF StageFailedAndDrained
  <2> QED
    BY <1>3, <2>2 DEF Holds
<1>4. F \union D \in SUBSET Runs /\ locks' \subseteq locks \ ReleasedBy(F \union D)
  BY <1>1 DEF StageFailedAndDrained
<1> QED
  BY <1>3, <1>4, LockKept

(* NoLockLeak is kept.                                                     *)
LEMMA LockStep ==
  ASSUME TypeOK, PendingInv, NoLockLeak, Next
  PROVE  NoLockLeak'
<1>0. RegistryTypeOK /\ LocalTypeOK
  BY TypeOKSplit
<1>1. ASSUME NEW r \in Runs, SubmitQueued(r) PROVE NoLockLeak'
  <2>1. locks' \subseteq locks /\ \A x \in Runs : Holds(x) => Holds(x)'
    BY <1>0, <1>1
    DEF SubmitQueued, EnqueueRun, StatusAfter, Holds, RegistryTypeOK, LocalTypeOK
  <2> QED
    BY <2>1, HoldersKept
<1>2. ASSUME NEW r \in Runs, SubmitDirect(r) PROVE NoLockLeak'
  <2>1. locks' \subseteq locks /\ \A x \in Runs : Holds(x) => Holds(x)'
    BY <1>0, <1>2
    DEF SubmitDirect, registryVars, Task, Holds, RegistryTypeOK, LocalTypeOK
  <2> QED
    BY <2>1, HoldersKept
<1>3. ASSUME NEW r \in Runs, PreflightFails(r) PROVE NoLockLeak'
  <2>1. locks' \subseteq locks /\ \A x \in Runs : Holds(x) => Holds(x)'
    BY <1>0, <1>3
    DEF PreflightFails, registryVars, AfterError, Task, NoTask, Holds,
        RegistryTypeOK, LocalTypeOK
  <2> QED
    BY <2>1, HoldersKept
<1>4. ASSUME NEW r \in Runs, Register(r) PROVE NoLockLeak'
  <2>1. locks' = locks \union {RepoOf[r]}
    BY <1>4 DEF Register, RegisterRun, PromoteQueued
  <2>2. \A x \in Runs : x # r => task'[x] = task[x] /\ status'[x] = status[x]
    BY <1>0, <1>4 DEF Register, RegisterRun, PromoteQueued, StatusAfter, LocalTypeOK
  <2>3. status'[r] = "Queued" /\ task'[r].pc = "registered"
    <3>1. task[r] \in [kind : TaskKind, pc : TaskPC]
      BY <1>0, <1>4 DEF Register, LocalTypeOK, TaskType, NoTask
    <3> QED
      BY <1>0, <1>4, <3>1
      DEF Register, RegisterRun, PromoteQueued, CanPromote, StatusAfter, LocalTypeOK
  <2>4. Holds(r)'
    BY <2>3 DEF Holds
  <2> SUFFICES ASSUME NEW p \in locks' PROVE \E x \in Runs : RepoOf[x] = p /\ Holds(x)'
    BY DEF NoLockLeak
  <2>5. CASE p = RepoOf[r]
    BY <2>4, <2>5
  <2>6. CASE p # RepoOf[r]
    <3>1. PICK x \in Runs : RepoOf[x] = p /\ Holds(x)
      BY <2>1, <2>6 DEF NoLockLeak
    <3> QED
      BY <2>2, <2>6, <3>1 DEF Holds
  <2> QED
    BY <2>5, <2>6
<1>5. ASSUME NEW r \in Runs, RegisterFails(r) PROVE NoLockLeak'
  <2>1. locks' \subseteq locks /\ \A x \in Runs : Holds(x) => Holds(x)'
    BY <1>0, <1>5
    DEF RegisterFails, registryVars, AfterError, Task, NoTask, Holds,
        RegistryTypeOK, LocalTypeOK
  <2> QED
    BY <2>1, HoldersKept
<1>6. ASSUME NEW r \in Runs, SpawnSession(r) PROVE NoLockLeak'
  <2>1. task[r] \in [kind : TaskKind, pc : TaskPC]
    BY <1>0, <1>6 DEF SpawnSession, LocalTypeOK, TaskType, NoTask
  <2>2. task'[r].pc = "waiting" /\ \A x \in Runs : x # r => task'[x] = task[x]
    BY <1>0, <1>6, <2>1 DEF SpawnSession, LocalTypeOK
  <2>3. \A x \in Runs : Holds(x) => Holds(x)'
    BY <1>6, <2>2 DEF SpawnSession, registryVars, Holds
  <2> QED
    BY <1>6, <2>3, HoldersKept DEF SpawnSession, registryVars
<1>7. ASSUME NEW r \in Runs, SpawnSessionFails(r) PROVE NoLockLeak'
  <2>1. \A x \in Runs : x # r => task'[x] = task[x]
    BY <1>0, <1>7 DEF SpawnSessionFails, LocalTypeOK
  <2>2. CASE StageStatus(r, "Failed")
    BY <2>1, <2>2, TerminalKeepsLocks DEF Terminal
  <2>3. CASE ~CanStage(r, "Failed") /\ UNCHANGED <<status, locks>>
    <3>1. ~Holds(r)
      BY <2>3 DEF CanStage, Holds, Terminal
    <3> QED
      BY <2>1, <2>3, <3>1, HoldersKept DEF Holds
  <2> QED
    BY <1>7, <2>2, <2>3 DEF SpawnSessionFails, TryStageStatus
<1>8. ASSUME NEW r \in Runs, Dispatch(r) PROVE NoLockLeak'
  <2>1. \A x \in Runs : x # r => task'[x] = task[x] /\ status'[x] = status[x]
    BY <1>0, <1>8
    DEF Dispatch, TryStageStatus, StageStatus, StatusAfter, LocalTypeOK
  <2>2. Holds(r) => Holds(r)'
    BY <1>0, <1>8
    DEF Dispatch, TryStageStatus, StageStatus, StatusAfter, CanStage, Holds,
        Terminal
  <2>3. locks' \subseteq locks
    BY <1>8 DEF Dispatch, TryStageStatus, StageStatus
  <2> QED
    BY <2>1, <2>2, <2>3, HoldersKept DEF Holds
<1>9. ASSUME NEW r \in Runs, DispatchFails(r) PROVE NoLockLeak'
  <2>1. \A x \in Runs : x # r => task'[x] = task[x]
    BY <1>0, <1>9 DEF DispatchFails, LocalTypeOK
  <2>2. CASE StageStatus(r, "Failed")
    BY <2>1, <2>2, TerminalKeepsLocks DEF Terminal
  <2>3. CASE ~CanStage(r, "Failed") /\ UNCHANGED <<status, locks>>
    <3>1. ~Holds(r)
      BY <2>3 DEF CanStage, Holds, Terminal
    <3> QED
      BY <2>1, <2>3, <3>1, HoldersKept DEF Holds
  <2> QED
    BY <1>9, <2>2, <2>3 DEF DispatchFails, TryStageStatus
<1>10. ASSUME NEW r \in Runs, DrainTaskFails(r) PROVE NoLockLeak'
  <2> DEFINE tk == [task EXCEPT ![r] = NoTask]
  <2>1. DrainEffect({r}, tk)
    BY <1>10, DrainTaskFailsEffect
  <2>2. \A x \in Runs : x \notin {r} => tk[x] = task[x]
    BY <1>0 DEF LocalTypeOK
  <2> HIDE DEF tk
  <2>3. {r} \in SUBSET Runs
    OBVIOUS
  <2> QED
    BY <2>1, <2>2, <2>3, DrainKeepsLocks
<1>11. ASSUME NEW r \in Runs,
                 StopQueued(r) \/ RemoveQueued(r)
       PROVE  NoLockLeak'
  <2>1. DequeueRun(r) /\ UNCHANGED <<task, client, mon, handle, hb, alive>>
    BY <1>11 DEF StopQueued, RemoveQueued
  <2>2. StageStatus(r, "Stopped")
    BY <2>1, DequeueEffect
  <2>3. locks' \subseteq locks \ ReleasedBy({r})
    BY <2>2 DEF StageStatus, Terminal
  <2>4. \A x \in Runs : x \notin {r} /\ Holds(x) => Holds(x)'
    BY <1>0, <2>1, <2>2 DEF StageStatus, StatusAfter, Holds
  <2> QED
    BY <2>3, <2>4, LockKept
<1>12. ASSUME NEW r \in Runs,
                 StopBegin(r) \/ DetachCancel(r) \/ StopCancel(r) \/ StopRead(r)
              \/ StopExit(r) \/ SessionDies(r)
       PROVE  NoLockLeak'
  BY <1>12, HoldersKept
  DEF StopBegin, DetachCancel, StopCancel, StopRead, StopExit, SessionDies,
      registryVars, Holds
<1>13. ASSUME NEW r \in Runs, StopMark(r) PROVE NoLockLeak'
  <2>1. StageStatus(r, "Stopped") /\ UNCHANGED task
    BY <1>13 DEF StopMark
  <2>2. "Stopped" \in Terminal
    BY DEF Terminal
  <2> QED
    BY <2>1, <2>2, TerminalKeepsLocks
<1>14. ASSUME NEW r \in Runs, StopDrain(r) PROVE NoLockLeak'
  <2>1. DrainEffect({}, task)
    BY <1>14, DrainIfAvailableEffect, RepoOfAssumption DEF StopDrain
  <2> QED
    BY <2>1, DrainKeepsLocks
<1>15. ASSUME NEW r \in Runs, DetachMark(r) PROVE NoLockLeak'
  <2>1. StageStatus(r, "Stopped") /\ UNCHANGED task
    BY <1>15 DEF DetachMark
  <2>2. "Stopped" \in Terminal
    BY DEF Terminal
  <2> QED
    BY <2>1, <2>2, TerminalKeepsLocks
<1>16. ASSUME NEW r \in Runs, NEW s \in Slots, HandleCompleted(r, s)
       PROVE  NoLockLeak'
  <2>1. StageStatus(r, "Succeeded") /\ UNCHANGED task
    BY <1>16 DEF HandleCompleted
  <2>2. "Succeeded" \in Terminal
    BY DEF Terminal
  <2> QED
    BY <2>1, <2>2, TerminalKeepsLocks
<1>17. ASSUME NEW r \in Runs, NEW s \in Slots,
                 Reap(r, s) \/ HandleNetwork(r, s) \/ RecoveryGate(r, s)
              \/ RecoverySpawn(r, s) \/ MonitorCancelled(r, s)
       PROVE  NoLockLeak'
  BY <1>17, HoldersKept
  DEF Reap, HandleNetwork, RecoveryGate, RecoverySpawn, MonitorCancelled,
      registryVars, Holds
<1>18. ASSUME NEW r \in Runs, NEW s \in Slots, HandleFailed(r, s) PROVE NoLockLeak'
  <2>1. StageStatus(r, "Failed") /\ UNCHANGED task
    BY <1>18 DEF HandleFailed
  <2>2. "Failed" \in Terminal
    BY DEF Terminal
  <2> QED
    BY <2>1, <2>2, TerminalKeepsLocks
<1>19. ASSUME NEW r \in Runs, NEW s \in Slots, HandleCrashed(r, s) PROVE NoLockLeak'
  <2>1. CASE StageStatus(r, "Failed")
    BY <1>19, <2>1, TerminalKeepsLocks DEF HandleCrashed, Terminal
  <2>2. CASE UNCHANGED <<status, locks>>
    BY <1>19, <2>2, HoldersKept DEF HandleCrashed, Holds
  <2> QED
    BY <1>19, <2>1, <2>2 DEF HandleCrashed
<1>20. ASSUME NEW r \in Runs, NEW s \in Slots,
                 NetworkTimeout(r, s) \/ RecoveryDispatchFails(r, s)
       PROVE  NoLockLeak'
  <2>1. StageStatus(r, "Failed") /\ UNCHANGED task
    BY <1>20 DEF NetworkTimeout, RecoveryDispatchFails
  <2>2. "Failed" \in Terminal
    BY DEF Terminal
  <2> QED
    BY <2>1, <2>2, TerminalKeepsLocks
<1>21. ASSUME NEW r \in Runs, NEW s \in Slots, HandlerDrain(r, s) PROVE NoLockLeak'
  <2>1. DrainEffect({}, task)
    BY <1>21, DrainIfAvailableEffect, RepoOfAssumption DEF HandlerDrain
  <2> QED
    BY <2>1, DrainKeepsLocks
<1>22. ASSUME NEW r \in Runs, NEW s \in Slots, RecoveryEnds(r, s) PROVE NoLockLeak'
  <2>1. ASSUME NEW to \in Terminal, StageStatus(r, to) PROVE NoLockLeak'
    BY <1>22, <2>1, TerminalKeepsLocks DEF RecoveryEnds
  <2>2. CASE TryStageStatus(r, "Running")
    <3>1. locks' \subseteq locks
      BY <2>2 DEF TryStageStatus, StageStatus
    <3>2. \A x \in Runs : Holds(x) => Holds(x)'
      BY <1>0, <1>22, <2>2
      DEF RecoveryEnds, TryStageStatus, StageStatus, StatusAfter, Holds
    <3> QED
      BY <3>1, <3>2, HoldersKept
  <2> QED
    BY <1>22, <2>1, <2>2 DEF RecoveryEnds, Terminal
<1>23. ASSUME NEW r \in Runs, NEW s \in Slots, RecoveryDispatch(r, s)
       PROVE  NoLockLeak'
  <2>1. locks' \subseteq locks
    BY <1>23 DEF RecoveryDispatch, TryStageStatus, StageStatus
  <2>2. \A x \in Runs : Holds(x) => Holds(x)'
    BY <1>0, <1>23
    DEF RecoveryDispatch, TryStageStatus, StageStatus, StatusAfter, Holds
  <2> QED
    BY <2>1, <2>2, HoldersKept
<1>24. ASSUME NEW r \in Runs, NEW s \in Slots, NEW o, MonitorReport(r, s, o)
       PROVE  NoLockLeak'
  BY <1>24, HoldersKept DEF MonitorReport, registryVars, Holds
<1>25. ASSUME NEW P \in SUBSET Repos, Clear(P) PROVE NoLockLeak'
  <2> DEFINE cleared == UNION {Pending(x) : x \in P}
  <2>1. cleared \in SUBSET Runs
    BY PendingTypes
  <2>2. /\ UNCHANGED task
        /\ status' = StatusAfter(cleared, "Stopped")
        /\ locks' = locks \ ReleasedBy(cleared)
    BY <1>25 DEF Clear, ClearQueue
  <2> HIDE DEF cleared
  <2>3. \A x \in Runs : x \notin cleared /\ Holds(x) => Holds(x)'
    BY <2>2 DEF StatusAfter, Holds
  <2> QED
    BY <2>1, <2>2, <2>3, LockKept
<1>26. CASE TickSnapshot \/ TickMonitors \/ TickEnd
  BY <1>26, HoldersKept DEF TickSnapshot, TickMonitors, TickEnd, registryVars, Holds
<1>27. ASSUME NEW r \in Runs, TickCapture(r) PROVE NoLockLeak'
  <2>1. CASE StageStatus(r, "Succeeded")
    BY <1>27, <2>1, TerminalKeepsLocks DEF TickCapture, Terminal
  <2>2. CASE UNCHANGED <<status, locks>>
    BY <1>27, <2>2, HoldersKept DEF TickCapture, Holds
  <2> QED
    BY <1>27, <2>1, <2>2 DEF TickCapture
<1>28. \A P \in {Repos} \union {{p} : p \in Repos} : P \in SUBSET Repos
  OBVIOUS
<1> QED
  BY <1>1, <1>2, <1>3, <1>4, <1>5, <1>6, <1>7, <1>8, <1>9, <1>10, <1>11, <1>12,
     <1>13, <1>14, <1>15, <1>16, <1>17, <1>18, <1>19, <1>20, <1>21, <1>22,
     <1>23, <1>24, <1>25, <1>26, <1>27, <1>28
  DEF Next, Submit, SpawnStep, ClientRequest, ClientStep, HandlerStep, Tick

(* A direct submission is unknown to the registry until it is registered.  *)
DirectUnknown ==
    \A r \in Runs : task[r] = Task("direct", "preflight") => status[r] = "absent"

(* Every change of a status by a drain leaves a terminal one.              *)
LEMMA DrainStatus ==
  ASSUME TypeOK, PendingInv, NEW F, NEW tk, DrainEffect(F, tk)
  PROVE  /\ \A x \in Runs : status'[x] \in {status[x]} \union Terminal
         /\ \A x \in Runs : task'[x] = Task("direct", "preflight") =>
              /\ tk[x] = task'[x]
              /\ task[x] # NoTask => status'[x] = status[x] \/ x \in F
<1>1. PICK D \in SUBSET Runs, H \in SUBSET Runs :
        /\ \A r \in D \union H : IsPending(r)
        /\ StageFailedAndDrained(F, D)
        /\ \A r \in Runs : \/ task'[r] = tk[r]
                           \/ task'[r] \in {Task("drain", "preflight"),
                               Task("retry", "preflight")}
  BY DEF DrainEffect
<1>2. \A r \in D : task[r] = NoTask
  BY <1>1 DEF IsPending, PendingInv, PendingEntry
<1> QED
  BY <1>1, <1>2 DEF StageFailedAndDrained, Terminal, Task

(* DirectUnknown is kept.                                                  *)
LEMMA DirectStep ==
  ASSUME TypeOK, AbsentUntouched, RunningIsWatchable, PendingInv, DirectUnknown,
      Next
  PROVE  DirectUnknown'
<1>0. RegistryTypeOK /\ LocalTypeOK
  BY TypeOKSplit
<1>1. ASSUME NEW r \in Runs, SubmitQueued(r) PROVE DirectUnknown'
  BY <1>0, <1>1
  DEF SubmitQueued, EnqueueRun, StatusAfter, DirectUnknown, AbsentUntouched,
      RunningIsWatchable, Task, NoTask, Terminal, RegistryTypeOK, LocalTypeOK
<1>2. ASSUME NEW r \in Runs, SubmitDirect(r) PROVE DirectUnknown'
  BY <1>0, <1>2
  DEF SubmitDirect, registryVars, Task, DirectUnknown, AbsentUntouched,
      RunningIsWatchable, NoTask, Terminal, RegistryTypeOK, LocalTypeOK
<1>3. ASSUME NEW r \in Runs, PreflightFails(r) PROVE DirectUnknown'
  BY <1>0, <1>3
  DEF PreflightFails, registryVars, AfterError, Task, DirectUnknown,
      AbsentUntouched, RunningIsWatchable, NoTask, Terminal, RegistryTypeOK,
      LocalTypeOK
<1>4. ASSUME NEW r \in Runs, Register(r) PROVE DirectUnknown'
  BY <1>0, <1>4
  DEF Register, RegisterRun, PromoteQueued, CanPromote, CanRegister, StatusAfter,
      DirectUnknown, AbsentUntouched, RunningIsWatchable, Task, NoTask, Terminal,
      RegistryTypeOK, LocalTypeOK
<1>5. ASSUME NEW r \in Runs, RegisterFails(r) PROVE DirectUnknown'
  BY <1>0, <1>5
  DEF RegisterFails, registryVars, AfterError, Task, DirectUnknown,
      AbsentUntouched, RunningIsWatchable, NoTask, Terminal, RegistryTypeOK,
      LocalTypeOK
<1>6. ASSUME NEW r \in Runs, SpawnSession(r) PROVE DirectUnknown'
  BY <1>0, <1>6
  DEF SpawnSession, registryVars, DirectUnknown, AbsentUntouched,
      RunningIsWatchable, Task, NoTask, Terminal, RegistryTypeOK, LocalTypeOK
<1>7. ASSUME NEW r \in Runs, SpawnSessionFails(r) PROVE DirectUnknown'
  BY <1>0, <1>7
  DEF SpawnSessionFails, TryStageStatus, CanStage, StageStatus, StatusAfter,
      AfterError, Task, DirectUnknown, AbsentUntouched, RunningIsWatchable, NoTask,
      Terminal, RegistryTypeOK, LocalTypeOK
<1>8. ASSUME NEW r \in Runs, Dispatch(r) PROVE DirectUnknown'
  <2>1. task'[r] # Task("direct", "preflight")
    BY <1>0, <1>8 DEF Dispatch, AfterError, Task, NoTask, LocalTypeOK
  <2>2. \A x \in Runs : x # r => task'[x] = task[x] /\ status'[x] = status[x]
    BY <1>0, <1>8
    DEF Dispatch, TryStageStatus, StageStatus, StatusAfter, LocalTypeOK
  <2> QED
    BY <2>1, <2>2 DEF DirectUnknown
<1>9. ASSUME NEW r \in Runs, DispatchFails(r) PROVE DirectUnknown'
  BY <1>0, <1>9
  DEF DispatchFails, TryStageStatus, CanStage, StageStatus, StatusAfter,
      AfterError, Task, DirectUnknown, AbsentUntouched, RunningIsWatchable, NoTask,
      Terminal, RegistryTypeOK, LocalTypeOK
<1>10. ASSUME NEW r \in Runs, DrainTaskFails(r) PROVE DirectUnknown'
  <2>1. DrainEffect({r}, [task EXCEPT ![r] = NoTask])
    BY <1>10, DrainTaskFailsEffect DEF DrainTaskFails
  <2>2. \A x \in Runs : task'[x] = Task("direct", "preflight") =>
           /\ [task EXCEPT ![r] = NoTask][x] = task'[x]
           /\ task[x] # NoTask => status'[x] = status[x] \/ x \in {r}
    BY <2>1, DrainStatus
  <2> QED
    BY <1>0, <1>10, <2>2 DEF DirectUnknown, LocalTypeOK, Task, NoTask
<1>11. ASSUME NEW r \in Runs,
                 StopQueued(r) \/ RemoveQueued(r)
       PROVE  DirectUnknown'
  <2>1. IsPending(r) /\ StageStatus(r, "Stopped") /\ UNCHANGED task
    BY <1>11, DequeueEffect DEF StopQueued, RemoveQueued
  <2>2. task[r] = NoTask
    BY <2>1 DEF IsPending, PendingInv, PendingEntry
  <2> QED
    BY <1>0, <2>1, <2>2 DEF StageStatus, StatusAfter, DirectUnknown, Task, NoTask
<1>12. ASSUME NEW r \in Runs,
                 StopBegin(r) \/ DetachCancel(r) \/ StopCancel(r) \/ StopRead(r)
              \/ StopExit(r) \/ SessionDies(r)
       PROVE  DirectUnknown'
  BY <1>0, <1>12
  DEF StopBegin, DetachCancel, StopCancel, StopRead, StopExit, SessionDies,
      registryVars, CanBegin, CancelMonitor, DirectUnknown, AbsentUntouched,
      RunningIsWatchable, Task, NoTask, Terminal, RegistryTypeOK, LocalTypeOK
<1>13. ASSUME NEW r \in Runs,
                 StopMark(r) \/ DetachMark(r)
       PROVE  DirectUnknown'
  BY <1>0, <1>13
  DEF StopMark, DetachMark, StageStatus, StatusAfter, DirectUnknown,
      AbsentUntouched, RunningIsWatchable, Task, NoTask, Terminal, RegistryTypeOK,
      LocalTypeOK
<1>14. ASSUME NEW r \in Runs, StopDrain(r) PROVE DirectUnknown'
  <2>1. DrainEffect({}, task)
    BY <1>14, DrainIfAvailableEffect, RepoOfAssumption DEF StopDrain
  <2>2. \A x \in Runs : task'[x] = Task("direct", "preflight") =>
           /\ task[x] = task'[x]
           /\ task[x] # NoTask => status'[x] = status[x] \/ x \in {}
    BY <2>1, DrainStatus
  <2> QED
    BY <1>0, <1>14, <2>2 DEF DirectUnknown, LocalTypeOK, Task, NoTask
<1>15. ASSUME NEW r \in Runs, NEW s \in Slots,
                 HandleCompleted(r, s) \/ HandleFailed(r, s)
       PROVE  DirectUnknown'
  BY <1>0, <1>15
  DEF HandleCompleted, HandleFailed, StageStatus, StatusAfter, Stage,
      DirectUnknown, AbsentUntouched, RunningIsWatchable, Task, NoTask, Terminal,
      RegistryTypeOK, LocalTypeOK
<1>16. ASSUME NEW r \in Runs, NEW s \in Slots,
                 Reap(r, s) \/ HandleNetwork(r, s) \/ RecoveryGate(r, s)
              \/ RecoverySpawn(r, s) \/ MonitorCancelled(r, s)
       PROVE  DirectUnknown'
  BY <1>0, <1>16
  DEF Reap, HandleNetwork, RecoveryGate, RecoverySpawn, MonitorCancelled,
      registryVars, Stage, DirectUnknown, AbsentUntouched, RunningIsWatchable,
      Task, NoTask, Terminal, RegistryTypeOK, LocalTypeOK
<1>17. ASSUME NEW r \in Runs, NEW s \in Slots, HandleCrashed(r, s)
       PROVE  DirectUnknown'
  BY <1>0, <1>17
  DEF HandleCrashed, StageStatus, StatusAfter, Stage, DirectUnknown,
      AbsentUntouched, RunningIsWatchable, Task, NoTask, Terminal, RegistryTypeOK,
      LocalTypeOK
<1>18. ASSUME NEW r \in Runs, NEW s \in Slots,
                 NetworkTimeout(r, s) \/ RecoveryDispatchFails(r, s)
       PROVE  DirectUnknown'
  BY <1>0, <1>18
  DEF NetworkTimeout, RecoveryDispatchFails, StageStatus, StatusAfter, Stage,
      DirectUnknown, AbsentUntouched, RunningIsWatchable, Task, NoTask, Terminal,
      RegistryTypeOK, LocalTypeOK
<1>19. ASSUME NEW r \in Runs, NEW s \in Slots, HandlerDrain(r, s)
       PROVE  DirectUnknown'
  <2>1. DrainEffect({}, task)
    BY <1>19, DrainIfAvailableEffect, RepoOfAssumption DEF HandlerDrain
  <2>2. \A x \in Runs : task'[x] = Task("direct", "preflight") =>
           /\ task[x] = task'[x]
           /\ task[x] # NoTask => status'[x] = status[x] \/ x \in {}
    BY <2>1, DrainStatus
  <2> QED
    BY <1>0, <1>19, <2>2 DEF DirectUnknown, LocalTypeOK, Task, NoTask
<1>20. ASSUME NEW r \in Runs, NEW s \in Slots, RecoveryEnds(r, s)
       PROVE  DirectUnknown'
  BY <1>0, <1>20
  DEF RecoveryEnds, TryStageStatus, CanStage, StageStatus, StatusAfter, Stage,
      DirectUnknown, AbsentUntouched, RunningIsWatchable, Task, NoTask, Terminal,
      RegistryTypeOK, LocalTypeOK
<1>21. ASSUME NEW r \in Runs, NEW s \in Slots, RecoveryDispatch(r, s)
       PROVE  DirectUnknown'
  BY <1>0, <1>21
  DEF RecoveryDispatch, TryStageStatus, CanStage, StageStatus, StatusAfter, Stage,
      DirectUnknown, AbsentUntouched, RunningIsWatchable, Task, NoTask, Terminal,
      RegistryTypeOK, LocalTypeOK
<1>22. ASSUME NEW r \in Runs, NEW s \in Slots, NEW o, MonitorReport(r, s, o)
       PROVE  DirectUnknown'
  BY <1>0, <1>22
  DEF MonitorReport, registryVars, Stage, Watching, Outcome, DirectUnknown,
      AbsentUntouched, RunningIsWatchable, Task, NoTask, Terminal, RegistryTypeOK,
      LocalTypeOK
<1>23. ASSUME NEW P \in SUBSET Repos, Clear(P) PROVE DirectUnknown'
  <2>1. \A x \in UNION {Pending(y) : y \in P} : task[x] = NoTask
    BY DEF PendingInv, PendingEntry
  <2> QED
    BY <1>23, <2>1 DEF Clear, ClearQueue, StatusAfter, DirectUnknown, Task, NoTask
<1>24. CASE TickSnapshot \/ TickMonitors \/ TickEnd
  BY <1>0, <1>24
  DEF TickSnapshot, TickMonitors, TickEnd, registryVars, Active, IdleTick,
      DirectUnknown, AbsentUntouched, RunningIsWatchable, Task, NoTask, Terminal,
      RegistryTypeOK, LocalTypeOK
<1>25. ASSUME NEW r \in Runs, TickCapture(r) PROVE DirectUnknown'
  BY <1>0, <1>25
  DEF TickCapture, StageStatus, StatusAfter, DirectUnknown, AbsentUntouched,
      RunningIsWatchable, Task, NoTask, Terminal, RegistryTypeOK, LocalTypeOK
<1>26. \A P \in {Repos} \union {{p} : p \in Repos} : P \in SUBSET Repos
  OBVIOUS
<1> QED
  BY <1>1, <1>2, <1>3, <1>4, <1>5, <1>6, <1>7, <1>8, <1>9, <1>10, <1>11, <1>12,
     <1>13, <1>14, <1>15, <1>16, <1>17, <1>18, <1>19, <1>20, <1>21, <1>22,
     <1>23, <1>24, <1>25, <1>26
  DEF Next, Submit, SpawnStep, ClientRequest, ClientStep, HandlerStep, Tick

(* No step takes a run out of a terminal status.                           *)
LEMMA TerminalStep ==
  ASSUME TypeOK, PendingInv, DirectUnknown, Next
  PROVE  \A x \in Runs : status[x] \in Terminal => status'[x] \in Terminal
<1>0. RegistryTypeOK /\ LocalTypeOK
  BY TypeOKSplit
<1>1. ASSUME NEW r \in Runs, SubmitQueued(r)
      PROVE  \A x \in Runs : status[x] \in Terminal => status'[x] \in Terminal
  BY <1>0, <1>1 DEF SubmitQueued, EnqueueRun, StatusAfter, Terminal, RegistryTypeOK
<1>2. ASSUME NEW r \in Runs,
                SubmitDirect(r) \/ PreflightFails(r) \/ RegisterFails(r)
             \/ SpawnSession(r)
      PROVE  \A x \in Runs : status[x] \in Terminal => status'[x] \in Terminal
  BY <1>0, <1>2
  DEF SubmitDirect, PreflightFails, RegisterFails, SpawnSession, registryVars,
      Task, AfterError, Terminal, RegistryTypeOK
<1>3. ASSUME NEW r \in Runs, Register(r)
      PROVE  \A x \in Runs : status[x] \in Terminal => status'[x] \in Terminal
  <2>1. CASE task[r].kind = "direct"
    <3>1. task[r] = Task("direct", "preflight")
      BY <1>0, <1>3, <2>1 DEF Register, LocalTypeOK, TaskType, NoTask, Task
    <3>2. status[r] \notin Terminal
      BY <3>1 DEF DirectUnknown, Terminal
    <3> QED
      BY <1>3, <2>1, <3>2 DEF Register, RegisterRun, StatusAfter
  <2>2. CASE task[r].kind # "direct"
    BY <1>3, <2>2 DEF Register, PromoteQueued
  <2> QED
    BY <2>1, <2>2
<1>4. ASSUME NEW r \in Runs,
                SpawnSessionFails(r) \/ Dispatch(r) \/ DispatchFails(r)
      PROVE  \A x \in Runs : status[x] \in Terminal => status'[x] \in Terminal
  BY <1>0, <1>4
  DEF SpawnSessionFails, Dispatch, DispatchFails, TryStageStatus, CanStage,
      StageStatus, StatusAfter, AfterError, Task, Terminal, RegistryTypeOK
<1>5. ASSUME NEW r \in Runs, DrainTaskFails(r)
      PROVE  \A x \in Runs : status[x] \in Terminal => status'[x] \in Terminal
  <2>1. DrainEffect({r}, [task EXCEPT ![r] = NoTask])
    BY <1>5, DrainTaskFailsEffect DEF DrainTaskFails
  <2> QED
    BY <2>1, DrainStatus
<1>6. ASSUME NEW r \in Runs,
                StopQueued(r) \/ RemoveQueued(r)
      PROVE  \A x \in Runs : status[x] \in Terminal => status'[x] \in Terminal
  <2>1. StageStatus(r, "Stopped")
    BY <1>6, DequeueEffect DEF StopQueued, RemoveQueued
  <2> QED
    BY <2>1 DEF StageStatus, StatusAfter, Terminal
<1>7. ASSUME NEW r \in Runs,
                StopBegin(r) \/ DetachCancel(r) \/ StopCancel(r) \/ StopRead(r)
             \/ StopExit(r) \/ SessionDies(r)
      PROVE  \A x \in Runs : status[x] \in Terminal => status'[x] \in Terminal
  BY <1>0, <1>7
  DEF StopBegin, DetachCancel, StopCancel, StopRead, StopExit, SessionDies,
      registryVars, CanBegin, CancelMonitor, Terminal, RegistryTypeOK
<1>8. ASSUME NEW r \in Runs,
                StopMark(r) \/ DetachMark(r) \/ TickCapture(r)
      PROVE  \A x \in Runs : status[x] \in Terminal => status'[x] \in Terminal
  BY <1>0, <1>8
  DEF StopMark, DetachMark, TickCapture, StageStatus, StatusAfter, Terminal,
      RegistryTypeOK
<1>9. ASSUME NEW r \in Runs, StopDrain(r)
      PROVE  \A x \in Runs : status[x] \in Terminal => status'[x] \in Terminal
  <2>1. DrainEffect({}, task)
    BY <1>9, DrainIfAvailableEffect, RepoOfAssumption DEF StopDrain
  <2> QED
    BY <2>1, DrainStatus
<1>10. ASSUME NEW r \in Runs, NEW s \in Slots,
                 HandleCompleted(r, s) \/ HandleFailed(r, s) \/ HandleCrashed(r, s)
              \/ NetworkTimeout(r, s) \/ RecoveryDispatchFails(r, s)
       PROVE  \A x \in Runs : status[x] \in Terminal => status'[x] \in Terminal
  BY <1>0, <1>10
  DEF HandleCompleted, HandleFailed, HandleCrashed, NetworkTimeout,
      RecoveryDispatchFails, StageStatus, StatusAfter, Stage, Terminal,
      RegistryTypeOK
<1>11. ASSUME NEW r \in Runs, NEW s \in Slots,
                 Reap(r, s) \/ HandleNetwork(r, s) \/ RecoveryGate(r, s)
              \/ RecoverySpawn(r, s) \/ MonitorCancelled(r, s)
       PROVE  \A x \in Runs : status[x] \in Terminal => status'[x] \in Terminal
  BY <1>0, <1>11
  DEF Reap, HandleNetwork, RecoveryGate, RecoverySpawn, MonitorCancelled,
      registryVars, Stage, Terminal, RegistryTypeOK
<1>12. ASSUME NEW r \in Runs, NEW s \in Slots, HandlerDrain(r, s)
       PROVE  \A x \in Runs : status[x] \in Terminal => status'[x] \in Terminal
  <2>1. DrainEffect({}, task)
    BY <1>12, DrainIfAvailableEffect, RepoOfAssumption DEF HandlerDrain
  <2> QED
    BY <2>1, DrainStatus
<1>13. ASSUME NEW r \in Runs, NEW s \in Slots,
                 RecoveryEnds(r, s) \/ RecoveryDispatch(r, s)
       PROVE  \A x \in Runs : status[x] \in Terminal => status'[x] \in Terminal
  BY <1>0, <1>13
  DEF RecoveryEnds, RecoveryDispatch, TryStageStatus, CanStage, StageStatus,
      StatusAfter, Stage, Terminal, RegistryTypeOK
<1>14. ASSUME NEW r \in Runs, NEW s \in Slots, NEW o, MonitorReport(r, s, o)
       PROVE  \A x \in Runs : status[x] \in Terminal => status'[x] \in Terminal
  BY <1>0, <1>14
  DEF MonitorReport, registryVars, Stage, Watching, Outcome, Terminal,
      RegistryTypeOK
<1>15. ASSUME NEW P \in SUBSET Repos, Clear(P)
       PROVE  \A x \in Runs : status[x] \in Terminal => status'[x] \in Terminal
  BY <1>0, <1>15 DEF Clear, ClearQueue, StatusAfter, Terminal, RegistryTypeOK
<1>16. CASE TickSnapshot \/ TickMonitors \/ TickEnd
  BY <1>0, <1>16
  DEF TickSnapshot, TickMonitors, TickEnd, registryVars, Active, IdleTick,
      Terminal, RegistryTypeOK
<1>17. \A P \in {Repos} \union {{p} : p \in Repos} : P \in SUBSET Repos
  OBVIOUS
<1> QED
  BY <1>1, <1>2, <1>3, <1>4, <1>5, <1>6, <1>7, <1>8, <1>9, <1>10, <1>11, <1>12,
     <1>13, <1>14, <1>15, <1>16, <1>17
  DEF Next, Submit, SpawnStep, ClientRequest, ClientStep, HandlerStep, Tick

----------------------------------------------------------------------------
(* The theorems.                                                           *)

(* The safety invariants hold one another up: a lock is only freed with    *)
(* its holder because the queues are sound, a direct submission is unknown *)
(* because a task never spawns a run it was not given, and a handler's run *)
(* has a session because the tick only watches such runs.                  *)
IInv ==
    /\ TypeOK
    /\ PendingInv
    /\ AbsentUntouched
    /\ DirectUnknown
    /\ RunningIsWatchable
    /\ TickSound
    /\ NoLockLeak
    /\ SingleMonitor

(* The inductive invariant holds initially.                                *)
LEMMA InitInv == Init => IInv
<1> SUFFICES ASSUME Init PROVE IInv
  OBVIOUS
<1>1. TypeOK
  BY InitTypeOK
<1>2. PendingInv
  BY EmptyQueue DEF Init, InitRegistry, PendingInv, Pending
<1>3. AbsentUntouched /\ DirectUnknown
  BY DEF Init, InitRegistry, AbsentUntouched, DirectUnknown, NoTask, Task
<1>4. RunningIsWatchable /\ TickSound /\ NoLockLeak /\ SingleMonitor
  BY
  DEF Init, InitRegistry, RunningIsWatchable, TickSound, NoLockLeak, SingleMonitor,
         IdleTick
<1> QED
  BY <1>1, <1>2, <1>3, <1>4 DEF IInv

(* Every step keeps it.                                                    *)
LEMMA NextInv == IInv /\ [Next]_vars => IInv'
<1> SUFFICES ASSUME IInv, [Next]_vars PROVE IInv'
  OBVIOUS
<1>1. TypeOK'
  BY NextTypes DEF IInv
<1>2. CASE Next
  <2>1. PendingInv' /\ AbsentUntouched'
    BY <1>2, PendingStep, AbsentStep DEF IInv
  <2>2. DirectUnknown'
    BY <1>2, DirectStep DEF IInv
  <2>3. RunningIsWatchable' /\ TickSound'
    BY <1>2, WatchStep DEF IInv
  <2>4. NoLockLeak'
    BY <1>2, LockStep DEF IInv
  <2>5. SingleMonitor'
    BY <1>2, SingleMonitorStep DEF IInv
  <2> QED
    BY <1>1, <2>1, <2>2, <2>3, <2>4, <2>5 DEF IInv
<1>3. CASE UNCHANGED vars
  <2>1. PendingInv'
    BY <1>3 DEF IInv, vars, PendingInv, Pending, PendingEntry, PendingClient
  <2>2. AbsentUntouched' /\ DirectUnknown' /\ RunningIsWatchable' /\ TickSound'
    BY <1>3
    DEF IInv, vars, AbsentUntouched, DirectUnknown, RunningIsWatchable, TickSound
  <2>3. NoLockLeak' /\ SingleMonitor'
    BY <1>3 DEF IInv, vars, NoLockLeak, Holds, SingleMonitor
  <2> QED
    BY <1>1, <2>1, <2>2, <2>3 DEF IInv
<1> QED
  BY <1>2, <1>3

(* So it always holds.                                                     *)
LEMMA Invariance == Spec => []IInv
BY InitInv, NextInv, PTL DEF Spec

(* No repository stays locked without a run that will free it, on any path *)
(* through register_run, promote_queued, spawn_after_register, stop_run,   *)
(* the outcome handlers and the drains.                                    *)
THEOREM LocksNeverLeak == Spec => []NoLockLeak
<1>1. IInv => NoLockLeak
  BY DEF IInv
<1> QED
  BY <1>1, Invariance, PTL

(* Each pending run is in its own repository's queue, once, with no task   *)
(* and no session, whatever drains, stops, detaches and clears do.         *)
THEOREM PendingIsSound == Spec => []PendingSound
<1>1. IInv => PendingSound
  <2> SUFFICES ASSUME IInv, NEW p \in Repos, NEW i \in DOMAIN queue[p]
               PROVE  /\ PendingEntry(p, queue[p][i])
                      /\ \A j \in DOMAIN queue[p] : queue[p][i] = queue[p][j] => i = j
    BY DEF PendingSound
  <2>1. queue[p][i] \in Pending(p)
    BY DEF Pending, ToSet
  <2> QED
    BY <2>1 DEF IInv, PendingInv, Distinct
<1> QED
  BY <1>1, Invariance, PTL

(* Running runs, monitors and outcome handlers all have a session on       *)
(* record, so check_all_runs sees every one of them.                       *)
THEOREM RunningRunsAreWatchable == Spec => []RunningIsWatchable
<1>1. IInv => RunningIsWatchable
  BY DEF IInv
<1> QED
  BY <1>1, Invariance, PTL

(* Of the monitor tasks of a run at most one is not cancelled, the one in  *)
(* the monitors map, for any number of tasks left over from earlier ones.  *)
THEOREM OneMonitorPerRun == Spec => []SingleMonitor
<1>1. IInv => SingleMonitor
  BY DEF IInv
<1> QED
  BY <1>1, Invariance, PTL

(* INV-6: no task, handler or request takes a run out of a terminal        *)
(* status, although all of them work on statuses read earlier.             *)
THEOREM TerminalIsForever == Spec => TerminalForever
<1>1. IInv /\ [Next]_vars =>
        [\A r \in Runs : status[r] \in Terminal => status'[r] \in Terminal]_vars
  <2> SUFFICES ASSUME IInv, Next
               PROVE  \A r \in Runs : status[r] \in Terminal => status'[r] \in Terminal
    OBVIOUS
  <2> QED
    BY TerminalStep DEF IInv
<1> QED
  BY <1>1, Invariance, PTL DEF Spec, TerminalForever
----------------------------------------------------------------------------
(* FIFO within a repository.  Every change of a queue keeps the order of   *)
(* what it keeps, and only the head of a queue gets a task.                *)

(* pop_from_pending_queues: nobody gets ahead of anybody, and who has      *)
(* somebody ahead of it is not the one popped.                             *)
LEMMA TailKeepsOrder ==
  ASSUME NEW S, NEW s \in Seq(S), s # <<>>, NEW x, NEW y
  PROVE  /\ Ahead(Tail(s), x, y) => Ahead(s, x, y)
         /\ Distinct(s) /\ Ahead(s, x, y) => Head(s) # y
<1>1. /\ Len(s) \in Nat \ {0} /\ Len(Tail(s)) = Len(s) - 1 /\ Head(s) = s[1]
      /\ \A i \in 1..Len(Tail(s)) : Tail(s)[i] = s[i + 1]
      /\ DOMAIN s = 1..Len(s) /\ DOMAIN Tail(s) = 1..Len(Tail(s))
  OBVIOUS
<1>2. ASSUME NEW i \in DOMAIN Tail(s), NEW j \in DOMAIN Tail(s),
             i < j, Tail(s)[i] = x, Tail(s)[j] = y
      PROVE  Ahead(s, x, y)
  <2>1. i + 1 \in DOMAIN s /\ j + 1 \in DOMAIN s /\ i + 1 < j + 1
    BY <1>1, <1>2
  <2>2. s[i + 1] = x /\ s[j + 1] = y
    BY <1>1, <1>2
  <2> QED
    BY <2>1, <2>2 DEF Ahead
<1>3. ASSUME Distinct(s), NEW i \in DOMAIN s, NEW j \in DOMAIN s, i < j, s[j] = y
      PROVE  Head(s) # y
  BY <1>1, <1>3 DEF Distinct
<1> QED
  BY <1>2, <1>3 DEF Ahead

(* dequeue_run_staged keeps the order of the others.                       *)
LEMMA RemoveAtKeepsOrder ==
  ASSUME NEW S, NEW s \in Seq(S), NEW n \in DOMAIN s, NEW x, NEW y,
         Ahead(RemoveAt(s, n), x, y)
  PROVE  Ahead(s, x, y)
<1>1. /\ Len(s) \in Nat /\ DOMAIN s = 1..Len(s) /\ DOMAIN RemoveAt(s, n) = 1..(Len(s) - 1)
      /\ \A i \in 1..(Len(s) - 1) : RemoveAt(s, n)[i] = IF i < n THEN s[i] ELSE s[i + 1]
  BY RemoveAtElements
<1>2. PICK i \in DOMAIN RemoveAt(s, n), j \in DOMAIN RemoveAt(s, n) :
         i < j /\ RemoveAt(s, n)[i] = x /\ RemoveAt(s, n)[j] = y
  BY DEF Ahead
<1> DEFINE at(k) == IF k < n THEN k ELSE k + 1
<1>3. at(i) \in DOMAIN s /\ at(j) \in DOMAIN s /\ at(i) < at(j)
  BY <1>1, <1>2
<1>4. s[at(i)] = x /\ s[at(j)] = y
  BY <1>1, <1>2
<1> HIDE DEF at
<1> QED
  BY <1>3, <1>4 DEF Ahead

(* enqueue_run puts a new run behind everybody.                            *)
LEMMA AppendKeepsOrder ==
  ASSUME NEW S, NEW s \in Seq(S), NEW r \in S, r \notin ToSet(s),
         NEW x \in ToSet(s), NEW y, Ahead(Append(s, r), y, x)
  PROVE  Ahead(s, y, x)
<1>1. /\ Len(s) \in Nat /\ DOMAIN s = 1..Len(s) /\ DOMAIN Append(s, r) = 1..(Len(s) + 1)
      /\ \A i \in 1..Len(s) : Append(s, r)[i] = s[i]
      /\ Append(s, r)[Len(s) + 1] = r
  OBVIOUS
<1>2. PICK i \in DOMAIN Append(s, r), j \in DOMAIN Append(s, r) :
         i < j /\ Append(s, r)[i] = y /\ Append(s, r)[j] = x
  BY DEF Ahead
<1>3. j # Len(s) + 1
  BY <1>1, <1>2
<1>4. i \in DOMAIN s /\ j \in DOMAIN s
  BY <1>1, <1>2, <1>3
<1> QED
  BY <1>1, <1>2, <1>4 DEF Ahead

(* What FifoPerRepo asks of a step.                                        *)
OrderKept ==
    \A p \in Repos : \A x \in Pending(p), y \in Runs :
       Ahead(queue'[p], y, x) => Ahead(queue[p], y, x)

OnlyHeadsStart(tk) ==
    \A y \in Runs : \/ task'[y] = tk[y]
                    \/ \E o \in Repos : queue[o] # <<>> /\ y = Head(queue[o])

(* A pop keeps the order and starts a head.                                *)
LEMMA PopKeepsOrder ==
  ASSUME TypeOK, NEW p \in Repos, NEW failed \in BOOLEAN,
         NEW src, \A x \in src : x \in Repos /\ QueueAfter(p, failed)[x] # <<>>,
         NEW kind, NEW tk \in [Runs -> TaskType],
         PopInto(src, QueueAfter(p, failed), kind, tk)
  PROVE  OrderKept /\ OnlyHeadsStart(tk)
<1> DEFINE q == QueueAfter(p, failed)
<1>0. RegistryTypeOK
  BY TypeOKSplit
<1>1. /\ q \in [Repos -> Seq(Runs)] /\ queue \in [Repos -> Seq(Runs)]
      /\ \A x \in Repos : q[x] \in {<<>>, queue[x]}
  BY <1>0, QueueAfterFacts DEF RegistryTypeOK
<1>2. PopInto(src, q, kind, tk) /\ \A x \in src : x \in Repos /\ q[x] # <<>>
  OBVIOUS
<1> HIDE DEF q
<1>3. \A x, y : ~Ahead(<<>>, x, y)
  BY DEF Ahead
<1>4. \A o \in Repos : \A x, y : Ahead(q[o], x, y) => Ahead(queue[o], x, y)
  BY <1>1, <1>3
<1>5. CASE src = {} /\ queue' = q /\ task' = tk
  BY <1>4, <1>5 DEF OrderKept, OnlyHeadsStart
<1>6. ASSUME NEW o \in src, queue' = [q EXCEPT ![o] = Tail(@)],
             task' = [tk EXCEPT ![Head(q[o])] = Task(kind, "preflight")]
      PROVE  OrderKept /\ OnlyHeadsStart(tk)
  <2>1. o \in Repos /\ q[o] # <<>> /\ q[o] = queue[o]
    BY <1>1, <1>2
  <2>2. queue'[o] = Tail(q[o]) /\ \A x \in Repos : x # o => queue'[x] = q[x]
    BY <1>1, <1>6, <2>1
  <2>3. \A x, y : Ahead(Tail(q[o]), x, y) => Ahead(q[o], x, y)
    <3>1. q[o] \in Seq(Runs)
      BY <1>1, <2>1
    <3> QED
      BY <2>1, <3>1, TailKeepsOrder
  <2>4. OrderKept
    BY <1>4, <2>1, <2>2, <2>3 DEF OrderKept
  <2>5. OnlyHeadsStart(tk)
    BY <1>6, <2>1 DEF OnlyHeadsStart
  <2> QED
    BY <2>4, <2>5
<1> QED
  BY <1>2, <1>5, <1>6 DEF PopInto

(* Both drains are pops.                                                   *)
LEMMA DrainsKeepOrder ==
  ASSUME TypeOK
  PROVE  /\ \A r \in Runs : DrainTaskFails(r)
               => OrderKept /\ OnlyHeadsStart([task EXCEPT ![r] = NoTask])
         /\ \A p \in Repos, failed \in BOOLEAN :
               DrainIfAvailable(p, failed) => OrderKept /\ OnlyHeadsStart(task)
<1>0. RegistryTypeOK /\ task \in [Runs -> TaskType]
  BY TypeOKSplit DEF LocalTypeOK
<1>1. ASSUME NEW r \in Runs, DrainTaskFails(r)
      PROVE  OrderKept /\ OnlyHeadsStart([task EXCEPT ![r] = NoTask])
  <2> DEFINE p == RepoOf[r]
             q == QueueAfter(p, TRUE)
             f == FailsAfter(p, TRUE)
             tk == [task EXCEPT ![r] = NoTask]
  <2>1. p \in Repos /\ tk \in [Runs -> TaskType]
    BY <1>0, RepoOfAssumption DEF TaskType
  <2>2. PopInto(OwnQueue(p, q, f), q, "retry", tk)
    BY <1>1 DEF DrainTaskFails
  <2> HIDE DEF p, f, tk
  <2>3. q \in [Repos -> Seq(Runs)]
    BY <1>0, <2>1, QueueAfterFacts
  <2>4. \A x \in OwnQueue(p, q, f) : x \in Repos /\ q[x] # <<>>
    BY <1>0, <2>1, <2>3, SourceFacts
  <2>5. OrderKept /\ OnlyHeadsStart(tk)
    BY <2>1, <2>2, <2>4, PopKeepsOrder
  <2> QED
    BY <2>5 DEF tk
<1>2. ASSUME NEW p \in Repos, NEW failed \in BOOLEAN, DrainIfAvailable(p, failed)
      PROVE  OrderKept /\ OnlyHeadsStart(task)
  <2> DEFINE q == QueueAfter(p, failed)
             f == FailsAfter(p, failed)
  <2>1. PopInto(OwnElseAny(p, q, f), q, "drain", task)
    BY <1>2 DEF DrainIfAvailable
  <2> HIDE DEF f
  <2>2. q \in [Repos -> Seq(Runs)]
    BY <1>0, QueueAfterFacts
  <2>3. \A x \in OwnElseAny(p, q, f) : x \in Repos /\ q[x] # <<>>
    BY <1>0, <2>2, SourceFacts
  <2> QED
    BY <1>0, <2>1, <2>3, PopKeepsOrder
<1> QED
  BY <1>1, <1>2
(* Whom a step starts that was pending was the head of a queue.            *)
HeadsStart ==
    \A y \in Runs : IsPending(y) =>
        task'[y] = NoTask \/ \E o \in Repos : queue[o] # <<>> /\ y = Head(queue[o])

(* A step of a task, on the run of that task only, starts nobody.          *)
LEMMA OwnTask ==
  ASSUME IInv, NEW r \in Runs, task[r] # NoTask \/ status[r] = "absent",
         \A y \in Runs : y # r => task'[y] = task[y]
  PROVE  HeadsStart
<1>1. \A y \in Runs : IsPending(y) => task[y] = NoTask /\ status[y] # "absent"
  BY DEF IInv, PendingInv, PendingEntry, IsPending
<1> QED
  BY <1>1 DEF HeadsStart

(* Every step.                                                             *)
LEMMA FifoStep ==
  ASSUME IInv, Next
  PROVE  OrderKept /\ HeadsStart
<1>0. /\ TypeOK /\ PendingInv /\ RegistryTypeOK /\ LocalTypeOK
      /\ \A y \in Runs : IsPending(y) => task[y] = NoTask
      /\ \A r \in Runs : RepoOf[r] \in Repos
  BY TypeOKSplit, RepoOfAssumption DEF IInv, PendingInv, PendingEntry, IsPending
<1>1. queue' = queue => OrderKept
  BY DEF OrderKept
<1>2. task' = task => HeadsStart
  BY <1>0 DEF HeadsStart
<1>3. ASSUME NEW tk, OnlyHeadsStart(tk), \A y \in Runs : IsPending(y) => tk[y] = NoTask
      PROVE  HeadsStart
  BY <1>3 DEF HeadsStart, OnlyHeadsStart
<1>4. ASSUME NEW r \in Runs, SubmitQueued(r) PROVE OrderKept /\ HeadsStart
  <2> DEFINE p == RepoOf[r]
  <2>1. p \in Repos /\ queue \in [Repos -> Seq(Runs)]
    BY <1>0 DEF RegistryTypeOK
  <2>2. /\ r \notin Pending(p) /\ queue' = [queue EXCEPT ![p] = Append(@, r)] /\ task' = task
    BY <1>0, <1>4, <2>1 DEF SubmitQueued, EnqueueRun, PendingInv, PendingEntry
  <2> HIDE DEF p
  <2>3. \A x \in Pending(p), y \in Runs : Ahead(Append(queue[p], r), y, x) => Ahead(queue[p], y, x)
    <3>1. queue[p] \in Seq(Runs) /\ r \notin ToSet(queue[p])
      BY <2>1, <2>2 DEF Pending
    <3> QED
      BY <3>1, AppendKeepsOrder DEF Pending
  <2> QED
    BY <1>2, <2>1, <2>2, <2>3 DEF OrderKept
<1>5. ASSUME NEW r \in Runs, StopQueued(r) \/ RemoveQueued(r) PROVE OrderKept /\ HeadsStart
  <2>1. DequeueRun(r) /\ task' = task
    BY <1>5 DEF StopQueued, RemoveQueued
  <2>2. PICK p \in Repos : \E i \in DOMAIN queue[p] : queue' = [queue EXCEPT ![p] = RemoveAt(@, i)]
    BY <2>1 DEF DequeueRun
  <2>3. PICK i \in DOMAIN queue[p] : queue' = [queue EXCEPT ![p] = RemoveAt(@, i)]
    BY <2>2
  <2>4. queue[p] \in Seq(Runs) /\ queue \in [Repos -> Seq(Runs)]
    BY <1>0 DEF RegistryTypeOK
  <2>5. \A x, y : Ahead(RemoveAt(queue[p], i), y, x) => Ahead(queue[p], y, x)
    BY <2>4, RemoveAtKeepsOrder
  <2> QED
    BY <1>2, <2>1, <2>3, <2>4, <2>5 DEF OrderKept
<1>6. ASSUME NEW P \in SUBSET Repos, Clear(P) PROVE OrderKept /\ HeadsStart
  <2>1. task' = task /\ \A p \in Repos : queue'[p] \in {<<>>, queue[p]}
    BY <1>6 DEF Clear, ClearQueue
  <2>2. \A x, y : ~Ahead(<<>>, x, y)
    BY DEF Ahead
  <2> QED
    BY <1>2, <2>1, <2>2 DEF OrderKept
<1>7. ASSUME NEW r \in Runs, DrainTaskFails(r) PROVE OrderKept /\ HeadsStart
  <2> DEFINE tk == [task EXCEPT ![r] = NoTask]
  <2>1. \A y \in Runs : IsPending(y) => tk[y] = NoTask
    BY <1>0 DEF LocalTypeOK
  <2>2. OrderKept /\ OnlyHeadsStart(tk)
    BY <1>0, <1>7, DrainsKeepOrder
  <2> HIDE DEF tk
  <2> QED
    BY <1>3, <2>1, <2>2
<1>8. ASSUME NEW r \in Runs, StopDrain(r) \/ \E s \in Slots : HandlerDrain(r, s)
      PROVE  OrderKept /\ HeadsStart
  <2>1. \E failed \in BOOLEAN : DrainIfAvailable(RepoOf[r], failed)
    BY <1>8 DEF StopDrain, HandlerDrain
  <2>2. OrderKept /\ OnlyHeadsStart(task)
    BY <1>0, <2>1, DrainsKeepOrder
  <2> QED
    BY <1>0, <1>3, <2>2
<1>9. ASSUME NEW r \in Runs, SpawnStep(r), ~DrainTaskFails(r) PROVE OrderKept /\ HeadsStart
  <2>1. queue' = queue
    BY <1>9 DEF SpawnStep, PreflightFails, Register, RegisterFails, SpawnSession,
         SpawnSessionFails, Dispatch, DispatchFails, registryVars
  <2>2. task[r] # NoTask
    BY <1>9 DEF SpawnStep, PreflightFails, Register, RegisterFails, SpawnSession,
         SpawnSessionFails, Dispatch, DispatchFails, NoTask
  <2>3. \A y \in Runs : y # r => task'[y] = task[y]
    BY <1>0, <1>9 DEF LocalTypeOK, SpawnStep, PreflightFails, Register, RegisterFails,
         SpawnSession, SpawnSessionFails, Dispatch, DispatchFails
  <2> QED
    BY <1>1, <2>1, <2>2, <2>3, OwnTask
<1>10. ASSUME NEW r \in Runs, SubmitDirect(r) PROVE OrderKept /\ HeadsStart
  <2>1. queue' = queue /\ status[r] = "absent" /\ \A y \in Runs : y # r => task'[y] = task[y]
    BY <1>0, <1>10 DEF SubmitDirect, registryVars, LocalTypeOK
  <2> QED
    BY <1>1, <2>1, OwnTask
<1>11. ASSUME NEW r \in Runs,
              \/ StopBegin(r) \/ DetachCancel(r) \/ StopCancel(r) \/ StopRead(r)
              \/ StopExit(r) \/ StopMark(r) \/ DetachMark(r) \/ SessionDies(r)
       PROVE  UNCHANGED <<queue, task>>
  BY <1>11 DEF StopBegin, DetachCancel, StopCancel, StopRead, StopExit, StopMark,
       DetachMark, SessionDies, registryVars
<1>12. ASSUME NEW r \in Runs, NEW s \in Slots, HandlerStep(r, s), ~HandlerDrain(r, s)
       PROVE  UNCHANGED <<queue, task>>
  BY <1>12 DEF HandlerStep, HandleCompleted, Reap, HandleFailed, HandleCrashed,
       HandleNetwork, NetworkTimeout, RecoveryGate, RecoveryEnds, RecoverySpawn,
       RecoveryDispatch, RecoveryDispatchFails, MonitorCancelled, registryVars
<1>13. ASSUME NEW r \in Runs, NEW s \in Slots, NEW o, MonitorReport(r, s, o)
       PROVE  UNCHANGED <<queue, task>>
  BY <1>13 DEF MonitorReport, registryVars
<1>14. CASE Tick
  <2>1. UNCHANGED <<queue, task>>
    BY <1>14 DEF Tick, TickSnapshot, TickMonitors, TickCapture, TickEnd, registryVars
  <2> QED
    BY <1>1, <1>2, <2>1
<1>15. \A P \in {Repos} \union {{p} : p \in Repos} : P \in SUBSET Repos
  OBVIOUS
<1>16. ASSUME UNCHANGED <<queue, task>> PROVE OrderKept /\ HeadsStart
  BY <1>1, <1>2, <1>16
<1>17. ASSUME NEW r \in Runs, ClientRequest(r) \/ ClientStep(r) \/ SessionDies(r)
       PROVE  OrderKept /\ HeadsStart
  BY <1>5, <1>8, <1>11, <1>16, <1>17 DEF ClientRequest, ClientStep
<1>18. ASSUME NEW r \in Runs, Submit(r) \/ SpawnStep(r) PROVE OrderKept /\ HeadsStart
  BY <1>4, <1>7, <1>9, <1>10, <1>18 DEF Submit
<1>19. ASSUME NEW r \in Runs, NEW s \in Slots,
              HandlerStep(r, s) \/ \E o \in Outcomes : MonitorReport(r, s, o)
       PROVE  OrderKept /\ HeadsStart
  BY <1>8, <1>12, <1>13, <1>16, <1>19
<1> QED
  BY <1>6, <1>14, <1>15, <1>17, <1>18, <1>19 DEF Next

(* While a run waits, nobody who was not ahead of it in its queue gets     *)
(* ahead of it, and nobody behind it starts, whatever submissions,         *)
(* removals, clears, drains of any repository and the circuit breaker do.  *)
THEOREM QueuesAreFifo == Spec => FifoPerRepo
<1>1. IInv /\ [Next]_vars =>
        [\A p \in Repos : \A x \in Pending(p), y \in Runs :
           /\ ~Ahead(queue[p], y, x) => ~Ahead(queue'[p], y, x)
           /\ Ahead(queue[p], x, y) => task'[y] = NoTask]_vars
  <2> SUFFICES ASSUME IInv, Next, NEW p \in Repos, NEW x \in Pending(p), NEW y \in Runs
               PROVE  /\ ~Ahead(queue[p], y, x) => ~Ahead(queue'[p], y, x)
                      /\ Ahead(queue[p], x, y) => task'[y] = NoTask
    BY Zenon
  <2>1. OrderKept /\ HeadsStart
    BY FifoStep
  <2>2. queue[p] \in Seq(Runs) /\ Distinct(queue[p]) /\ queue[p] # <<>>
    BY EmptyQueue, PendingTypes DEF IInv, PendingInv, Pending
  <2>3. ASSUME Ahead(queue[p], x, y) PROVE task'[y] = NoTask
    <3>1. y \in Pending(p)
      BY <2>3 DEF Ahead, Pending, ToSet
    <3>2. ASSUME NEW o \in Repos, queue[o] # <<>>, y = Head(queue[o]) PROVE FALSE
      <4>1. queue[o] \in Seq(Runs)
        BY PendingTypes DEF IInv
      <4>2. y \in Pending(o)
        BY <3>2, <4>1, TailOfDistinct DEF Pending
      <4>3. o = p
        BY <3>1, <4>2, PendingOnce DEF IInv
      <4> QED
        BY <2>2, <2>3, <3>2, <4>3, TailKeepsOrder
    <3> QED
      BY <2>1, <3>1, <3>2 DEF HeadsStart, IsPending
  <2> QED
    BY <2>1, <2>3 DEF OrderKept
<1> QED
  BY <1>1, Invariance, PTL DEF Spec, FifoPerRepo
----------------------------------------------------------------------------
(* The queue is served: while somebody waits, somebody is left whose end   *)
(* drains the queues.  A detached run, a monitor that panicked, a failed   *)
(* start of a direct run and a network timeout end without a drain, so     *)
(* this is said of a daemon without them.                                  *)

Calm ==
    /\ Requests \subseteq {"submit", "stop", "remove", "clear"}
    /\ Outcomes \subseteq {"completed", "failed"}
    /\ Faults \subseteq {"kill"}

CalmStage == {"none", "watch", "cancelled", "completed", "failed", "reap",
              "drain_ok", "drain_fail"}

Draining == {"reap", "drain_ok", "drain_fail"}

(* What a calm daemon keeps true of each run.                              *)
CalmRun(r) ==
    /\ \A s \in Slots : mon[r][s] \in CalmStage
    /\ client[r] # "detach"
    /\ client[r] = "exit" => r \in tmux
    /\ status[r] = "Queued" => r \notin tmux
    /\ status[r] \in {"absent", "Queued"} => (r \in alive <=> task[r].pc = "waiting")
    /\ status[r] = "Running" => task[r] = NoTask
    /\ IsPending(r) => status[r] = "Queued"

(* Every repository with a queue is in repo_insertion_order.               *)
OrderCovers == \A p \in Repos : queue[p] # <<>> => \E i \in DOMAIN order : order[i] = p

(* Who will drain, whatever becomes of the others.                         *)
Server(r) ==
    \/ Holds(r)
    \/ task[r].pc = "preflight" /\ (task[r].kind = "direct" \/ status[r] = "Queued")
    \/ client[r] = "drain"
    \/ \E s \in Slots : mon[r][s] \in Draining

Served == (\E p \in Repos : queue[p] # <<>>) => \E r \in Runs : Server(r)

CalmInv == (\A r \in Runs : CalmRun(r)) /\ OrderCovers /\ Served

(* A step leaves a run alone.                                              *)
Untouched(x) ==
    /\ status'[x] = status[x] /\ task'[x] = task[x] /\ client'[x] = client[x]
    /\ mon'[x] = mon[x] /\ (x \in tmux' <=> x \in tmux) /\ (x \in alive' <=> x \in alive)
    /\ IsPending(x)' => IsPending(x)

(* It keeps what is true of it.                                            *)
LEMMA UntouchedIsCalm ==
  ASSUME NEW x \in Runs, CalmRun(x), Untouched(x)
  PROVE  CalmRun(x)' /\ (Server(x) => Server(x)')
BY DEF CalmRun, Untouched, Server, Holds

(* A step on run r alone.                                                  *)
LEMMA OneRunIsCalm ==
  ASSUME \A x \in Runs : CalmRun(x), NEW r \in Runs,
         \A x \in Runs : x # r => Untouched(x),
         CalmRun(r)'
  PROVE  \A x \in Runs : CalmRun(x)'
BY UntouchedIsCalm

(* Nobody new waits, and every server is followed by one.                  *)
LEMMA StillServed ==
  ASSUME Served, \A p \in Repos : queue'[p] # <<>> => \E o \in Repos : queue[o] # <<>>,
         \A x \in Runs : Server(x) => \E y \in Runs : Server(y)'
  PROVE  Served'
BY DEF Served

(* A pending run is no server.                                             *)
LEMMA PendingServesNobody ==
  ASSUME IInv, NEW x \in Runs, IsPending(x), CalmRun(x)
  PROVE  /\ status[x] = "Queued" /\ task[x] = NoTask /\ client[x] = "none"
         /\ \A s \in Slots : mon[x][s] = "none"
<1>1. status[x] = "Queued" /\ client[x] # "detach"
  BY DEF CalmRun
<1>2. task[x] = NoTask /\ x \notin tmux /\ PendingClient(x)
  BY DEF IInv, PendingInv, PendingEntry, IsPending
<1> QED
  BY <1>1, <1>2 DEF PendingClient, IInv, RunningIsWatchable

----------------------------------------------------------------------------
(* What a drain leaves of a queue that is not empty is behind a run that   *)
(* it has started.                                                         *)

(* The least element of a set of natural numbers.                          *)
LEMMA LeastElement ==
  ASSUME NEW S, S \subseteq Nat, S # {}
  PROVE  \E x \in S : \A y \in S : x <= y
<1> DEFINE R == OpToRel(<, Nat)
<1>1. IsWellFoundedOn(R, Nat)
  BY NatLessThanWellFounded
<1> HIDE DEF R
<1>2. PICK x \in S : \A y \in S : ~(<<y, x>> \in R)
  BY <1>1, WFMin
<1>3. \A y \in S : y < x => <<y, x>> \in R
  BY DEF OpToRel, R
<1>4. \A y \in S : ~(y < x)
  BY <1>2, <1>3
<1>5. x \in Nat /\ \A y \in S : y \in Nat
  BY <1>2
<1>6. \A y \in S : x <= y
  BY <1>4, <1>5
<1> QED
  BY <1>2, <1>6

(* drain_if_available finds somebody whenever somebody waits.              *)
LEMMA DrainFinds ==
  ASSUME RegistryTypeOK, OrderCovers, NEW p \in Repos, NEW failed \in BOOLEAN,
         NEW o \in Repos, QueueAfter(p, failed)[o] # <<>>
  PROVE  OwnElseAny(p, QueueAfter(p, failed), FailsAfter(p, failed)) # {}
<1> DEFINE q == QueueAfter(p, failed)
           f == FailsAfter(p, failed)
           S == {i \in DOMAIN order : Ready(order[i], q, f)}
<1>1. \A x \in Repos : q[x] # <<>> => queue[x] # <<>>
  BY QueueAfterFacts
<1>2. \A x \in Repos : f[x] < MaxConsecutiveFailures
  <2>1. f \in [Repos -> 0..(MaxConsecutiveFailures - 1)]
    BY FailsAfterType
  <2> HIDE DEF f
  <2> QED
    BY <2>1, LimitsAssumption
<1> HIDE DEF q, f
<1>3. PICK i \in DOMAIN order : order[i] = o
  BY <1>1 DEF OrderCovers, q
<1>4. i \in S
  BY <1>2, <1>3 DEF Ready, q
<1>5. DOMAIN order \subseteq Nat /\ \A j \in DOMAIN order : 1..(j - 1) \subseteq DOMAIN order
  <2>1. DOMAIN order = 1..Len(order) /\ Len(order) \in Nat
    BY DEF RegistryTypeOK
  <2> QED
    BY ONLY <2>1
<1>6. PICK k \in S : \A j \in S : k <= j
  BY <1>4, <1>5, LeastElement
<1>7. k \in DOMAIN order /\ k \in Nat /\ Ready(order[k], q, f)
  BY <1>5, <1>6
<1>8. \A j \in 1..(k - 1) : ~Ready(order[j], q, f)
  <2>1. ASSUME NEW j \in 1..(k - 1), Ready(order[j], q, f) PROVE FALSE
    <3>1. j \in S
      BY <1>5, <1>7, <2>1
    <3> QED
      BY <1>6, <1>7, <3>1
  <2> QED
    BY <2>1
<1>9. order[k] \in AnyQueue(q, f)
  BY <1>7, <1>8 DEF AnyQueue
<1> QED
  BY <1>9 DEF OwnElseAny, q, f

(* So the drain's own critical section hands over to a server.             *)
LEMMA DrainServes ==
  ASSUME IInv, \A x \in Runs : CalmRun(x), OrderCovers, NEW p \in Repos,
         NEW failed \in BOOLEAN, DrainIfAvailable(p, failed)
  PROVE  Served'
<1> DEFINE q == QueueAfter(p, failed)
           f == FailsAfter(p, failed)
           src == OwnElseAny(p, q, f)
<1>0. TypeOK /\ RegistryTypeOK /\ LocalTypeOK
  BY TypeOKSplit DEF IInv
<1>1. /\ q \in [Repos -> Seq(Runs)] /\ \A x \in Repos : q[x] \in {<<>>, queue[x]}
      /\ Drained(p, failed) # {} => q[p] = <<>>
      /\ Drained(p, failed) \subseteq Pending(p)
  BY <1>0, QueueAfterFacts
<1>2. \A x \in src : x \in Repos /\ q[x] # <<>>
  BY <1>0, <1>1, SourceFacts
<1>3. \A o \in Repos : q[o] # <<>> => src # {}
  BY <1>0, DrainFinds
<1>4. /\ PopInto(src, q, "drain", task)
      /\ StageFailedAndDrained({}, Drained(p, failed))
  BY DEF DrainIfAvailable
<1> HIDE DEF q, f, src
<1>5. CASE src = {} /\ queue' = q /\ task' = task
  BY <1>3, <1>5 DEF Served
<1>6. ASSUME NEW o \in src, task' = [task EXCEPT ![Head(q[o])] = Task("drain", "preflight")]
      PROVE  Served'
  <2>1. o \in Repos /\ q[o] # <<>> /\ q[o] = queue[o] /\ queue[o] \in Seq(Runs)
    BY <1>1, <1>2, <1>6
  <2>2. PICK h \in Runs : h = Head(q[o])
    BY <2>1
  <2>3. h \in Pending(o)
    BY <2>1, <2>2, TailOfDistinct DEF Pending
  <2>4. h \notin Drained(p, failed)
    <3>1. ASSUME h \in Drained(p, failed) PROVE FALSE
      <4>1. o = p
        BY <1>1, <2>1, <2>3, <3>1, PendingOnce DEF IInv
      <4> QED
        BY <1>1, <2>1, <3>1, <4>1
    <3> QED
      BY <3>1
  <2>5. status[h] = "Queued"
    BY <2>1, <2>3 DEF CalmRun, IsPending
  <2>6. status'[h] = "Queued" /\ task'[h] = Task("drain", "preflight")
    BY <1>0, <1>4, <1>6, <2>2, <2>4, <2>5 DEF StageFailedAndDrained, LocalTypeOK
  <2>7. Server(h)'
    BY <2>6 DEF Server, Task
  <2> QED
    BY <2>7 DEF Served
<1> QED
  BY <1>4, <1>5, <1>6 DEF PopInto

(* A step that leaves the queues alone.                                    *)
LEMMA CalmKept ==
  ASSUME CalmInv, UNCHANGED <<queue, order>>,
         \A x \in Runs : CalmRun(x)',
         \A x \in Runs : Server(x) => \E y \in Runs : Server(y)'
  PROVE  CalmInv'
BY DEF CalmInv, OrderCovers, Served

(* Such a step of one run.                                                 *)
LEMMA CalmOfOne ==
  ASSUME CalmInv, UNCHANGED <<queue, order>>, NEW r \in Runs,
         \A x \in Runs : x # r => Untouched(x),
         CalmRun(r)',
         Server(r) => \E y \in Runs : Server(y)'
  PROVE  CalmInv'
<1>1. \A x \in Runs : CalmRun(x)'
  BY OneRunIsCalm DEF CalmInv
<1>2. ASSUME NEW x \in Runs, Server(x) PROVE \E y \in Runs : Server(y)'
  BY <1>2, UntouchedIsCalm DEF CalmInv
<1> QED
  BY <1>1, <1>2, CalmKept

(* Queues that only lose runs stay covered by repo_insertion_order.        *)
LEMMA CoversFewer ==
  ASSUME TypeOK', OrderCovers, order' = order, \A p \in Repos : Loses(p, {})
  PROVE  /\ OrderCovers'
         /\ \A p \in Repos : queue'[p] # <<>> => queue[p] # <<>>
         /\ \A x \in Runs : IsPending(x)' => IsPending(x)
<1>1. ASSUME NEW p \in Repos, queue'[p] # <<>> PROVE queue[p] # <<>>
  <2>1. queue'[p] \in Seq(Runs)
    BY DEF TypeOK, RegistryTypeOK
  <2>2. queue'[p][1] \in ToSet(queue'[p])
    BY <1>1, <2>1 DEF ToSet
  <2> QED
    BY <2>2, EmptyQueue DEF Loses, Pending
<1>2. \A x \in Runs : IsPending(x)' => IsPending(x)
  BY DEF Loses, IsPending, Pending
<1> QED
  BY <1>1, <1>2 DEF OrderCovers

(* Somebody holds a locked repository.                                     *)
LEMMA SomebodyHolds ==
  ASSUME IInv, NEW r \in Runs, RepoOf[r] \in locks
  PROVE  \E y \in Runs : Holds(y)
BY DEF IInv, NoLockLeak

(* Why a submission is put into the queue: somebody is at work.            *)
LEMMA QueuedBehindSomebody ==
  ASSUME IInv, NEW r \in Runs, MustQueue(r)
  PROVE  \E y \in Runs : Holds(y)
<1>1. CASE AtCapacity
  <2>1. {y \in Runs : status[y] = "Running"} # {}
    BY <1>1, FS_EmptySet, MaxConcurrentAssumption DEF AtCapacity, CountRunning
  <2> QED
    BY <2>1 DEF Holds
<1> QED
  BY <1>1, SomebodyHolds DEF MustQueue

(* A submission that is queued.                                            *)
LEMMA SubmitIsCalm ==
  ASSUME IInv, CalmInv, NEW r \in Runs, SubmitQueued(r)
  PROVE  CalmInv'
<1> DEFINE p == RepoOf[r]
<1>0. RegistryTypeOK /\ LocalTypeOK /\ p \in Repos
  BY TypeOKSplit, RepoOfAssumption DEF IInv
<1>1. /\ status' = [status EXCEPT ![r] = "Queued"]
      /\ queue' = [queue EXCEPT ![p] = Append(@, r)]
      /\ order' = IF Contains(order, p) THEN order ELSE Append(order, p)
      /\ UNCHANGED <<tmux, task, client, mon, alive>>
      /\ status[r] = "absent" /\ task[r] = NoTask /\ MustQueue(r)
  BY <1>0 DEF SubmitQueued, EnqueueRun, StatusAfter, RegistryTypeOK
<1> HIDE DEF p
<1>2. queue \in [Repos -> Seq(Runs)] /\ order \in Seq(Repos)
  BY <1>0 DEF RegistryTypeOK
<1>3. \A x \in Runs : x # r /\ IsPending(x)' => IsPending(x)
  <2>1. ToSet(Append(queue[p], r)) \subseteq ToSet(queue[p]) \union {r}
    BY <1>0, <1>2 DEF ToSet
  <2>2. \A o \in Repos : ToSet(queue'[o]) \subseteq Pending(o) \union {r}
    BY <1>0, <1>1, <1>2, <2>1 DEF Pending
  <2> QED
    BY <2>2 DEF IsPending, Pending
<1>4. \A x \in Runs : x # r => Untouched(x)
  BY <1>0, <1>1, <1>3 DEF Untouched, RegistryTypeOK
<1>5. CalmRun(r)'
  BY <1>0, <1>1 DEF CalmRun, CalmInv, IInv, AbsentUntouched, RegistryTypeOK, NoTask
<1>6. OrderCovers'
  <2>1. \A i \in DOMAIN order : i \in DOMAIN order' /\ order'[i] = order[i]
    BY <1>0, <1>1, <1>2
  <2>2. \E i \in DOMAIN order' : order'[i] = p
    <3>1. CASE Contains(order, p)
      BY <1>1, <3>1 DEF Contains
    <3>2. CASE ~Contains(order, p)
      <4>1. order' = Append(order, p)
        BY <1>1, <3>2
      <4>2. Len(order) + 1 \in DOMAIN order' /\ order'[Len(order) + 1] = p
        BY <1>0, <1>2, <4>1
      <4> QED
        BY <4>2
    <3> QED
      BY <3>1, <3>2
  <2>3. \A o \in Repos : o # p => queue'[o] = queue[o]
    BY <1>1, <1>2
  <2> QED
    BY <2>1, <2>2, <2>3 DEF CalmInv, OrderCovers
<1>7. \E y \in Runs : Server(y)'
  <2>1. PICK y \in Runs : Holds(y)
    BY <1>1, QueuedBehindSomebody
  <2>2. y # r
    BY <1>1, <2>1 DEF Holds
  <2>3. Server(y)
    BY <2>1 DEF Server
  <2> QED
    BY <1>4, <2>2, <2>3, UntouchedIsCalm DEF CalmInv
<1> QED
  BY <1>4, <1>5, <1>6, <1>7, OneRunIsCalm DEF CalmInv, Served

(* A waiting run taken out of the queue by StopRun or RemoveQueued.        *)
LEMMA DequeueIsCalm ==
  ASSUME IInv, CalmInv, TypeOK', NEW r \in Runs, StopQueued(r) \/ RemoveQueued(r)
  PROVE  CalmInv'
<1>0. TypeOK /\ PendingInv /\ RegistryTypeOK
  BY TypeOKSplit DEF IInv
<1>1. DequeueRun(r) /\ UNCHANGED <<task, client, mon, alive>>
  BY DEF StopQueued, RemoveQueued
<1>2. /\ IsPending(r) /\ StageStatus(r, "Stopped") /\ UNCHANGED <<tmux, order>>
      /\ \A p \in Repos : Loses(p, {r})
  BY <1>0, <1>1, DequeueEffect
<1>3. \A p \in Repos : Loses(p, {})
  BY <1>2 DEF Loses
<1>4. /\ OrderCovers'
      /\ \A p \in Repos : queue'[p] # <<>> => queue[p] # <<>>
      /\ \A x \in Runs : IsPending(x)' => IsPending(x)
  BY <1>2, <1>3, CoversFewer DEF CalmInv
<1>5. \A x \in Runs : x # r => Untouched(x)
  BY <1>0, <1>1, <1>2, <1>4 DEF Untouched, StageStatus, StatusAfter, RegistryTypeOK
<1>6. /\ task[r] = NoTask /\ client[r] = "none" /\ \A s \in Slots : mon[r][s] = "none"
      /\ status[r] = "Queued"
  BY <1>2, PendingServesNobody DEF CalmInv
<1>7. CalmRun(r)'
  <2>1. status'[r] = "Stopped"
    BY <1>2 DEF StageStatus, StatusAfter
  <2>2. ~IsPending(r)'
    BY <1>2 DEF Loses, IsPending, Pending
  <2> QED
    BY <1>1, <1>6, <2>1, <2>2 DEF CalmRun, CalmInv
<1>8. ~Server(r)
  BY <1>6 DEF Server, Holds, NoTask, Draining
<1>9. \A x \in Runs : Server(x) => Server(x)'
  BY <1>5, <1>8, UntouchedIsCalm DEF CalmInv
<1> QED
  BY <1>4, <1>5, <1>7, <1>9, OneRunIsCalm, StillServed DEF CalmInv

(* ClearQueue.                                                             *)
LEMMA ClearIsCalm ==
  ASSUME IInv, CalmInv, TypeOK', NEW P \in SUBSET Repos, Clear(P)
  PROVE  CalmInv'
<1> DEFINE C == UNION {Pending(p) : p \in P}
<1>0. TypeOK /\ PendingInv /\ RegistryTypeOK
  BY TypeOKSplit DEF IInv
<1>1. ClearQueue(P) /\ UNCHANGED <<task, client, mon, alive, tmux, order>>
  BY DEF Clear, ClearQueue
<1>2. \A p \in Repos : Loses(p, C)
  BY <1>0, <1>1, ClearEffect
<1>3. /\ \A x \in C : IsPending(x)
      /\ status' = StatusAfter(C, "Stopped")
  BY <1>1 DEF IsPending, ClearQueue
<1> HIDE DEF C
<1>4. \A p \in Repos : Loses(p, {})
  BY <1>2 DEF Loses
<1>5. /\ OrderCovers'
      /\ \A p \in Repos : queue'[p] # <<>> => queue[p] # <<>>
      /\ \A x \in Runs : IsPending(x)' => IsPending(x)
  BY <1>1, <1>4, CoversFewer DEF CalmInv
<1>6. \A x \in Runs : x \notin C => Untouched(x)
  BY <1>0, <1>1, <1>3, <1>5 DEF Untouched, StatusAfter, RegistryTypeOK
<1>7. ASSUME NEW x \in Runs, x \in C PROVE CalmRun(x)' /\ ~Server(x)
  <2>1. /\ task[x] = NoTask /\ client[x] = "none" /\ \A s \in Slots : mon[x][s] = "none"
        /\ status[x] = "Queued"
    BY <1>3, <1>7, PendingServesNobody DEF CalmInv
  <2>2. status'[x] = "Stopped"
    BY <1>3, <1>7 DEF StatusAfter
  <2>3. ~IsPending(x)'
    BY <1>2, <1>7 DEF Loses, IsPending, Pending
  <2> QED
    BY <1>1, <2>1, <2>2, <2>3 DEF CalmRun, CalmInv, Server, Holds, NoTask, Draining
<1>8. \A x \in Runs : CalmRun(x)' /\ (Server(x) => Server(x)')
  BY <1>6, <1>7, UntouchedIsCalm DEF CalmInv
<1> QED
  BY <1>5, <1>8, StillServed DEF CalmInv

(* What a drain does to the runs, whatever it starts.                      *)
LEMMA DrainKeepsRuns ==
  ASSUME IInv, CalmInv, TypeOK', NEW F \in SUBSET Runs, NEW tk, DrainEffect(F, tk),
         \A x \in F : ~IsPending(x) /\ tk[x] = NoTask,
         \A x \in Runs : x \notin F => tk[x] = task[x],
         UNCHANGED <<tmux, order, alive>>,
         \A x \in Runs : client'[x] \in {client[x], "none"},
         \A x \in Runs : \A s \in Slots : mon'[x][s] \in {mon[x][s], "none"}
  PROVE  /\ \A x \in Runs : CalmRun(x)'
         /\ OrderCovers'
         /\ \A p \in Repos : queue'[p] # <<>> => queue[p] # <<>>
<1>1. PICK D \in SUBSET Runs, H \in SUBSET Runs :
        /\ \A r \in D \union H : IsPending(r)
        /\ StageFailedAndDrained(F, D)
        /\ \A p \in Repos : Loses(p, D \union H)
        /\ \A r \in Runs : \/ task'[r] = tk[r]
                           \/ /\ r \in H
                              /\ task'[r] \in {Task("drain", "preflight"),
                                  Task("retry", "preflight")}
  BY DEF DrainEffect
<1>2. \A p \in Repos : Loses(p, {})
  BY <1>1 DEF Loses
<1>3. /\ OrderCovers'
      /\ \A p \in Repos : queue'[p] # <<>> => queue[p] # <<>>
      /\ \A x \in Runs : IsPending(x)' => IsPending(x)
  BY <1>2, CoversFewer DEF CalmInv
<1>4. \A x \in D \union H : ~IsPending(x)'
  BY <1>1 DEF Loses, IsPending, Pending
<1>5. ASSUME NEW x \in Runs, x \in D \union H PROVE CalmRun(x)'
  <2>1. /\ task[x] = NoTask /\ client[x] = "none" /\ \A s \in Slots : mon[x][s] = "none"
        /\ status[x] = "Queued"
    BY <1>1, <1>5, PendingServesNobody DEF CalmInv
  <2>2. x \notin F
    BY <1>1, <1>5
  <2>3. status'[x] \in {"Stopped", "Queued"}
    BY <1>1, <2>1, <2>2 DEF StageFailedAndDrained
  <2>4. task'[x] \in {NoTask, Task("drain", "preflight"), Task("retry", "preflight")}
    BY <1>1, <2>1, <2>2
  <2>5. CalmRun(x)
    BY DEF CalmInv
  <2>6. client'[x] = "none" /\ \A s \in Slots : mon'[x][s] = "none"
    BY <2>1
  <2> QED
    BY <1>4, <1>5, <2>1, <2>3, <2>4, <2>5, <2>6 DEF CalmRun, NoTask, Task, CalmStage
<1>6. ASSUME NEW x \in Runs, x \in F PROVE CalmRun(x)'
  <2>1. CalmRun(x) /\ ~IsPending(x) /\ x \notin D \union H
    BY <1>1, <1>6 DEF CalmInv
  <2>2. status'[x] = "Failed" /\ task'[x] = NoTask
    BY <1>1, <1>6, <2>1 DEF StageFailedAndDrained
  <2> QED
    BY <1>3, <2>1, <2>2 DEF CalmRun, CalmStage
<1>7. ASSUME NEW x \in Runs, x \notin F \union D \union H PROVE CalmRun(x)'
  <2>1. status'[x] = status[x] /\ task'[x] = task[x]
    BY <1>1, <1>7 DEF StageFailedAndDrained
  <2>2. CalmRun(x)
    BY DEF CalmInv
  <2> QED
    BY <1>3, <2>1, <2>2 DEF CalmRun, CalmStage
<1> QED
  BY <1>3, <1>5, <1>6, <1>7

(* The drain of a handler or of StopRun.                                   *)
LEMMA DrainIsCalm ==
  ASSUME IInv, CalmInv, TypeOK', NEW p \in Repos, NEW failed \in BOOLEAN,
         DrainIfAvailable(p, failed), UNCHANGED alive,
         \A x \in Runs : client'[x] \in {client[x], "none"},
         \A x \in Runs : \A s \in Slots : mon'[x][s] \in {mon[x][s], "none"}
  PROVE  CalmInv'
<1>1. DrainEffect({}, task) /\ UNCHANGED <<tmux, order>>
  BY DrainIfAvailableEffect DEF IInv
<1>2. {} \in SUBSET Runs
  OBVIOUS
<1>3. (\A x \in Runs : CalmRun(x)') /\ OrderCovers'
  BY <1>1, <1>2, DrainKeepsRuns
<1>4. Served'
  BY DrainServes DEF CalmInv
<1> QED
  BY <1>3, <1>4 DEF CalmInv

(* A failed drain task leaves its run to nobody, and its run served        *)
(* nobody.                                                                 *)
LEMMA DrainTaskFailsIsCalm ==
  ASSUME IInv, CalmInv, TypeOK', NEW r \in Runs, DrainTaskFails(r)
  PROVE  CalmInv'
<1> DEFINE tk == [task EXCEPT ![r] = NoTask]
<1>0. TypeOK /\ PendingInv /\ LocalTypeOK /\ RegistryTypeOK
  BY TypeOKSplit DEF IInv
<1>1. DrainEffect({r}, tk) /\ UNCHANGED <<tmux, order, alive, client, mon>>
  BY <1>0, DrainTaskFailsEffect DEF DrainTaskFails
<1>2. tk[r] = NoTask /\ \A x \in Runs : x # r => tk[x] = task[x]
  BY <1>0 DEF LocalTypeOK
<1>3. task[r].pc = "error" /\ task[r] # NoTask
  BY DEF DrainTaskFails, NoTask
<1> HIDE DEF tk
<1>4. ~IsPending(r)
  BY <1>3, PendingServesNobody DEF CalmInv
<1>5. /\ \A x \in Runs : CalmRun(x)'
      /\ OrderCovers'
      /\ \A p \in Repos : queue'[p] # <<>> => queue[p] # <<>>
  BY <1>1, <1>2, <1>4, DrainKeepsRuns
<1>6. PICK D \in SUBSET Runs, H \in SUBSET Runs :
        /\ \A x \in D \union H : IsPending(x)
        /\ StageFailedAndDrained({r}, D)
        /\ \A x \in Runs : task'[x] = tk[x] \/ x \in H
  BY <1>1 DEF DrainEffect
<1>7. ASSUME NEW x \in Runs, Server(x) PROVE Server(x)'
  <2>1. x \notin D \union H
    BY <1>6, <1>7, PendingServesNobody DEF Server, Holds, NoTask, Draining, CalmInv
  <2>2. CASE x = r
    BY <1>1, <1>3, <1>7, <2>2 DEF CalmInv, CalmRun, Server, Holds, Draining
  <2>3. CASE x # r
    BY <1>1, <1>2, <1>6, <1>7, <2>1, <2>3 DEF StageFailedAndDrained, Server, Holds, Draining
  <2> QED
    BY <2>2, <2>3
<1> QED
  BY <1>5, <1>7, StillServed DEF CalmInv

(* A spawn task of a calm daemon.                                          *)
LEMMA SpawnIsCalm ==
  ASSUME Calm, IInv, CalmInv, NEW r \in Runs, SpawnStep(r), ~DrainTaskFails(r)
  PROVE  CalmInv'
<1>0. /\ TypeOK /\ RegistryTypeOK /\ LocalTypeOK /\ CalmRun(r)
      /\ AbsentUntouched /\ DirectUnknown /\ RunningIsWatchable
  BY TypeOKSplit DEF IInv, CalmInv
<1>1. UNCHANGED <<queue, order, client, mon>> /\ task[r] # NoTask
  BY DEF SpawnStep, PreflightFails, Register, RegisterFails, SpawnSession,
         SpawnSessionFails, Dispatch, DispatchFails, registryVars, NoTask
<1>2. \A x \in Runs : x # r => Untouched(x)
  BY <1>0 DEF SpawnStep, PreflightFails, Register, RegisterFails, SpawnSession,
         SpawnSessionFails, Dispatch, DispatchFails, registryVars, NoTask, Untouched,
         RegisterRun, PromoteQueued, TryStageStatus, StageStatus, StatusAfter,
         RegistryTypeOK, LocalTypeOK, IsPending, Pending
<1>3. ~IsPending(r)
  BY <1>1, PendingServesNobody DEF CalmInv
<1>4. ~IsPending(r)'
  BY <1>1, <1>3 DEF IsPending, Pending
<1>5. \A y \in Runs : y # r /\ Holds(y) => Server(y)'
  BY <1>2, UntouchedIsCalm DEF CalmInv, Server
<1>6. "preflight" \notin Faults /\ "register" \notin Faults /\ "spawn" \notin Faults
      /\ "send" \notin Faults /\ "flush" \notin Faults
  BY DEF Calm
<1>7. task[r].kind \in TaskKind /\ task[r].pc \in TaskPC /\ DOMAIN task = Runs
      /\ task[r] \in [kind : TaskKind, pc : TaskPC]
  BY <1>0, <1>1 DEF LocalTypeOK, TaskType
<1>8. CASE Register(r)
  <2>1. status[r] \in {"absent", "Queued"} /\ task[r].pc = "preflight"
    <3>1. CASE task[r].kind = "direct"
      BY <1>0, <1>7, <1>8, <3>1 DEF Register, DirectUnknown, Task
    <3>2. CASE task[r].kind # "direct"
      BY <1>8, <3>2 DEF Register, PromoteQueued, CanPromote
    <3> QED
      BY <1>8, <3>1, <3>2 DEF Register
  <2>2. status'[r] = "Queued" /\ task'[r].pc = "registered"
        /\ (r \in tmux' <=> r \in tmux) /\ (r \in alive' <=> r \in alive)
    BY <1>7, <1>8 DEF Register, RegisterRun, PromoteQueued, CanPromote, StatusAfter
  <2>3. r \notin tmux /\ r \notin alive
    BY <1>0, <2>1 DEF CalmRun, AbsentUntouched
  <2>4. CalmRun(r)' /\ Server(r)'
    BY <1>0, <1>1, <2>2, <2>3 DEF CalmRun, Server, Holds
  <2> QED
    BY <1>1, <1>2, <2>4, CalmOfOne
<1>9. CASE RegisterFails(r)
  <2>1. /\ UNCHANGED <<status, tmux, alive>> /\ task[r].pc = "preflight"
        /\ task'[r] \in {NoTask, Task("drain", "error")}
    BY <1>7, <1>9 DEF RegisterFails, registryVars, AfterError
  <2>2. CalmRun(r)'
    BY <1>0, <1>1, <1>4, <2>1 DEF CalmRun, NoTask, Task
  <2>3. ~Holds(r)
    BY <1>0, <1>1, <2>1 DEF CalmRun, Holds
  <2>4. CASE RepoOf[r] \in locks
    <3>1. PICK y \in Runs : Holds(y)
      BY <2>4, SomebodyHolds
    <3> QED
      BY <1>1, <1>2, <1>5, <2>2, <2>3, <3>1, CalmOfOne
  <2>5. CASE RepoOf[r] \notin locks
    <3>1. task[r].kind # "direct" /\ status[r] # "Queued"
      BY <1>6, <1>9, <2>5 DEF RegisterFails, CanRegister, CanPromote
    <3>2. Server(r) => Server(r)'
      BY <1>1, <2>1, <2>3, <3>1 DEF Server
    <3> QED
      BY <1>1, <1>2, <2>2, <3>2, CalmOfOne
  <2> QED
    BY <2>4, <2>5
<1>10. CASE SpawnSession(r)
  <2>1. /\ UNCHANGED <<status, tmux>> /\ r \in alive' /\ task[r].pc = "registered"
        /\ task'[r].pc = "waiting"
    BY <1>7, <1>10 DEF SpawnSession, registryVars
  <2>2. status[r] # "absent" /\ status[r] # "Running"
    BY <1>0, <1>1, <2>1 DEF AbsentUntouched, CalmRun
  <2>3. CalmRun(r)' /\ (Server(r) => Server(r)')
    BY <1>0, <1>1, <1>4, <2>1, <2>2 DEF CalmRun, Server, Holds
  <2> QED
    BY <1>1, <1>2, <2>3, CalmOfOne
<1>11. CASE SpawnSessionFails(r) \/ DispatchFails(r)
  <2>1. /\ task[r].pc \in {"registered", "waiting"} /\ TryStageStatus(r, "Failed")
        /\ task[r].pc = "registered" <=> r \in alive
        /\ task'[r] \in {NoTask, Task("drain", "error")}
        /\ r \in alive' <=> r \in alive
        /\ UNCHANGED tmux
    BY <1>6, <1>7, <1>11 DEF SpawnSessionFails, DispatchFails, AfterError
  <2>2. status[r] \in Terminal
    BY <1>0, <1>1, <2>1
    DEF AbsentUntouched, CalmRun, RegistryTypeOK, RunStatus
  <2>3. status'[r] \in Terminal
    BY <2>1, <2>2 DEF TryStageStatus, StageStatus, StatusAfter, Terminal
  <2>4. CalmRun(r)' /\ (Server(r) => Server(r)')
    BY <1>0, <1>1, <1>4, <2>1, <2>2, <2>3 DEF CalmRun, Server, Holds, Terminal
  <2> QED
    BY <1>1, <1>2, <2>4, CalmOfOne
<1>12. CASE Dispatch(r)
  <2>1. /\ task[r].pc = "waiting" /\ TryStageStatus(r, "Running") /\ r \in tmux'
        /\ r \in alive /\ UNCHANGED alive
        /\ IF CanStage(r, "Running") THEN task'[r] = NoTask
           ELSE task'[r] \in {NoTask, Task("drain", "error")}
    BY <1>6, <1>7, <1>12 DEF Dispatch, AfterError
  <2>2. status[r] \in {"Queued"} \union Terminal
    BY <1>0, <1>1, <2>1 DEF AbsentUntouched, CalmRun, RegistryTypeOK, RunStatus
  <2>3. CASE status[r] = "Queued"
    <3>1. status'[r] = "Running" /\ task'[r] = NoTask
      BY <2>1, <2>3 DEF TryStageStatus, CanStage, StageStatus, StatusAfter, Terminal
    <3>2. CalmRun(r)' /\ Server(r)'
      BY <1>0, <1>1, <1>4, <2>1, <3>1 DEF CalmRun, Server, Holds
    <3> QED
      BY <1>1, <1>2, <3>2, CalmOfOne
  <2>4. CASE status[r] \in Terminal
    <3>1. status'[r] = status[r]
      BY <2>1, <2>4 DEF TryStageStatus, CanStage, Terminal
    <3>2. CalmRun(r)' /\ (Server(r) => Server(r)')
      BY <1>0, <1>1, <1>4, <2>1, <2>4, <3>1 DEF CalmRun, Server, Holds, Terminal
    <3> QED
      BY <1>1, <1>2, <3>2, CalmOfOne
  <2> QED
    BY <2>2, <2>3, <2>4
<1> QED
  BY <1>6, <1>8, <1>9, <1>10, <1>11, <1>12 DEF SpawnStep, PreflightFails

(* A request other than a drain or a dequeue.                              *)
LEMMA ClientIsCalm ==
  ASSUME Calm, IInv, CalmInv, NEW r \in Runs,
         \/ StopBegin(r) \/ DetachCancel(r) \/ StopCancel(r) \/ StopRead(r)
         \/ StopExit(r) \/ StopMark(r) \/ DetachMark(r) \/ SessionDies(r)
  PROVE  CalmInv'
<1>0. /\ RegistryTypeOK /\ LocalTypeOK /\ CalmRun(r) /\ AbsentUntouched
  BY TypeOKSplit DEF IInv, CalmInv
<1>1. "detach" \notin Requests /\ "session" \notin Faults /\ "flush" \notin Faults
  BY DEF Calm
<1>2. ~DetachCancel(r) /\ ~DetachMark(r) /\ ~SessionDies(r)
  BY <1>0, <1>1 DEF DetachCancel, DetachMark, SessionDies, CalmRun
<1>3. /\ UNCHANGED <<queue, order, tmux, task>>
      /\ \A x \in Runs : IsPending(x)' <=> IsPending(x)
  BY <1>2 DEF StopBegin, StopCancel, StopRead, StopExit, StopMark, registryVars,
         IsPending, Pending
<1>4. CASE StopCancel(r)
  <2>1. UNCHANGED <<status, alive>> /\ CancelMonitor(r)
        /\ client' = [client EXCEPT ![r] = "read"] /\ client[r] = "cancel"
    BY <1>4 DEF StopCancel, registryVars
  <2>2. \A x \in Runs, s \in Slots : mon'[x][s] =
          IF x = r /\ s = handle[r] /\ mon[x][s] = "watch" THEN "cancelled" ELSE mon[x][s]
    BY <1>0, <2>1, CancelFacts
  <2>3. \A x \in Runs : x # r => mon'[x] = mon[x]
    BY <1>0, <2>1 DEF CancelMonitor, LocalTypeOK
  <2>4. \A x \in Runs : x # r => Untouched(x)
    BY <1>0, <1>3, <2>1, <2>3 DEF Untouched, LocalTypeOK
  <2>5. client'[r] = "read"
    BY <1>0, <2>1 DEF LocalTypeOK
  <2>6. CalmRun(r)' /\ (Server(r) => Server(r)')
    BY <1>0, <1>3, <2>1, <2>2, <2>5 DEF CalmRun, CalmStage, Server, Holds, Draining
  <2> QED
    BY <1>3, <2>4, <2>6, CalmOfOne
<1>5. CASE ~StopCancel(r)
  <2>1. UNCHANGED mon /\ \A x \in Runs : x # r => Untouched(x)
    BY <1>0, <1>2, <1>3, <1>5
    DEF StopBegin, StopRead, StopExit, StopMark, registryVars, Untouched,
        StageStatus, StatusAfter, RegistryTypeOK, LocalTypeOK
  <2>2. CASE StopMark(r)
    <3>1. status'[r] = "Stopped" /\ client'[r] = "drain" /\ client[r] = "mark"
      BY <1>0, <1>1, <2>2 DEF StopMark, StageStatus, StatusAfter, LocalTypeOK
    <3>2. ~IsPending(r)
      BY <3>1, PendingServesNobody DEF CalmInv
    <3>3. CalmRun(r)' /\ Server(r)'
      BY <1>0, <1>3, <2>1, <3>1, <3>2 DEF CalmRun, Server
    <3> QED
      BY <1>3, <2>1, <3>3, CalmOfOne
  <2>3. CASE StopBegin(r) \/ StopRead(r)
    <3>1. UNCHANGED <<status, alive>> /\ client[r] \in {"none", "read"}
      BY <2>3 DEF StopBegin, StopRead, CanBegin, registryVars
    <3>2. client'[r] \in {"none", "cancel", "mark"} \/ (client'[r] = "exit" /\ r \in tmux)
      <4>1. r \in DOMAIN client
        BY <1>0 DEF LocalTypeOK
      <4>2. CASE StopBegin(r)
        BY <4>1, <4>2 DEF StopBegin
      <4>3. CASE StopRead(r)
        BY <4>1, <4>3 DEF StopRead
      <4> QED
        BY <2>3, <4>2, <4>3
    <3>3. CalmRun(r)' /\ (Server(r) => Server(r)')
      BY <1>0, <1>3, <2>1, <3>1, <3>2 DEF CalmRun, Server, Holds, Draining
    <3> QED
      BY <1>3, <2>1, <3>3, CalmOfOne
  <2>4. CASE StopExit(r)
    <3>1. UNCHANGED status /\ client[r] = "exit" /\ client'[r] = "mark"
      BY <1>0, <2>4 DEF StopExit, registryVars, LocalTypeOK
    <3>2. status[r] \notin {"absent", "Queued"}
      BY <1>0, <3>1 DEF CalmRun, AbsentUntouched
    <3>3. CalmRun(r)' /\ (Server(r) => Server(r)')
      BY <1>0, <1>3, <2>1, <3>1, <3>2 DEF CalmRun, Server, Holds, Draining
    <3> QED
      BY <1>3, <2>1, <3>3, CalmOfOne
  <2> QED
    BY <1>2, <1>5, <2>2, <2>3, <2>4
<1> QED
  BY <1>4, <1>5

(* A monitor and the handling of its outcome, up to the drain.             *)
LEMMA HandlerIsCalm ==
  ASSUME Calm, IInv, CalmInv, NEW r \in Runs, NEW s \in Slots,
         HandlerStep(r, s) \/ \E o \in Outcomes : MonitorReport(r, s, o),
         ~HandlerDrain(r, s)
  PROVE  CalmInv'
<1>0. /\ RegistryTypeOK /\ LocalTypeOK /\ CalmRun(r) /\ AbsentUntouched
      /\ RunningIsWatchable
  BY TypeOKSplit DEF IInv, CalmInv
<1>1. mon[r][s] \in CalmStage
  BY <1>0 DEF CalmRun
<1>2. \/ HandleCompleted(r, s) \/ Reap(r, s)
      \/ HandleFailed(r, s) /\ mon[r][s] = "failed"
      \/ MonitorCancelled(r, s)
      \/ MonitorReport(r, s, "completed") \/ MonitorReport(r, s, "failed")
  BY <1>1 DEF HandlerStep, CalmStage, HandleFailed, HandleCrashed, HandleNetwork,
       NetworkTimeout, RecoveryGate, RecoveryEnds, RecoverySpawn, RecoveryDispatch,
       RecoveryDispatchFails, Calm
<1>3. UNCHANGED <<queue, order, tmux, task, client>> /\ mon[r][s] # "none"
  BY <1>2 DEF HandleCompleted, Reap, HandleFailed, MonitorCancelled, MonitorReport,
       Watching, registryVars
<1>4. /\ r \in tmux /\ status[r] \notin {"absent", "Queued"} /\ ~IsPending(r)
      /\ \A x \in Runs : IsPending(x)' <=> IsPending(x)
  BY <1>0, <1>3, PendingServesNobody
  DEF CalmRun, CalmInv, AbsentUntouched, RunningIsWatchable, IsPending, Pending
<1>5. PICK to \in {"none", "reap", "drain_ok", "drain_fail", "completed", "failed"} :
        /\ Stage(r, s, to)
        /\ to \in {"none", "completed", "failed"} =>
             mon[r][s] \notin Draining /\ UNCHANGED status
  BY <1>2 DEF HandleCompleted, Reap, HandleFailed, MonitorCancelled, MonitorReport,
       Watching, registryVars, Draining
<1>6. \A x \in Runs, y \in Slots : mon'[x][y] = IF x = r /\ y = s THEN to ELSE mon[x][y]
  BY <1>0, <1>5, StageFacts
<1>7. \A x \in Runs : x # r => mon'[x] = mon[x]
  BY <1>0, <1>5 DEF Stage, LocalTypeOK
<1>8. \A x \in Runs : x # r =>
        status'[x] = status[x] /\ (x \in alive' <=> x \in alive)
  BY <1>0, <1>2 DEF HandleCompleted, Reap, HandleFailed, MonitorCancelled,
       MonitorReport, registryVars, StageStatus, StatusAfter, RegistryTypeOK
<1>9. status'[r] \in {status[r]} \union Terminal
  BY <1>0, <1>2 DEF HandleCompleted, Reap, HandleFailed, MonitorCancelled,
       MonitorReport, registryVars, StageStatus, StatusAfter, RegistryTypeOK, Terminal
<1>10. \A x \in Runs : x # r => Untouched(x)
  BY <1>3, <1>4, <1>7, <1>8 DEF Untouched
<1>11. CalmRun(r)'
  BY <1>0, <1>3, <1>4, <1>6, <1>9 DEF CalmRun, CalmStage, Terminal
<1>12. Server(r) => Server(r)'
  <2>1. CASE to \in {"reap", "drain_ok", "drain_fail"}
    BY <1>6, <2>1 DEF Server, Draining
  <2>2. CASE to \in {"none", "completed", "failed"}
    BY <1>3, <1>5, <1>6, <2>2 DEF Server, Holds, Draining
  <2> QED
    BY <2>1, <2>2
<1> QED
  BY <1>3, <1>10, <1>11, <1>12, CalmOfOne

(* The heartbeat tick, whose own verdict a calm daemon does not know.      *)
LEMMA TickIsCalm ==
  ASSUME Calm, IInv, CalmInv, Tick
  PROVE  CalmInv'
<1>0. TypeOK /\ LocalTypeOK
  BY TypeOKSplit DEF IInv
<1>1. UNCHANGED <<status, queue, order, tmux, task, client, alive>>
  BY DEF Tick, TickSnapshot, TickMonitors, TickCapture, TickEnd, registryVars, Calm
<1>2. ASSUME NEW x \in Runs, NEW s \in Slots
      PROVE  /\ mon'[x][s] \in {mon[x][s], "watch", "cancelled"}
             /\ mon[x][s] \in Draining => mon'[x][s] = mon[x][s]
  <2>1. CASE TickMonitors
    BY <1>0, <2>1, TickMonitorsFacts DEF Draining
  <2>2. CASE ~TickMonitors
    BY <2>2 DEF Tick, TickSnapshot, TickCapture, TickEnd
  <2> QED
    BY <2>1, <2>2
<1>3. \A x \in Runs : IsPending(x)' <=> IsPending(x)
  BY <1>1 DEF IsPending, Pending
<1>4. ASSUME NEW x \in Runs PROVE CalmRun(x)' /\ (Server(x) => Server(x)')
  <2>1. CalmRun(x)
    BY DEF CalmInv
  <2>2. CalmRun(x)'
    BY <1>1, <1>2, <1>3, <2>1 DEF CalmRun, CalmStage
  <2>3. Server(x) => Server(x)'
    BY <1>1, <1>2 DEF Server, Holds
  <2> QED
    BY <2>2, <2>3
<1> QED
  BY <1>1, <1>4, CalmKept

(* Every step of a calm daemon.                                            *)
LEMMA CalmStep ==
  ASSUME Calm, IInv, IInv', CalmInv, Next
  PROVE  CalmInv'
<1>0. TypeOK' /\ LocalTypeOK /\ RegistryTypeOK /\ \A r \in Runs : RepoOf[r] \in Repos
  BY TypeOKSplit, RepoOfAssumption DEF IInv
<1>1. ASSUME NEW r \in Runs, SubmitDirect(r) PROVE CalmInv'
  <2>1. /\ UNCHANGED <<status, tmux, queue, order, client, mon, alive>>
        /\ status[r] = "absent" /\ task[r] = NoTask
        /\ task' = [task EXCEPT ![r] = Task("direct", "preflight")]
        /\ \A x \in Runs : IsPending(x)' <=> IsPending(x)
    BY <1>1 DEF SubmitDirect, registryVars, IsPending, Pending
  <2>2. task'[r] = Task("direct", "preflight") /\ \A x \in Runs : x # r => Untouched(x)
    BY <1>0, <2>1 DEF Untouched, LocalTypeOK
  <2>3. CalmRun(r)' /\ Server(r)'
    BY <2>1, <2>2 DEF CalmInv, CalmRun, Server, Task, NoTask
  <2> QED
    BY <2>1, <2>2, <2>3, CalmOfOne
<1>2. ASSUME NEW r \in Runs, StopDrain(r) PROVE CalmInv'
  <2>1. /\ DrainIfAvailable(RepoOf[r], FALSE) /\ UNCHANGED <<alive, mon>>
        /\ \A x \in Runs : client'[x] \in {client[x], "none"}
    BY <1>0, <1>2 DEF StopDrain, LocalTypeOK
  <2> QED
    BY <1>0, <2>1, DrainIsCalm
<1>3. ASSUME NEW r \in Runs, NEW s \in Slots, HandlerDrain(r, s) PROVE CalmInv'
  <2>1. /\ DrainIfAvailable(RepoOf[r], mon[r][s] = "drain_fail")
        /\ UNCHANGED <<alive, client>> /\ Stage(r, s, "none")
    BY <1>3 DEF HandlerDrain
  <2>2. \A x \in Runs : \A y \in Slots : mon'[x][y] \in {mon[x][y], "none"}
    BY <1>0, <2>1, StageFacts
  <2>3. (mon[r][s] = "drain_fail") \in BOOLEAN
    OBVIOUS
  <2>4. \A x \in Runs : client'[x] \in {client[x], "none"}
    BY <2>1
  <2> QED
    BY <1>0, <2>1, <2>2, <2>3, <2>4, DrainIsCalm
<1>4. \A P \in {Repos} \union {{p} : p \in Repos} : P \in SUBSET Repos
  OBVIOUS
<1>5. ASSUME NEW r \in Runs, Submit(r) \/ SpawnStep(r) PROVE CalmInv'
  BY <1>0, <1>1, <1>5, SubmitIsCalm, SpawnIsCalm, DrainTaskFailsIsCalm DEF Submit
<1>6. ASSUME NEW r \in Runs, ClientRequest(r) \/ ClientStep(r) \/ SessionDies(r)
      PROVE  CalmInv'
  BY <1>0, <1>2, <1>6, DequeueIsCalm, ClientIsCalm DEF ClientRequest, ClientStep
<1>7. ASSUME NEW r \in Runs, NEW s \in Slots,
             HandlerStep(r, s) \/ \E o \in Outcomes : MonitorReport(r, s, o)
      PROVE  CalmInv'
  BY <1>3, <1>7, HandlerIsCalm
<1> QED
  BY <1>0, <1>4, <1>5, <1>6, <1>7, ClearIsCalm, TickIsCalm DEF Next

(* It is calm at the start.                                                *)
LEMMA InitCalm == Init => CalmInv
<1> SUFFICES ASSUME Init PROVE CalmInv
  OBVIOUS
<1>1. \A x \in Runs : ~IsPending(x)
  BY EmptyQueue DEF Init, InitRegistry, IsPending, Pending
<1> QED
  BY <1>1 DEF Init, InitRegistry, CalmInv, CalmRun, CalmStage, NoTask, OrderCovers, Served

(* While runs wait, somebody is left whose end drains the queue, in a      *)
(* daemon without detached runs, failing spawns and flushes, panicking     *)
(* monitors, crashes and network outages: each of these ends a run without *)
(* a drain of the queues.                                                  *)
THEOREM QueueIsServed == Calm /\ Spec => []QueueServed
<1> SUFFICES ASSUME Calm PROVE Spec => []QueueServed
  OBVIOUS
<1>1. IInv /\ IInv' /\ CalmInv /\ [Next]_vars => CalmInv'
  <2> SUFFICES ASSUME IInv, IInv', CalmInv, [Next]_vars PROVE CalmInv'
    OBVIOUS
  <2>1. CASE UNCHANGED vars
    BY <2>1 DEF vars, CalmInv, CalmRun, IsPending, Pending, OrderCovers, Served, Server,
         Holds
  <2> QED
    BY <2>1, CalmStep
<1>2. CalmInv => QueueServed
  BY DEF CalmInv, Served, Server, QueueServed, WillDrain, NoTask, Draining
<1> QED
  BY <1>1, <1>2, InitCalm, Invariance, PTL DEF Spec
============================================================================

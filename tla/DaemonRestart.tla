--------------------------- MODULE DaemonRestart ---------------------------
(***************************************************************************)
(* Crash and restart of the daemon: what meta.json and queue.json hold     *)
(* when it dies, and what load_from_disk, restore_queue and the reconciler *)
(* (src/src/daemon/reconciler.rs) make of it while the tmux sessions of    *)
(* the runs live on.                                                       *)
(*                                                                         *)
(* While the daemon is up, this module keeps of RunLifecycle what decides  *)
(* the order of the writes: a status change in memory, the file it         *)
(* reaches, and the mutex or the lack of one between the two.  A write     *)
(* under the mutex (update_status, register_run, promote_queued) is part   *)
(* of its action; a staged one is carried by its actor and is an action of *)
(* its own, so that a later write may overtake it.  flush_queue is two     *)
(* steps, fetch_max on the tracker and the rename, with every other actor  *)
(* in between.                                                             *)
(*                                                                         *)
(* One write of a meta.json is one step: what overlapping writers do to    *)
(* its temporary file, and I/O errors, are the subject of MetaFlush and    *)
(* QueueFlush.  StopRun and DetachRun are those of Running runs, a monitor *)
(* completes a run or recovers it, and a run drained after a failed spawn  *)
(* is drained like any other: the other outcomes are in RunLifecycle.      *)
(***************************************************************************)
EXTENDS RunRegistry

CONSTANTS
    Phased,         \* the runs that change phase while they are watched
    MaxCrashes      \* crashes explored (model bound)

ASSUME PhasedAssumption == Phased \subseteq Runs
ASSUME MaxCrashesAssumption == MaxCrashes \in Nat
ASSUME ReposAssumption == IsFiniteSet(Repos)

VARIABLES
    restartable,  \* the runs whose entry has restartable = true
    task,         \* the task that spawns a run, from its pop on
    ender,        \* stop_run or the monitor's outcome handler of a run
    submit,       \* the SubmitRun handler that queues a run
    client,       \* the RemoveQueued or DetachRun handler of a run
    staged,       \* StagedStatus: meta.json writes an actor has yet to do
    snaps,        \* QueueSnapshots not yet flushed nor overtaken, by epoch
    tracked,      \* the file of the epoch in flushed_tracker
    renames,      \* queue.json files past fetch_max whose rename is to come
    boot,         \* progress of the start-up; "up" once the server runs
    crashes,      \* crashes so far
    meta,         \* disk: meta.json of each run
    queueFile,    \* disk: queue.json
    alive,        \* external: the runs whose tmux session exists
    raced,        \* history: queue.json may not be the file of the tracker
    strays,       \* history: the runs such a file misplaced at a crash
    overtaken     \* history: the runs whose last meta.json write came late

actorVars == <<task, ender, submit, client>>
queueVars == <<snaps, tracked, renames, queueFile, raced>>
memoryVars == <<registryVars, restartable, actorVars, staged>>
metaVars == <<meta, overtaken>>
vars == <<memoryVars, queueVars, metaVars, strays, boot, crashes, alive>>

----------------------------------------------------------------------------
NoEntry == [status |-> "absent", tmux |-> FALSE, restartable |-> FALSE]

Entry == [status : RunStatus \union {"absent"}, tmux : BOOLEAN,
          restartable : BOOLEAN]

Actor == {"task", "end", "submit", "client", "heartbeat"} \X Runs

TaskPC == {"none", "popped", "preflight", "registered", "waiting",
           "dispatched", "flush"}

EnderPC == {"none", "mark", "reap", "drain", "flush"}

SubmitPC == {"none", "enq_queue", "enq_meta"}

ClientPC == {"none", "dequeue", "detach"}

BootPC == {"up", "down", "sessions", "stale", "pending"}

Boot(pc, live, todo) == [pc |-> pc, live |-> live, todo |-> todo, drop |-> {}]

Up == boot.pc = "up"

(* The RunEntry of r after the step, as write_meta puts it on disk.        *)
EntryAfter(r) == [status |-> status'[r], tmux |-> r \in tmux',
                  restartable |-> r \in restartable']

(* update_status and the other writes under the mutex.                     *)
WriteMeta(r) ==
    /\ meta' = [meta EXCEPT ![r] = EntryAfter(r)]
    /\ overtaken' = overtaken \ {r}

(* The entry e of r reaches the disk when memory may already say something *)
(* else of r: flush_status does not look at the epoch.                     *)
WriteLate(r, e) ==
    /\ meta' = [meta EXCEPT ![r] = e]
    /\ overtaken' = IF e = [status |-> status[r], tmux |-> r \in tmux,
                            restartable |-> r \in restartable]
                    THEN overtaken \ {r} ELSE overtaken \union {r}

QueueWire(q, f) == [queues |-> q, failures |-> f]

Wire == [queues : [Repos -> Seq(Runs)],
         failures : [Repos -> 0..(MaxConsecutiveFailures - 1)]]

(* stage_queue_locked: a snapshot with the next epoch.                     *)
StageQueue(a) ==
    snaps' = Append(snaps, [by |-> a, file |-> QueueWire(queue', fails')])

Mine(a) == {i \in DOMAIN snaps : snaps[i].by = a}

(* flush_queue up to fetch_max: the older snapshots are stale from now on. *)
AdvanceQueue(a) ==
    \E i \in Mine(a) :
        /\ tracked' = snaps[i].file
        /\ renames' = renames \union {snaps[i]}
        /\ snaps' = SubSeq(snaps, i + 1, Len(snaps))
        /\ raced' = (raced \/ renames # {})
        /\ UNCHANGED queueFile

(* ... and its return: after the rename, whatever else has been renamed in *)
(* the meantime, or at once when the snapshot was stale.                   *)
ReturnFromFlush(a) ==
    /\ Mine(a) = {}
    /\ \/ \E m \in renames :
            /\ m.by = a
            /\ queueFile' = m.file
            /\ renames' = renames \ {m}
            /\ raced' = (raced /\ ~(renames' = {} /\ queueFile' = tracked))
       \/ /\ \A m \in renames : m.by # a
          /\ raced' = (raced \/ renames # {})
          /\ UNCHANGED <<renames, queueFile>>
    /\ UNCHANGED <<snaps, tracked>>

(* One flush_status of an actor's batch.                                   *)
FlushStatus(a) ==
    \E w \in staged[a] :
        /\ WriteLate(w.run, w.entry)
        /\ staged' = [staged EXCEPT ![a] = @ \ {w}]

(* remove_pending: its retain finds one entry at most (NotQueuedTwice).    *)
RemovePending(r) ==
    \E p \in Repos : \E i \in DOMAIN queue[p] :
        /\ queue[p][i] = r
        /\ queue' = [queue EXCEPT ![p] = RemoveAt(@, i)]

SetTask(r, pc) ==
    task' = [task EXCEPT ![r] = pc] /\ UNCHANGED <<ender, submit, client>>

SetEnder(r, pc) ==
    ender' = [ender EXCEPT ![r] = pc] /\ UNCHANGED <<task, submit, client>>

SetSubmit(r, pc) ==
    submit' = [submit EXCEPT ![r] = pc] /\ UNCHANGED <<task, ender, client>>

SetClient(r, pc) ==
    client' = [client EXCEPT ![r] = pc] /\ UNCHANGED <<task, ender, submit>>

Idle == [r \in Runs |-> "none"]

EmptyWire == QueueWire([p \in Repos |-> <<>>], [p \in Repos |-> 0])

InitMemory ==
    /\ InitRegistry
    /\ restartable = {}
    /\ task = Idle /\ ender = Idle /\ submit = Idle /\ client = Idle
    /\ staged = [a \in Actor |-> {}]
    /\ snaps = <<>> /\ renames = {}

Init ==
    /\ InitMemory
    /\ boot = Boot("up", {}, {})
    /\ crashes = 0
    /\ meta = [r \in Runs |-> NoEntry]
    /\ queueFile = EmptyWire /\ tracked = EmptyWire
    /\ alive = {}
    /\ raced = FALSE /\ strays = {} /\ overtaken = {}

----------------------------------------------------------------------------
(* SubmitRun.  generate_id never repeats an id, and max_concurrent_runs is *)
(* 0 here: a submission is queued exactly when its repository is locked.   *)

(* Every queue.json there is, or may yet be.                               *)
Files == {queueFile, tracked} \union {m.file : m \in renames}
            \union {snaps[i].file : i \in DOMAIN snaps}

Fresh(r) ==
    /\ Up
    /\ status[r] = "absent" /\ meta[r] = NoEntry /\ ~IsPending(r)
    /\ \A f \in Files : r \notin Range(f.queues[RepoOf[r]])
    /\ task[r] = "none" /\ submit[r] = "none"
    /\ r \notin strays

SubmitDirect(r) ==
    /\ Fresh(r)
    /\ RegisterRun(r)
    /\ restartable' = restartable \union {r}
    /\ UNCHANGED <<tmux, queue, order, fails>>
    /\ WriteMeta(r)
    /\ SetTask(r, "registered")
    /\ UNCHANGED <<staged, queueVars, strays, boot, crashes, alive>>

(* Mutant: queue.json is left to the next snapshot.                        *)
SubmitQueued_NoFlush(r) ==
    /\ Fresh(r)
    /\ RepoOf[r] \in locks
    /\ EnqueueRun(r)
    /\ SetSubmit(r, "enq_meta")
    /\ UNCHANGED <<restartable, staged, queueVars, metaVars, strays, boot,
                   crashes, alive>>

SubmitQueued(r) ==
    /\ Fresh(r)
    /\ RepoOf[r] \in locks
    /\ EnqueueRun(r)
    /\ StageQueue(<<"submit", r>>)
    /\ SetSubmit(r, "enq_queue")
    /\ UNCHANGED <<restartable, staged, tracked, renames, queueFile, raced,
                   metaVars, strays, boot, crashes, alive>>

EnqueueFlush(r) ==
    /\ submit[r] = "enq_queue"
    /\ ReturnFromFlush(<<"submit", r>>)
    /\ SetSubmit(r, "enq_meta")
    /\ UNCHANGED <<registryVars, restartable, staged, metaVars, strays, boot,
                   crashes, alive>>

(* write_meta_staged of the entry as it was staged, then the answer.       *)
EnqueueMeta(r) ==
    /\ submit[r] = "enq_meta"
    /\ WriteLate(r, [NoEntry EXCEPT !.status = "Queued"])
    /\ SetSubmit(r, "none")
    /\ UNCHANGED <<registryVars, restartable, staged, queueVars, strays, boot,
                   crashes, alive>>

----------------------------------------------------------------------------
(* StopRun of a pending run and RemoveQueued: meta.json, then queue.json.  *)
(* A pending run without an entry, which only queue.json remembers, is     *)
(* removed as well; its status cannot be staged.                           *)

RemoveQueued(r) ==
    /\ Up
    /\ client[r] = "none"
    /\ RemovePending(r)
    /\ TryStageStatus(r, "Stopped")
    /\ UNCHANGED <<tmux, order, fails, restartable>>
    /\ staged' = [staged EXCEPT ![<<"client", r>>] =
                    IF CanStage(r, "Stopped")
                    THEN {[run |-> r, entry |-> EntryAfter(r)]} ELSE {}]
    /\ StageQueue(<<"client", r>>)
    /\ SetClient(r, "dequeue")
    /\ UNCHANGED <<tracked, renames, queueFile, raced, metaVars, strays, boot,
                   crashes, alive>>

RemoveFlushStatus(r) ==
    /\ client[r] = "dequeue"
    /\ FlushStatus(<<"client", r>>)
    /\ UNCHANGED <<registryVars, restartable, actorVars, queueVars, strays,
                   boot, crashes, alive>>

(* The answer to the client.                                               *)
RemoveEnds(r) ==
    /\ client[r] = "dequeue"
    /\ staged[<<"client", r>>] = {}
    /\ ReturnFromFlush(<<"client", r>>)
    /\ SetClient(r, "none")
    /\ UNCHANGED <<registryVars, restartable, staged, metaVars, strays, boot,
                   crashes, alive>>

(* DetachRun of a Running run: the session is left alone, and so is a      *)
(* write of the run that another actor has staged.                         *)
Detach(r) ==
    /\ Up
    /\ client[r] = "none"
    /\ status[r] = "Running"
    /\ StageStatus(r, "Stopped")
    /\ UNCHANGED <<tmux, queue, order, fails, restartable>>
    /\ staged' = [staged EXCEPT ![<<"client", r>>] =
                    {[run |-> r, entry |-> EntryAfter(r)]}]
    /\ SetClient(r, "detach")
    /\ UNCHANGED <<queueVars, metaVars, strays, boot, crashes, alive>>

DetachFlush(r) ==
    /\ client[r] = "detach"
    /\ FlushStatus(<<"client", r>>)
    /\ SetClient(r, "none")
    /\ UNCHANGED <<registryVars, restartable, queueVars, strays, boot, crashes,
                   alive>>

----------------------------------------------------------------------------
(* spawn_queued_run and spawn_after_register.                              *)

Promote(r) ==
    /\ task[r] = "preflight"
    /\ PromoteQueued(r)
    /\ restartable' = restartable \union {r}
    /\ UNCHANGED <<tmux, queue, order, fails>>
    /\ WriteMeta(r)
    /\ SetTask(r, "registered")
    /\ UNCHANGED <<staged, queueVars, strays, boot, crashes, alive>>

SpawnSession(r) ==
    /\ task[r] = "registered"
    /\ alive' = alive \union {r}
    /\ SetTask(r, "waiting")
    /\ UNCHANGED <<registryVars, restartable, staged, queueVars, metaVars,
                   strays, boot, crashes>>

(* The arc command is sent; the entry flips to Running in memory.          *)
Dispatch(r) ==
    /\ task[r] = "waiting"
    /\ r \in alive
    /\ tmux' = tmux \union {r}
    /\ CanStage(r, "Running") /\ StageStatus(r, "Running")
    /\ UNCHANGED <<queue, order, fails, restartable>>
    /\ staged' = [staged EXCEPT ![<<"task", r>>] =
                    {[run |-> r, entry |-> EntryAfter(r)]}]
    /\ SetTask(r, "dispatched")
    /\ UNCHANGED <<queueVars, metaVars, strays, boot, crashes, alive>>

DispatchFlush(r) ==
    /\ task[r] = "dispatched"
    /\ FlushStatus(<<"task", r>>)
    /\ SetTask(r, "none")
    /\ UNCHANGED <<registryVars, restartable, queueVars, strays, boot, crashes,
                   alive>>

----------------------------------------------------------------------------
(* The heartbeat, which looks at one Running run after the other.          *)

HeartbeatIdle == \A r \in Runs : staged[<<"heartbeat", r>>] = {}

(* update_phase_from_pane notes a new phase: the status is staged as it    *)
(* is.  The pane was captured before; its session may have died since.     *)
HeartbeatStage(r) ==
    /\ Up /\ r \in Phased
    /\ status[r] = "Running" /\ r \in tmux
    /\ HeartbeatIdle
    /\ StageStatus(r, "Running")
    /\ UNCHANGED <<tmux, queue, order, fails, restartable>>
    /\ staged' = [staged EXCEPT ![<<"heartbeat", r>>] =
                    {[run |-> r, entry |-> EntryAfter(r)]}]
    /\ UNCHANGED <<actorVars, queueVars, metaVars, strays, boot, crashes,
                   alive>>

HeartbeatFlush(r) ==
    /\ FlushStatus(<<"heartbeat", r>>)
    /\ UNCHANGED <<registryVars, restartable, actorVars, queueVars, strays,
                   boot, crashes, alive>>

(* The checkpoint says complete: neither the session nor the queue is      *)
(* touched.                                                                *)
HeartbeatComplete(r) ==
    /\ Up
    /\ status[r] = "Running" /\ r \in tmux
    /\ HeartbeatIdle
    /\ StageStatus(r, "Succeeded")
    /\ UNCHANGED <<tmux, queue, order, fails, restartable>>
    /\ WriteMeta(r)
    /\ UNCHANGED <<actorVars, staged, queueVars, strays, boot, crashes, alive>>

(* A dead session is recovered by the run's monitor.                       *)
Recover(r) ==
    /\ Up
    /\ ender[r] = "none"
    /\ status[r] = "Running" /\ r \in tmux \ alive
    /\ alive' = alive \union {r}
    /\ UNCHANGED <<memoryVars, queueVars, metaVars, strays, boot, crashes>>

----------------------------------------------------------------------------
(* A Running run ends: handle_monitor_outcome on a completed run, and      *)
(* stop_run, which kills first.  Both write under the mutex and then drain *)
(* the queue.                                                              *)

Complete(r) ==
    /\ Up
    /\ ender[r] = "none" /\ r \in alive
    /\ status[r] = "Running"
    /\ StageStatus(r, "Succeeded")
    /\ UNCHANGED <<tmux, queue, order, fails, restartable>>
    /\ WriteMeta(r)
    /\ SetEnder(r, "reap")
    /\ UNCHANGED <<staged, queueVars, strays, boot, crashes, alive>>

Reap(r) ==
    /\ ender[r] = "reap"
    /\ alive' = alive \ {r}
    /\ SetEnder(r, "drain")
    /\ UNCHANGED <<registryVars, restartable, staged, queueVars, metaVars,
                   strays, boot, crashes>>

StopKill(r) ==
    /\ Up
    /\ ender[r] = "none"
    /\ status[r] = "Running"
    /\ alive' = alive \ {r}
    /\ SetEnder(r, "mark")
    /\ UNCHANGED <<registryVars, restartable, staged, queueVars, metaVars,
                   strays, boot, crashes>>

(* Mutant: the status is staged, and nobody flushes it.                    *)
StopMark_NotWritten(r) ==
    /\ ender[r] = "mark"
    /\ StageStatus(r, "Stopped")
    /\ UNCHANGED <<tmux, queue, order, fails, restartable>>
    /\ SetEnder(r, "drain")
    /\ UNCHANGED <<staged, queueVars, metaVars, strays, boot, crashes, alive>>

StopMark(r) ==
    /\ ender[r] = "mark"
    /\ StageStatus(r, "Stopped")
    /\ UNCHANGED <<tmux, queue, order, fails, restartable>>
    /\ WriteMeta(r)
    /\ SetEnder(r, "drain")
    /\ UNCHANGED <<staged, queueVars, strays, boot, crashes, alive>>

----------------------------------------------------------------------------
(* drain_if_available after the end of r, and the error branch of a drain  *)
(* task.  F is marked Failed in the same critical section as the breaker's *)
(* victims; the batch of meta.json writes, then queue.json, then the task  *)
(* of the popped run.                                                      *)

(* The actor that flushes is named after the popped run, whose task it     *)
(* starts next, or after the one that drains when nothing was popped.      *)
Flusher(a, next) == IF next = {} THEN a ELSE <<"task", CHOOSE x \in next : TRUE>>

(* Mutant: the popped run's task does not wait for queue.json.             *)
AfterPop_SpawnsFirst(a, next) ==
    /\ task' = [x \in Runs |->
                  IF x \in next THEN "preflight"
                  ELSE IF a = <<"task", x>>
                       THEN IF next = {} THEN "flush" ELSE "none" ELSE task[x]]
    /\ ender' = [x \in Runs |->
                  IF a = <<"end", x>>
                  THEN IF next = {} THEN "flush" ELSE "none" ELSE ender[x]]

AfterPop(a, next) ==
    /\ task' = [x \in Runs |->
                  IF x \in next THEN "popped"
                  ELSE IF a = <<"task", x>>
                       THEN IF next = {} THEN "flush" ELSE "none" ELSE task[x]]
    /\ ender' = [x \in Runs |->
                  IF a = <<"end", x>>
                  THEN IF next = {} THEN "flush" ELSE "none" ELSE ender[x]]

RecordAndPop(a, F, failed, src) ==
    LET p == RepoOf[a[2]]
        q == QueueAfter(p, failed)
        drained == Drained(p, failed)
        next == {Head(q[x]) : x \in src}
    IN  /\ status' = [x \in Runs |->
                        IF x \in drained /\ CanStage(x, "Stopped")
                        THEN "Stopped"
                        ELSE IF x \in F /\ CanStage(x, "Failed")
                        THEN "Failed" ELSE status[x]]
        /\ locks' = locks \ ReleasedBy({x \in F : CanStage(x, "Failed")}
                                  \union {x \in drained : CanStage(x, "Stopped")})
        /\ fails' = FailsAfter(p, failed)
        /\ queue' = [x \in Repos |-> IF x \in src THEN Tail(q[x]) ELSE q[x]]
        /\ UNCHANGED <<tmux, order, restartable>>
        /\ staged' = [staged EXCEPT ![Flusher(a, next)] =
                        {[run |-> x, entry |-> EntryAfter(x)] :
                           x \in {y \in F \union drained : status[y] # "absent"}}]
        /\ StageQueue(Flusher(a, next))
        /\ AfterPop(a, next)
        /\ UNCHANGED <<submit, client, tracked, renames, queueFile, raced,
                       metaVars, strays, boot, crashes, alive>>

DrainIfAvailable(r) ==
    /\ ender[r] = "drain"
    /\ RecordAndPop(<<"end", r>>, {}, FALSE,
                    OwnElseAny(RepoOf[r], queue, FailsAfter(RepoOf[r], FALSE)))

(* promote_queued refuses: the run is not Queued, or its repository has    *)
(* been locked in the meantime.                                            *)
PromoteFails(r) ==
    /\ task[r] = "preflight"
    /\ ~CanPromote(r)
    /\ RecordAndPop(<<"task", r>>, {r}, TRUE,
                    OwnQueue(RepoOf[r], QueueAfter(RepoOf[r], TRUE),
                             FailsAfter(RepoOf[r], TRUE)))

TaskFlushStatus(r) ==
    /\ task[r] \in {"popped", "flush"}
    /\ FlushStatus(<<"task", r>>)
    /\ UNCHANGED <<registryVars, restartable, actorVars, queueVars, strays,
                   boot, crashes, alive>>

TaskFlushQueue(r) ==
    /\ task[r] \in {"popped", "flush"}
    /\ staged[<<"task", r>>] = {}
    /\ ReturnFromFlush(<<"task", r>>)
    /\ SetTask(r, IF task[r] = "popped" THEN "preflight" ELSE "none")
    /\ UNCHANGED <<registryVars, restartable, staged, metaVars, strays, boot,
                   crashes, alive>>

\* An end counts as a success, so its breaker drains nobody: unlike a task, an
\* ender has a queue snapshot to write and no status (its batch is empty).
EndFlushQueue(r) ==
    /\ ender[r] = "flush"
    /\ staged[<<"end", r>>] = {}
    /\ ReturnFromFlush(<<"end", r>>)
    /\ SetEnder(r, "none")
    /\ UNCHANGED <<registryVars, restartable, staged, metaVars, strays, boot,
                   crashes, alive>>

(* An actor whose meta.json writes are done passes fetch_max.              *)
FlushBegins ==
    \E a \in Actor :
        /\ staged[a] = {}
        /\ AdvanceQueue(a)
        /\ UNCHANGED <<memoryVars, metaVars, strays, boot, crashes, alive>>

----------------------------------------------------------------------------
(* The runs queue.json holds against the tracker, or the other way round.  *)
Misplaced ==
    {r \in Runs : (r \in Range(queueFile.queues[RepoOf[r]]))
                     # (r \in Range(tracked.queues[RepoOf[r]]))}

(* The daemon dies; its memory is lost, and what queue.json holds is what  *)
(* the next life starts from.  Sessions are children of the tmux server    *)
(* and may end at any time.                                                *)

Crash ==
    /\ boot.pc # "down" /\ crashes < MaxCrashes
    /\ crashes' = crashes + 1
    /\ boot' = Boot("down", {}, {})
    /\ status' = [r \in Runs |-> "absent"]
    /\ tmux' = {} /\ locks' = {} /\ restartable' = {}
    /\ queue' = [p \in Repos |-> <<>>] /\ order' = <<>>
    /\ fails' = [p \in Repos |-> 0]
    /\ task' = Idle /\ ender' = Idle /\ submit' = Idle /\ client' = Idle
    /\ staged' = [a \in Actor |-> {}]
    /\ snaps' = <<>> /\ renames' = {} /\ tracked' = queueFile
    /\ raced' = FALSE /\ overtaken' = {}
    /\ strays' = strays \union (IF raced THEN Misplaced ELSE {})
    /\ UNCHANGED <<meta, queueFile, alive>>

(* What a session does while the daemon spawns a run is left to            *)
(* RunLifecycle.                                                           *)
SessionDies(r) ==
    /\ r \in alive
    /\ ~Up \/ status[r] = "Running"
    /\ alive' = alive \ {r}
    /\ UNCHANGED <<memoryVars, queueVars, metaVars, strays, boot, crashes>>

----------------------------------------------------------------------------
(* The start-up, up to the reconciler's step 1, reads only.                *)

(* Mutant: step 0 relocks for Queued entries too.                          *)
Relocked_QueuedToo(st) == {RepoOf[r] : r \in {r \in Runs : st[r] \notin Terminal
                                                     /\ st[r] # "absent"}}

(* Step 0: the repositories of Running entries.                            *)
Relocked(st) == {RepoOf[r] : r \in {r \in Runs : st[r] = "Running"}}

(* load_from_disk, restore_queue (whose HashMap has no order), step 0 and  *)
(* the list of live sessions.                                              *)
Load ==
    /\ boot.pc = "down"
    /\ status' = [r \in Runs |-> meta[r].status]
    /\ tmux' = {r \in Runs : meta[r].tmux}
    /\ restartable' = {r \in Runs : meta[r].restartable}
    /\ queue' = queueFile.queues
    /\ fails' = queueFile.failures
    /\ order' \in SetToSeqs({p \in Repos : queueFile.queues[p] # <<>>})
    /\ locks' = Relocked(status')
    /\ boot' = Boot("sessions", alive, alive)
    /\ UNCHANGED <<actorVars, staged, queueVars, metaVars, strays, crashes,
                   alive>>

(* Mutant: only the sessions of finished runs are cleaned up.              *)
IsLeftover_FinishedOnly(r) == status[r] \in {"Succeeded", "Failed"}

(* Step 2: a session of a terminal run, or of no known run, is killed.     *)
IsLeftover(r) == ~Active(r)

ReconcileSession(r) ==
    /\ boot.pc = "sessions" /\ r \in boot.todo
    /\ alive' = IF IsLeftover(r) THEN alive \ {r} ELSE alive
    /\ boot' = [boot EXCEPT !.todo = @ \ {r}]
    /\ UNCHANGED <<memoryVars, queueVars, metaVars, strays, crashes>>

(* Mutant: the scan looks at Running entries only.                         *)
Stale_RunningOnly == {r \in Runs : status[r] = "Running" /\ r \notin boot.live}

(* find_stale_runs.                                                        *)
Stale == {r \in Runs : /\ Active(r) /\ r \notin boot.live
                       /\ status[r] = "Queued" => ~IsPending(r)}

SessionsDone ==
    /\ boot.pc = "sessions" /\ boot.todo = {}
    /\ boot' = [boot EXCEPT !.pc = "stale", !.todo = Stale]
    /\ UNCHANGED <<memoryVars, queueVars, metaVars, strays, crashes, alive>>

(* Mutant: the synthetic session name is not recorded.                     *)
ResumeStale_NoSession(r) ==
    /\ boot.pc = "stale" /\ r \in boot.todo
    /\ StageStatus(r, "Running")
    /\ UNCHANGED <<tmux, queue, order, fails, restartable>>
    /\ WriteMeta(r)
    /\ boot' = [boot EXCEPT !.todo = @ \ {r}]
    /\ UNCHANGED <<actorVars, staged, queueVars, strays, crashes, alive>>

(* Step 4, with a checkpoint (the environment's choice) or a restartable   *)
(* entry: Running with the name of a dead session, for the heartbeat to    *)
(* recover.  No repository lock is taken.                                  *)
ResumeStale(r) ==
    /\ boot.pc = "stale" /\ r \in boot.todo
    /\ tmux' = tmux \union {r}
    /\ StageStatus(r, "Running")
    /\ UNCHANGED <<queue, order, fails, restartable>>
    /\ WriteMeta(r)
    /\ boot' = [boot EXCEPT !.todo = @ \ {r}]
    /\ UNCHANGED <<actorVars, staged, queueVars, strays, crashes, alive>>

(* Without a checkpoint and not restartable.                               *)
FailStale(r) ==
    /\ boot.pc = "stale" /\ r \in boot.todo
    /\ r \notin restartable
    /\ StageStatus(r, "Failed")
    /\ UNCHANGED <<tmux, queue, order, fails, restartable>>
    /\ WriteMeta(r)
    /\ boot' = [boot EXCEPT !.todo = @ \ {r}]
    /\ UNCHANGED <<actorVars, staged, queueVars, strays, crashes, alive>>

StaleDone ==
    /\ boot.pc = "stale" /\ boot.todo = {}
    /\ boot' = [boot EXCEPT !.pc = "pending",
                            !.todo = {r \in Runs : IsPending(r)}]
    /\ UNCHANGED <<memoryVars, queueVars, metaVars, strays, crashes, alive>>

(* Step 5: the plan and the repository of a pending run still exist, or    *)
(* remove_pending flushes the queue and the run is marked Failed.          *)
KeepPending(r) ==
    /\ boot.pc = "pending" /\ r \in boot.todo /\ boot.drop = {}
    /\ boot' = [boot EXCEPT !.todo = @ \ {r}]
    /\ UNCHANGED <<memoryVars, queueVars, metaVars, strays, crashes, alive>>

DropPending(r) ==
    /\ boot.pc = "pending" /\ r \in boot.todo /\ boot.drop = {}
    /\ RemovePending(r)
    /\ queueFile' = QueueWire(queue', fails) /\ tracked' = queueFile'
    /\ boot' = [boot EXCEPT !.todo = @ \ {r}, !.drop = {r}]
    /\ UNCHANGED <<status, tmux, locks, order, fails, restartable, actorVars,
                   staged, snaps, renames, raced, metaVars, strays, crashes,
                   alive>>

FailDropped(r) ==
    /\ r \in boot.drop
    /\ TryStageStatus(r, "Failed")
    /\ UNCHANGED <<tmux, queue, order, fails, restartable>>
    /\ IF CanStage(r, "Failed") THEN WriteMeta(r) ELSE UNCHANGED metaVars
    /\ boot' = [boot EXCEPT !.drop = {}]
    /\ UNCHANGED <<actorVars, staged, queueVars, strays, crashes, alive>>

Start ==
    /\ boot.pc = "pending" /\ boot.todo = {} /\ boot.drop = {}
    /\ boot' = Boot("up", {}, {})
    /\ UNCHANGED <<memoryVars, queueVars, metaVars, strays, crashes, alive>>

----------------------------------------------------------------------------
Request(r) == SubmitDirect(r) \/ SubmitQueued(r) \/ RemoveQueued(r) \/ Detach(r)

ClientStep(r) ==
    \/ EnqueueFlush(r) \/ EnqueueMeta(r) \/ RemoveFlushStatus(r)
    \/ RemoveEnds(r) \/ DetachFlush(r)

SpawnStep(r) ==
    \/ Promote(r) \/ PromoteFails(r) \/ SpawnSession(r) \/ Dispatch(r)
    \/ DispatchFlush(r) \/ TaskFlushStatus(r) \/ TaskFlushQueue(r)

EndStep(r) ==
    \/ Complete(r) \/ Reap(r) \/ StopKill(r) \/ StopMark(r)
    \/ DrainIfAvailable(r) \/ EndFlushQueue(r)

HeartbeatStep(r) ==
    HeartbeatStage(r) \/ HeartbeatFlush(r) \/ HeartbeatComplete(r) \/ Recover(r)

RunStep(r) == SpawnStep(r) \/ EndStep(r) \/ HeartbeatStep(r)

Reconcile ==
    \/ Load \/ SessionsDone \/ StaleDone \/ Start
    \/ \E r \in Runs : \/ ReconcileSession(r) \/ ResumeStale(r) \/ FailStale(r)
                       \/ KeepPending(r) \/ DropPending(r) \/ FailDropped(r)

Next ==
    \/ \E r \in Runs : Request(r) \/ ClientStep(r) \/ RunStep(r)
                       \/ SessionDies(r)
    \/ FlushBegins
    \/ Crash
    \/ Reconcile

Spec == Init /\ [][Next]_vars

----------------------------------------------------------------------------
TypeOK ==
    /\ RegistryTypeOK
    /\ restartable \subseteq Runs
    /\ task \in [Runs -> TaskPC]
    /\ ender \in [Runs -> EnderPC]
    /\ submit \in [Runs -> SubmitPC]
    /\ client \in [Runs -> ClientPC]
    /\ staged \in [Actor -> SUBSET [run : Runs, entry : Entry]]
    /\ snaps \in Seq([by : Actor, file : Wire])
    /\ tracked \in Wire
    /\ renames \subseteq [by : Actor, file : Wire]
    /\ boot \in [pc : BootPC, live : SUBSET Runs, todo : SUBSET Runs,
                 drop : SUBSET Runs]
    /\ crashes \in 0..MaxCrashes
    /\ meta \in [Runs -> Entry]
    /\ queueFile \in Wire
    /\ alive \subseteq Runs
    /\ raced \in BOOLEAN
    /\ strays \subseteq Runs
    /\ overtaken \subseteq Runs

(* A run that waits in the queue, and whose submission has been answered,  *)
(* has a meta.json and is in the file the tracker stands for; and it is in *)
(* queue.json itself, so that it survives a crash of the daemon (SubmitRun *)
(* flushes before it answers, server.rs:551), unless a flush returned or   *)
(* renamed while another one was past fetch_max (registry.rs:1482-1504).   *)
QueuedSurvives ==
    \A r \in Runs :
        Up /\ IsPending(r) /\ status[r] = "Queued" /\ submit[r] = "none"
            => /\ meta[r] # NoEntry
               /\ r \in Range(tracked.queues[RepoOf[r]])
               /\ raced \/ r \in Range(queueFile.queues[RepoOf[r]])

(* A run waits in one queue, once; and neither in memory nor on disk is a  *)
(* Running run still waiting, so that no restart drains it a second time   *)
(* and marks it Failed beside its live session: queue.json is flushed      *)
(* before the popped run's task starts (executor.rs:197).  Excepted on     *)
(* disk while flushes race, and for a run which a crash at such a moment   *)
(* has misplaced in queue.json.                                            *)
NotQueuedTwice ==
    \A r \in Runs :
        /\ \A p \in Repos \ {RepoOf[r]} : r \notin Pending(p)
        /\ \A i, j \in DOMAIN queue[RepoOf[r]] :
              queue[RepoOf[r]][i] = r /\ queue[RepoOf[r]][j] = r => i = j
        /\ status[r] = "Running" /\ r \notin strays => ~IsPending(r)
        /\ meta[r].status = "Running" /\ r \notin strays
              => /\ r \notin Range(tracked.queues[RepoOf[r]])
                 /\ raced \/ r \notin Range(queueFile.queues[RepoOf[r]])

(* Of a run that memory knows, and that no actor has a write of under way, *)
(* meta.json holds what memory says: a finished run is finished on disk,   *)
(* and no restart puts it back to Running; unless the last write was one   *)
(* staged before the entry changed for the last time, since flush_status   *)
(* skips nothing (registry.rs:580).                                        *)
EndIsDurable ==
    \A r \in Runs \ overtaken :
        /\ Up /\ status[r] # "absent" /\ submit[r] = "none"
        /\ \A a \in Actor : r \notin {w.run : w \in staged[a]}
        => meta[r] = [status |-> status[r], tmux |-> r \in tmux,
                      restartable |-> r \in restartable]

(* A Running run has a session name, in every life of the daemon: without  *)
(* one the heartbeat skips the entry, "leaving the run permanently stuck"  *)
(* (reconciler.rs:206).                                                    *)
RunningIsWatchable ==
    \A r \in Runs : /\ status[r] = "Running" => r \in tmux
                    /\ meta[r].status = "Running" => meta[r].tmux

(* A held repository lock has a run that is Running or on its way there,   *)
(* also after a restart: otherwise the repository stays locked for ever    *)
(* (reconciler.rs:80).                                                     *)
NoLockLeak ==
    \A p \in locks : \E r \in Runs :
        /\ RepoOf[r] = p
        /\ \/ status[r] = "Running"
           \/ status[r] = "Queued" /\ task[r] \in {"registered", "waiting"}

Starts == ~Up /\ boot'.pc = "up"

(* When the server starts, every tmux session still alive belongs to a run *)
(* that is not finished (reconciler.rs step 2), or to one that a crash     *)
(* amid racing flushes has left in queue.json, whose validation (step 5)   *)
(* may mark it Failed after the sessions were looked at.                   *)
NoLeftoverSession ==
    [][Starts => \A r \in alive : Active(r) \/ r \in strays]_vars

(* When the server starts, every unfinished run is Running, waits in the   *)
(* queue, or had a live session when the reconciler looked                 *)
(* (find_stale_runs).                                                      *)
NobodyForgotten ==
    [][Starts => \A r \in Runs :
          Active(r) => status[r] = "Running" \/ IsPending(r) \/ r \in boot.live]_vars

============================================================================

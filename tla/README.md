# Greater Will: a TLA+ model of the daemon, the foreground engines and their runs

Greater Will (`gw`) runs Claude Code "arc" plans in detached tmux sessions. A
background daemon accepts submissions over a Unix socket, queues them per
repository, watches the sessions, restarts crashed ones, fires schedules, and
survives its own crashes through files under `~/.gw`. Without the daemon, `gw
run --foreground` drives one session at a time itself, a batch of plans one
after the other, or, with phase groups, each plan in several sessions. This
directory holds TLA+ modules for the parts where interleavings, crashes,
timeouts and retries decide whether the program is correct, TLC configurations
that check them on small instances, and TLAPS proofs for every size.

Source lines are those of the repository (`src/...` below stands for
`src/src/...` in the file `PROJECT.json`). Every definition that models code is
listed there, under "map", with the lines it translates.

## 1. Inventory of the system

| Component | State it keeps | Operations | Talks to |
|---|---|---|---|
| Run registry, `daemon/registry.rs` | `runs` (status, session, phase, epoch), `repo_locks`, `pending_queues`, `repo_insertion_order`, `consecutive_failures`; `meta.json` per run, `queue.json` | register, promote, stage/flush/update status, enqueue, dequeue, clear, drain, record failure, load, restore, adopt | everybody, under one tokio mutex; the flushes run outside it |
| Run executor, `daemon/executor.rs` | the drain tasks' handles | `spawn_run`, `spawn_queued_run`, `stop_run`, `drain_if_available` | registry, tmux, monitors map |
| Daemon server, `daemon/server.rs` | none of its own | one request per connection: SubmitRun, StopRun, DetachRun, RemoveQueued, ClearQueue, listings, schedules | registry, executor, monitors map |
| Heartbeat, `daemon/heartbeat.rs` | `monitors` map, pane caches | the 10-second tick; outcome handler and recovery tasks | registry, monitors, executor (drain), tmux |
| Per-run monitor, `daemon/run_monitor.rs` | watchdog timestamps, nudge counters | polls one session, kill gate, returns one outcome | tmux, heartbeat (outcome), cancellation token |
| Reconciler, `daemon/reconciler.rs` | none | once at start-up: relock, live sessions, stale runs, collisions, pending entries | registry, tmux |
| Start-up and shutdown, `daemon/mod.rs`, `commands/daemon.rs` | crash history and flag, `daemon.running`, `daemon.pid` and its lock, `daemon.sock` | start, background start, stop, signals, shutdown order | all tasks, the next and the previous daemon |
| Schedules, `daemon/schedule.rs` | `schedules.json` | add, remove, pause, resume, fire | registry, executor |
| Network probe, `daemon/network.rs` | `NetworkState` | probe, wait for connectivity | heartbeat's handlers |
| Foreground engine, `engine/single_session/*` | the monitor loop's timers; the restart loop; `.gw/session-owner.json` | adopt, spawn, watch, kill, restart one session per plan | tmux, checkpoint, loop file, crash history |
| Crash-loop detector, `engine/crash_loop.rs` | window, totals, budgets per phase; `crash-history.json` | record, ask, persist, load | foreground engine, heartbeat |
| Phase executor, `engine/phase_executor.rs`, `completion.rs`, `retry.rs` | the group under way, its detector, its retries | run the phase groups of a plan in sessions of their own | tmux, checkpoint |
| Checkpoint, `checkpoint/*`, `monitor/phase_nav.rs` | `checkpoint.json`, which Rune writes too | read, rewrite between sessions, completion and position | engines, monitors |
| Batch queue, `batch/*` | batch state file, `.gw/gw.lock` | run a list of plans one after the other, resume it | engines |
| Client and commands, `client/*`, `commands/*` | none | parse, send one request, print | server |
| Session, cleanup, config, log, output, github | none that decides | wrappers around tmux, processes, files and `gh` | all |

What is hard in this code, and what each part must get right:

- **One mutex, many critical sections.** Every request, task and handler locks
  the registry for a moment, releases it, awaits (a flush, a 12 s init wait, a
  tmux command, a back-off) and locks it again. What it read may be stale. The
  registry must keep locks, queue entries and statuses consistent through all
  of it (registry, executor, server).
- **Repository locks** are released by *any* terminal status of *any* run of
  the repository, on about a dozen paths. A missed path locks a repository for
  ever; an extra one lets two runs in.
- **The queue** is drained only when a run ends. Each path that ends a run must
  drain, in FIFO order per repository, count failures for the circuit breaker,
  and leave no run outside both the queue and a task.
- **Monitors** are started from a snapshot of the registry, cancelled by
  requests, and followed by handlers that retry and respawn: at most one may
  watch a run, and a Running run must always get one again.
- **Files** are written outside the mutex: `queue.json` with epochs and unique
  temporary names, `meta.json` with neither. An acknowledged change must
  survive a crash, an older one must not overwrite a newer one.
- **Restart.** Sessions outlive the daemon. The reconciler has to find, for
  every combination of status, file and live session a crash may leave,
  something to do that loses no run, starts none twice and leaks no lock.

- **Watching a session.** Some fifteen sources (pane, checkpoint, loop file,
  signal files, processes, swarm, network) are polled and each has timers of
  its own. A kill is requested, stands for a window, and is withdrawn on a sign
  of life; many paths postpone, skip or shorten that. A live session must not
  be killed, a dead one must not be watched for ever, and "completed" needs
  more than a text in a pane.
- **gw without a daemon** may die at any moment while its session goes on. The
  next gw has to find it, under a lock, and adopt it or kill it.
- **Two writers of one checkpoint.** gw rewrites it between sessions; a session
  it lost sight of may write too.
- **One daemon.** Which process is the daemon, and whether the last one ended
  in good order, is said by four files that starts, ends and `gw daemon stop`
  write and remove, each process for itself, two or three at a time.
- **Time of schedules.** A run is spawned outside the mutex, between the look
  at the clock and the record that the schedule has fired.

`PROJECT.json` lists 40 hazards at their lines, and which property would catch
each of them going wrong, or why none does.

## 2. Modules

    RunRegistry        the registry's in-memory methods, as operators
      |-- RunLifecycle       requests, tasks, tick, monitors, handlers
      |     |-- MCRunLifecycle      (MCFull, MCTwoRepos, MCMonitors)
      |     `-- RunLifecycle_proofs
      |-- DaemonRestart      files, crash, load, reconcile
      |     |-- MCDaemonRestart
      |     `-- DaemonRestart_proofs
      `-- RunRegistry_proofs    lemmas about queues and status changes
    QueueFlush         flush_queue of queue.json
      `-- MCQueueFlush
    MetaFlush          write_meta of meta.json
      `-- MCMetaFlush
    Schedule           schedules and the loop that fires them
      |-- MCSchedule
      `-- Schedule_proofs

    WatchedSession     a session, and what both monitors have in common
      |-- RunMonitor         one monitor of the daemon, tick by tick
      |     |-- (implements) MonitorContract
      |     `-- MCRunMonitor
      |-- ForegroundMonitor  the monitor loop of gw run --foreground
      |     `-- MCForegroundMonitor
      `-- Monitors_proofs    of both

    Checkpoint         what gw reads out of checkpoint.json, as operators
      |-- ForegroundRun      lock, adoption, restarts; extends CrashLoop too
      |     |-- MCForegroundRun
      |     `-- ForegroundRun_proofs
      `-- CompletionDetector one poll of a phase group
            `-- PhaseBatch   batch, phase groups, retries, resume
                  |-- MCPhaseBatch
                  `-- PhaseBatch_proofs
    CrashLoop          the crash-loop detector, as operators
      `-- DaemonLife         starts and ends of daemon processes
            `-- MCDaemonLife
    DaemonFiles_proofs extends QueueFlush, MetaFlush and DaemonLife

The layers meet at outcomes. RunLifecycle sees of a monitor the outcome it
reports, chosen by the environment; RunMonitor is the inside of it, and
MonitorContract what both rely on: one outcome, and a session killed by the
step that reports it. ForegroundRun sees of ForegroundMonitor its verdict in
the same way.

**RunRegistry** (`registry.rs`). `status`, `tmux`, `locks`, `queue`, `order`
and `fails` are the fields of `RunRegistry`; a run without an entry is
"absent". `CanStage`/`StageStatus` are `stage_status_locked` (the transition
guard, the release of the lock on a terminal status); `RegisterRun`,
`PromoteQueued`, `EnqueueRun`, `DequeueRun`, `ClearQueue` are the methods of
those names; `Trips`, `Drained`, `FailsAfter` are the circuit breaker,
`OwnQueue`, `AnyQueue`, `OwnElseAny` the two pops of `drain_if_available`.

**RunLifecycle** (`server.rs`, `executor.rs`, `heartbeat.rs`, the outside of
`run_monitor.rs`). One action is one critical section of the registry or of the
monitors map, with the tmux calls up to the next await. `task` is a spawn task
(direct, drained or retried) and where it is; `client` a stop or detach request
in progress; `mon` the monitor tasks of a run together with the handler of
their outcome (`watch`, an outcome, `reap`, `backoff`, `netwait`, `recover`,
...); `handle` the map of handles; `hb` the tick in progress with its snapshot.
The tick (`TickSnapshot` to `TickEnd`) decides on that snapshot, as the code
does. `alive` are the tmux sessions. What sessions, disks, network and the
inside of a monitor do is the environment's choice, restricted by the constants
`Requests`, `Outcomes` and `Faults`.

**QueueFlush** (`stage_queue_locked`, `flush_queue`, `load_queue`). Concurrent
flushes, step by step: the early check of the tracker, create and write of the
temporary file, `fetch_max`, rename, I/O errors, crash, and the reload. The
epoch in a file is history: the wire format has none.

**MetaFlush** (`stage_status_locked`, `flush_status`, `update_status`,
`write_meta`, `load_from_disk`). Writers of one `meta.json` at the level of
inodes: the temporary file has one fixed name. The constant `Staged` says which
writers use `flush_status` (outside the mutex); the others use `update_status`.
A write is under way from the moment it is staged. The history variable
`shared` has the writers another write has overlapped without the mutex between
the two, and `spoiled` says that `meta.json` may be what such writes have left:
it is set with the first overlap, and cleared by the rename of a write that
nothing has overlapped.

**DaemonRestart** (`reconciler.rs`, `load_from_disk`, `restore_queue`, and the
write order of server, executor and heartbeat). While the daemon is up it keeps
of RunLifecycle what decides the order of the writes. A run may have four
actors at once: the `task` that spawns it, the `ender` (`stop_run`, or the
handler of its monitor's outcome), the `submit` handler and a `client` request
(removal or detach); and there is one heartbeat. A write under the mutex belongs
to its action; a staged one is carried by its actor (`staged`, `snaps`) and
written in an action of its own, with any step of any other in between. So the
Running that a dispatch or a heartbeat's new phase has staged may reach
`meta.json` after the run was stopped, detached or completed: `WriteLate`, and
`overtaken` are the runs it has happened to. `flush_queue` is two steps.
`AdvanceQueue` is `fetch_max`: it makes the older snapshots stale, and `tracked`
is the file it stands for. `ReturnFromFlush` is the rename, in any order with
others', or the return of a flush found stale. `raced` says that `queue.json`
may not be the file of the tracker: a flush returned, or renamed, or advanced,
while another one was between its two steps. It is reset when the last rename
has made the two equal. `strays` are the runs of which `queue.json` said
something else than the tracker when the daemon died at such a moment. `Crash`
may happen at any point, the reconciliation included; `Load` and the steps 0, 1,
2, 4 and 5 of `reconcile` follow, one session or run at a time.

**Schedule** (`schedule.rs`, the schedule requests of `server.rs`). `entries`
is the registry, `disk` is `schedules.json`. The mutex is held through a save,
so that each request, failing save included, is one action; `Tick` copies the
due schedules, `Fire` spawns outside the mutex, `RecordFired` comes back to it
and finds whatever requests have left. `Dies`, `Load` and `LoadFails` are a
restart. A cron expression is due at the multiples of `Period`. The variables
`added`, `runs`, `forgiven` and `late` are history, for the property.

**DaemonLife** (`daemon/mod.rs`, `cleanup_stale_socket` and the bind in
`server.rs`, `gw daemon start` and `stop`, `is_daemon_running`). `pc` is where
each process is: the probe of the socket, the look at the marker, opening and
locking `daemon.pid`, the marker, the socket, serving, and the way back. The
lock belongs to the inode, not to the name: `inode` is what a process has open
and `pidFile` what the name stands for. The booting, draining and saving in
between are the other modules'. `uncounted` and `unlinked` are history.

**WatchedSession**, **RunMonitor**, **MonitorContract** (`run_monitor.rs`). The
world is what a poll can show: session, process, pane, checkpoint, loop file,
signal files, swarm. `mon` is the monitor's struct: an `Instant` is its age in
polls, up to the largest age a threshold tells apart. A tick has two steps,
`Observe` and `Judge`, because files and pane are read in the first and decided
on in the second; each check of the loop is an operator on `mon`, composed in
the code's order. `seen` is history: how long ago signs of life were read, how
long each cause has lasted.

**ForegroundMonitor** (`engine/single_session/monitor.rs`). The same world and
helpers; one action per way a tick can end (`continue`, `return`, falling off
the end), since the order of the checks and what an early `continue` skips is
what differs from the daemon's monitor. Five of its ways kill a session.
`SignOfLife` is a session at work: it redraws its pane, writes artifacts or its
loop file, asks for permissions and has teammates come and go, as often as it
likes; the constant `Restless` says which of these an instance has. Captures of
the pane may fail as often, too.

**ForegroundRun** (`orchestrator.rs`, `batch/lock.rs`, `monitor/session_owner.rs`,
`util.rs`, the restart side of `crash_loop.rs`). Several gw processes on one
repository: `OpenLock`, `Flock`, `UnlinkLock`, `CloseLock` on inodes, so that a
lock file removed under a waiter is a different file; `Adopt`, `Decide`,
`FindDone` and `Spawn` at the start of a plan; `WriteOwner`, `Dispatch`; the
monitor's verdict in `Return`; the back-off in `Wake`; `GwDies` anywhere. The
arcs in the sessions write `cp` and `loop` as Rune does, as far as gw reads it.

**Checkpoint**, **CrashLoop** (`checkpoint/schema.rs`, `phase_nav.rs`,
`crash_loop.rs`) are pure operators, used by the modules above and below.

**CompletionDetector**, **PhaseBatch** (`completion.rs`, `retry.rs`,
`phase_executor.rs`, `checkpoint/reader.rs`, `batch/queue.rs`). The detector is
an operator from its state, the pane and a checkpoint read to
its next state and a verdict. PhaseBatch runs plans and groups around it: the
pre-flight budget, the checkpoint rewritten before a group (read and written in
two steps), spawn, prompt, command, polling, retries by error class, the
circuit breaker, the state file and `Resume` after a death of gw.

## 3. What the runs check

The twelve runs are exhaustive, and all pass.

| Run | Instance | Properties | Question |
|---|---|---|---|
| MCFull | two runs, one repository, one monitor slot, every request, outcome and fault (4.0 M states) | TypeOK, NoLockLeak, PendingSound, RunningIsWatchable, TerminalForever | Is the registry consistent on every interleaving? |
| MCTwoRepos | three runs, two repositories, a capacity of one (131 K) | QueueServed, FifoPerRepo | Is a waiting run always followed by somebody who drains, in order, also when the end of a run of one repository has to start one of the other? |
| MCMonitors | one run, two monitor slots, every request, outcome and fault, weak fairness (125 K) | SingleMonitor, RunningGetsMonitor, StopTakesEffect | One monitor at a time; do things that must happen happen? |
| MCDaemonRestart | two runs, one repository, three crashes, phases that change, symmetric (337 K) | QueuedSurvives, NotQueuedTwice, EndIsDurable, RunningIsWatchable, NoLockLeak, NoLeftoverSession, NobodyForgotten | What does a crash lose, start twice or leave behind? |
| MCQueueFlush | two flushes at once, I/O errors, crashes (34 K) | NewestNotSkipped, RenamesOwnSnapshot | Do epochs skip only what is old? |
| MCMetaFlush | three writers, one of them outside the mutex, four changes, I/O errors, crashes (1.1 M) | MetaDurable | Is `meta.json` readable and durable, and what do overlapping writes leave? |
| MCSchedule | two schedules of any kind, four ticks, two faults, symmetric (8.2 M) | OneRunPerDueTime | Is a schedule ever fired twice for one due time, or a one-shot lost? |
| MCRunMonitor | one session, two changes of the world, every source of evidence | KillAfterSilence, VerdictHasCause, EventuallyVerdict, ImplementsContract | Does the daemon's monitor kill or report without cause, or never? |
| MCForegroundMonitor | the foreground loop, one change, a session that may be restless for ever and captures that may always fail (879 K) | EndHasCause, EventuallyEnds | Does any of its five kills strike at once; does it end, and if not, why? |
| MCForegroundRun | two gws on one repository, with the same plan, two plans, or a batch of two; one death or failed call | LiveSessionIsOwned, RestartsAreLimited, RestartsAreRemembered, SuccessHasEvidence, EverybodyEnds | What does a dead gw leave, and does the next one take it up? |
| MCDaemonLife | three daemon processes, one sudden end anywhere, signals, `gw daemon stop`, background starts (9.8 M) | LockIsExclusive, CrashesAreCounted | Does the PID lock admit one daemon, and does an unclean exit ever escape the crash-loop detection? |
| MCPhaseBatch | two plans of two groups, two faults, one resume (3.0 M) | ResultsInOrder, BudgetHolds, BreakerHolds, HandoffIsHonest, PassedIsDone, EveryBatchEnds | Is a batch recorded truly across deaths, retries and sessions left behind? |


Every property has a mutant in `PROJECT.json`: a definition with a plausible
bug in it (written next to the original, under a comment "Mutant") under which
TLC finds the property violated.

Bounds, and why they are enough:

- *Runs.* Two runs on one repository are a holder and a contender; a third adds
  an order in the queue and a second drain. More runs repeat these roles. A
  property of one run's monitors needs one run.
- `Slots` (2): monitor tasks that coexist for one run. Two are what
  SingleMonitor needs to fail; with one in MCFull a new monitor waits for the
  old handler, which the other properties do not look at.
- `MaxClients` (1) and one request per run at a time: stop and detach are the
  only requests with several steps. Two requests for different runs meet only
  in the registry, where their critical sections are also taken by tasks.
- `MaxQueueSize` 2, `MaxConsecutiveFailures` 2: the full queue and the tripped
  breaker are both reached (the code has 50 and 3).
- MCTwoRepos restricts requests, outcomes and faults to paths that are meant to
  drain; which paths do not is told in section 5. `gw stop` drains too, but
  with it the run does not finish in reasonable time: a stop of a run that has
  others waiting is in MCFull, without QueueServed.
- `MaxCrashes` 3 in MCDaemonRestart: a crash, one during the recovery from it,
  and one of the life after that. Two runs are a holder and one that waits, and
  each has up to four actors and the heartbeat (`Phased`: the runs whose phase
  changes). A third run makes two wait and three flushes meet; with one crash
  (7.6 M states, in which QueuedSurvives and NotQueuedTwice hold) it takes more
  time than a run should, and the theorems are about any number. In
  MCForegroundRun `MaxCrashes` is the detector's limit.
- A run id is submitted once; `MaxEpoch` in MCQueueFlush and `MaxChanges` in
  MCMetaFlush cap the changes. Epochs are compared, never counted.
- *Time* is counted in polls (or, in Schedule, in ticks). The thresholds of an
  instance keep the order the code's constants have, which is what decides
  which timer fires first; an age is counted only up to the largest threshold.
  `MaxChanges` 2 bounds how often the session, its process, pane or files
  change while a monitor watches, not how long it watches: one change makes a
  request, a second one withdraws it. It is 1 in MCForegroundMonitor, where it
  bounds neither the signs of life (`Restless`: the pane is redrawn, permissions
  are asked for) nor the failing captures, which the loop may see for ever.
- *Faults.* `MaxFaults` bounds failed system calls and deaths of gw: one in
  MCForegroundRun (two gws multiply it), two in MCPhaseBatch and MCSchedule,
  so that one may strike during the recovery from the other. `MaxResumes` 1.
- MCDaemonLife: a daemon that dies, one that starts too early and one that
  finds what both have left. A process may find the last crash on record to be
  within the window or past it; the limits of the detector are small, so that
  refusing to start is reached by three processes.
- Two phases, the second of them both `ship` and `merge`, are enough for
  "before", "after", "in" and "behind" a group boundary.
- TypeOK is checked in MCFull only. QueueFlush, MetaFlush and DaemonRestart
  define one of their own, which is proved; RunMonitor's bounds the ages to what
  an instance counts, and its invariant in section 4 has the types instead.
- `CHECK_DEADLOCK FALSE` where the system comes to a rest: the writers of
  MCMetaFlush, the submissions of MCDaemonRestart and the clock of MCSchedule
  run out, a gw exits in MCForegroundRun and MCPhaseBatch, and MCDaemonLife
  ends with its last process.

Fairness, always of the program's own steps and never of submissions, requests,
outcomes, the progress of an arc, session deaths or faults:

- `FairSpec` of RunLifecycle: weak fairness of spawn tasks, requests, handlers
  and the tick. Each is a tokio task with nothing to wait for but the mutexes,
  timers or a bounded back-off, and tokio schedules ready tasks.
- RunMonitor, ForegroundMonitor: the loop sleeps and polls until it returns.
  Weak fairness of the tick, written as "no verdict yet implies a further
  tick", which is what ENABLED comes to. In ForegroundMonitor a permission file
  also grows old.
- ForegroundRun: each gw runs unless it has exited, is blocked in flock behind
  a holder, or watches a session that is there. Of the last nothing is assumed:
  an active pane, failing captures, teammates or a dead process in a session
  that stays may keep the loop for ever, as EventuallyEnds says. A watch of a
  session that is gone returns. EverybodyEnds names the same exception.
- PhaseBatch: its one thread is always in a call that returns.

## 4. What is proved

The assumptions a proof uses are the named ones of the module it is about. What
they restrict besides types: a repository and a plan for each run; slots
numbered from 1; positive PIDs; finitely many repositories in DaemonRestart
(`restore_queue` makes a sequence of them); in the two monitors, the gate and
the recovery window longer than the first ten seconds of a request (the code
has 300 and 30 seconds); in PhaseBatch, what `validate` asks of a
configuration; in Schedule, a positive period and delay; in ForegroundRun,
positive gw numbers, finitely many plans, attempts that last no less than
nothing, and a `None` that is no value of the files. Some theorems have
hypotheses of their own, named below.

**RunLifecycle_proofs**, for any set of runs and repositories, any limits,
slots, requests, outcomes and faults: TypeCorrect, LocksNeverLeak,
PendingIsSound, RunningRunsAreWatchable, OneMonitorPerRun, TerminalIsForever,
QueuesAreFifo and, with a hypothesis, QueueIsServed. None of the state
properties is inductive alone. The invariant is

    IInv == TypeOK /\ PendingInv /\ AbsentUntouched /\ DirectUnknown
            /\ RunningIsWatchable /\ TickSound /\ NoLockLeak /\ SingleMonitor

- `PendingInv`: a pending run is in its repository's queue, once, and no task
  works on it. A pop hands the head over to a task in the same critical
  section; uniqueness in the queue is what makes the hand-over complete.
- `AbsentUntouched`, `DirectUnknown`: a run without an entry has no lock
  holder, monitor or queue entry, and a direct submission has no entry until it
  registers. So registering cannot revive a finished run.
- `RunningIsWatchable`: Running runs and runs with a monitor have a session
  name, which the tick takes for granted when it starts a monitor.
- `TickSound`: what the tick's snapshot says of a run, weakened by what may
  have happened since.
- `NoLockLeak`: the holder of a lock is Running or registered in a task. It
  needs the monotone statuses (`TerminalForever`) and `PendingInv`, because the
  circuit breaker ends pending runs of the same repository. An extra release is
  harmless to it, though it lets two runs into one repository (section 5).
- `SingleMonitor`: with the handle in the map being cancelled before it is
  forgotten.
- QueuesAreFifo is FifoPerRepo, by what each action does to a queue: nobody
  overtakes (`OrderKept`), and only the head starts (`HeadsStart`).
- QueueIsServed is QueueServed under `Calm`: no detach, heartbeat end, send or
  flush failure, panic, crash or network outcome, since each of these ends a
  run without a drain (section 5). The constants of MCTwoRepos satisfy it.
  `CalmInv` says who is left to drain: a lock holder, a task before its
  promotion, a stop before its drain, or a handler. A drain that leaves a queue
  has started a run or leaves one whose lock is held (`DrainServes`), and finds
  every queue that is there, since `OrderCovers`.

There is one lemma per action of `Next`, with a step per conjunct it can
disturb. `RunRegistry_proofs` has the lemmas about queues (what an append, a
removal and a tail do to the pending runs, their order and their uniqueness)
and about status changes.

**DaemonRestart_proofs**, for any number of runs and crashes:

- RestartTypeCorrect: a snapshot a handler still carries is well typed, so
  `queue.json` is, so what a restart loads from it is.
- RunningAlwaysWatchable: memory and disk each get their entries from the
  other, and disk also from writes staged earlier. The invariant therefore says
  the same of all three.
- NobodyIsForgotten: no handler or task takes a step during the start-up
  (`BootIsAlone`), and between the reconciler's steps every unfinished run is
  accounted for, on the list of stale runs, or the one just dropped from the
  queue (`RestartInv`). It assumes nothing of what `Load` reads.
- NobodyQueuedTwice: `DurableInv` says what holds in the file of the tracker
  *and* in every snapshot still to be flushed (`Everywhere`), since any of them
  may be the file the next daemon loads; of `queue.json` it says it unless
  flushes race. `FilesInv`: every file there is, whatever is renamed over what,
  names a run once at most (`SoundDisk`); no run that runs, is about to, or is
  Running in `meta.json` or in a staged write, is in any of them
  (`RunnersAreOut`, but for the strays); every pending run is in those staged
  since it was queued (`PendingIsSaved`); and without a race `queue.json` is
  the file of the tracker or about to be (`RaceInv`). `StagedInv` says who may
  carry a staged `meta.json`, `BootInv` how memory and disk agree between the
  steps of the start-up.
- QueueSurvivesCrash, EndsAreDurable: with `RecordsInv`, each entry has a
  `meta.json` once its submission is answered (`IsRecorded`), and the disk says
  what memory says of a run whose writes are done, unless it is overtaken
  (`IsCurrent`).
- LocksAreHeld: NoLockLeak is inductive beside `DurableInv`, which says that
  nobody comes back from the queue while holding a lock.
- NoSessionIsLeft: a live session belongs to a run that waits neither in memory
  nor in any file that may be loaded, or to a stray (`SessionsInv`); so the
  step of the reconciler that drops pending runs finishes no other that has
  one, and no step before it overlooks one (`LeftoverInv`).

The exceptions are the code's, not the proof's: `raced`, `strays` and
`overtaken` are set by the interleavings section 5 tells, and by no others.

**DaemonFiles_proofs**, on the three modules about files that outlive a daemon:

- PidLockIsExclusive and EveryCrashIsCounted, for any set of PIDs, limits and
  number of deaths. Three facts make them inductive: everybody who has
  `daemon.pid` open has the file of that name open, until it is unlinked under
  one of them (`SameFile`); whoever may remove the marker finds it there
  (`MarkerStands`); and while a crash is uncounted no start is past its look at
  the marker (`NobodyPassed`).
- NewestIsFlushed and RenameIsOwn for `queue.json`, for any number of flushes,
  snapshots, I/O errors and crashes: a flush that is under way has an epoch of
  its own, hence a temporary name of its own, and only staged epochs are in the
  tracker.
- MetaIsDurable for `meta.json`, with any writers outside the mutex. A writer
  that nothing has overlapped is the only one under way and has the newest entry
  (`Alone`), its temporary file is its own (`TmpIsOwn`) and never the live one
  (`NotLive`); whoever was overlapped has spoiled the file
  (`SharedIsSpoiled`), and the first rename of one that was not puts it right.
  UpdatesAreAtomic adds that nothing is ever spoiled when all writers use
  `update_status`.

**ForegroundRun_proofs**, for any plans, batches, attempts, detector limits and
faults:

- LockExcludesTwo: InstanceExclusive for two gw processes. Whoever has the lock
  file open has the one its path names, unless somebody is past the unlink, and
  then there is nobody else left to open another (`LockInv`). A third process
  could, and TLC refutes InstanceExclusive with three (section 5).
- NoSessionIsForgotten, NoRestartIsForgotten and SuccessNeedsEvidence hold for
  any number of processes as long as InstanceExclusive does. This hypothesis is
  what the code relies on, and LockExcludesTwo discharges it for two
  (TwoForgetNothing, TwoHaveEvidence).
- NoSessionIsForgotten adds to LiveSessionIsOwned that the gw that drives knows
  of every session that works, and that what it is about to adopt is on record
  (`OnlyWatched`). So no start overlooks one, and no attempt begins beside one.
- NoRestartIsForgotten adds what a detector is between two restarts
  (`HistoryOK`): what is persisted is what the next gw loads, and time takes
  nothing from the total.
- LimitedRestarts: RestartsAreLimited, without that hypothesis. What the
  detector counts ends with the ages of the restarts this gw has made
  (`Covered`); time ages both alike, and dropping the old from the front of the
  longer sequence leaves no less of it than of the shorter (`RestartEndsWith`).
- SuccessNeedsEvidence follows a plan's evidence from the arc to the report. A
  session belongs to the plan on record (`OwnerPlan`), no session begins twice
  (`SessionsPast`), an active loop file is that of the plan being driven, or of
  the session on record while nobody drives (`OwnLoop`, `IdleLoop`), phases are
  done in order (`CpInOrder`), and a loop file is closed only when nothing is
  pending (`LoopEnded`). It needs `AutoMerge = TRUE`: with the merge skipped in
  advance TLC refutes it (section 5).

**Monitors_proofs**, for any thresholds. Each check of a tick is an operator
on the monitor's struct; the lemmas say of each, in the order of a tick, which
timers it may set and which verdict it may give (the relation `Checks`), so that
only their composition has to be followed. The invariant adds that a request
stands exactly while its timer runs (`GateRuns`), that the timers and counters
a verdict is taken from say what was read (`TimersTell`), that a sign of life
shows in a timer the gate looks at (`LifeShows`), and that one seen after the
request is one the gate could not act upon yet, or is within its recovery
window (`SilenceKept`). From it follow VerdictsHaveCauses, GateKillsInSilence
and MonitorImplementsContract: every step is one of MonitorContract's or a
stutter.

ForegroundEndsHaveCause says EndHasCause of the foreground loop. Half of its
checks are those of the daemon's monitor, so their lemmas serve both; the other
half have lemmas of their own, and what each leaves behind is carried from the
probe to the gate by three relations: `Ticks` (the completion timer is set only
when a tick has read that the arc has ended, the loop file's only while it is
not active), `Lives` (a sign of life that was read is in a timer the gate looks
at, once the artifacts are scanned) and `PaneLives` (while no loop file was ever
seen it is in the pane's, which the bootstrap check looks at). The invariant
(`FgInv`) relates the timers to the history: completion and loss are no older
than what was read (`FgTells`), the last sign of life shows (`FgLifeShows`), and
a request that no tick has passed over stands in silence or is younger than
`Early` (`FgSilence`). The gate is then one lemma (`GateInSilence`), used by the
tick that lets the session live and by the one that kills it.

**PhaseBatch_proofs**, for any plans, groups, limits, faults and resumes:

- BatchKeepsItsResults, NoPlanAfterBreaker: the results follow the plans, in
  order and without gap, in memory and in the state file (`RunnerOK`), and at
  each `pc` memory, file and queue differ by at most the plan that has just
  ended (`InStep`). What a resume reads is therefore a beginning of the batch.
- BudgetIsKept: between the look at tmux and the spawn nobody else makes a
  session (`BudgetInv`).
- PassedPlansAreDone: a group is reached only when those before it are done in
  the checkpoint, or will be skipped (`GroupsInTurn`), and nobody, gw or Rune,
  undoes a phase that is done (`CheckpointsOK` and one lemma per writer).
- HandoffKeepsProgress has two hypotheses: a budget of one session, the
  default, since a second session may write between gw's read and write; and
  groups that cover the phases in order, which `validate` only warns of.

**Schedule_proofs**: SchedulesRunOnce, for any schedules and any number of
faults. A schedule whose entry announces a fire, or that the loop has copied or
fired and not yet recorded, has run less often than it was due (`MayRun`), not
counting what deaths have taken from the file. While the daemon is down this is
said of the file instead. For a cron expression it takes arithmetic: the next
fire is a multiple of the period, and the clock that reaches it increases the
number of due times by one (`Division` to `OneMore`).

Only model-checked:

- the liveness properties EventuallyVerdict, EventuallyEnds, EveryBatchEnds,
  EverybodyEnds, RunningGetsMonitor and StopTakesEffect: fairness is out of the
  prover's reach.

No module declares a RECURSIVE operator.

## 5. Where the code and its promises disagree

These were met while modelling. They can be stated over the same modules, or
are the reason why a property above has the exceptions it has.

Start and end of the daemon:

- After an unclean exit no daemon serves again until `daemon.sock` is removed
  by hand. `start_daemon` writes its own PID into `daemon.pid` before the
  server looks whether the socket is stale (`server.rs:75`, "Remove stale
  socket file if no daemon is running"); it reads that PID, finds it alive,
  reports "Another daemon is already running" and the daemon ends in good order
  (RefusedByAnother in DaemonLife).
- `gw daemon stop` removes `daemon.pid` when its request is answered
  (`commands/daemon.rs:117`), while the old daemon drains for up to 35 s with
  its lock on a file that has no name any more; a daemon that ends removes the
  file after its lock. In both cases a second daemon locks a new file, against
  SEC-006 (`server.rs:131`), counts the old one's marker as a crash, and loses
  its own marker and PID file to the old one, whose last `save_queue` also
  overwrites `queue.json`. Hence `unlinked` in both properties. A `restart`
  may do so, since it waits for the socket only; a series of them may end as a
  crash loop.
- The marker is looked at before the lock is held: a start beside a live daemon
  that does not answer yet counts a crash, and a death between that look and
  the lock is never counted (`Looked`).
- `Request::Shutdown` says that queued plans will be lost, although they are
  saved (`server.rs:836`); dropping the heartbeat's handle does not abort its
  task (`mod.rs:476`).

Registry, executor, heartbeat:

- `stage_status_locked` releases the repository lock on *any* terminal status
  of any run of the repository (`registry.rs:560`): removing a queued run,
  clearing the queue, the breaker or a failed drain frees the lock a Running
  run holds, and a second run starts beside it (`registry.rs:4-5`).
- `stop_run` kills the session the entry names; during the 12 s init wait it
  names none, so the run is Stopped and its session lives on
  (`commands/stop.rs:50`).
- The heartbeat ends runs itself (pane says done, already done, network
  timeout, disk failure: `heartbeat.rs:518`, 955-972, 1190) without draining
  the queue (`README.md:193`).
- Nothing drains a restored queue until some run ends (`mod.rs:343`,
  `README.md:193`); and a run whose daemon died in the init wait stays Queued
  with its live session, in no queue and without a monitor.
- A detached run is Stopped with a live session; the next start kills it
  (`reconciler.rs:148` against `server.rs:727`, `commands/stop.rs:46`).
- A retry task that fails only logs: the run it popped stays Queued in no queue
  (`executor.rs:283`, compare the comment at 224-229).
- The recovery gate reads the status in its own critical section; a stop before
  the spawn is followed by a new session (`heartbeat.rs:1187`).
- `count_running` does not count a run in its init wait, so two submissions
  exceed the concurrency limit (`server.rs:525`).
- `drain_any_ready` pops a run whose repository is locked; the run is marked
  Failed without having started (`executor.rs:177`).
- The handler of a completed monitor turns Stopped into Succeeded
  (`heartbeat.rs:798`).
- A plan queued for capacity and submitted again when there is room is active
  twice: only `enqueue_run` checks for duplicates (`registry.rs:467`).
- A direct submission that fails its pre-flight checks is answered with an
  error and not queued, against the comment at `executor.rs:342`.
- `flush_queue` advances the tracker and renames in two steps, so an older
  snapshot can be renamed over a newer one (`registry.rs:1482`, against "never
  roll back on-disk state" at line 21; TLC refutes NoRollback of QueueFlush in
  the instance of MCQueueFlush). A flush that is skipped as stale is
  acknowledged before the newer one is on disk (line 1485, against "the on-disk
  state already supersedes this snapshot" at 1447; Durable, refuted likewise).
  A crash at such a moment loses a queued run whose client has been answered, or
  puts a run that works back into `queue.json`, where the next start may mark it
  Failed beside its session: `raced` and `strays` in DaemonRestart.
- Two `flush_status` of one run share `meta.json.tmp`, so one may rename the
  file the other has just truncated (`registry.rs:1610`, against "Atomically
  write run metadata" at 1600; NeverTorn of MetaFlush, which TLC refutes with
  two writers outside the mutex), and the older may be written last
  (`registry.rs:580`): `spoiled` in MetaFlush.
- The Running that a dispatch (`executor.rs:567`) or the heartbeat
  (`heartbeat.rs:467`) has staged may be written after the run was stopped,
  detached or completed; a restart then takes the run for unfinished and revives
  it: `overtaken` in DaemonRestart.
- A submission writes `queue.json` first. A crash before `meta.json` leaves a
  pending run without an entry, which a drain discards ("run not found"),
  against "recoverable" at `server.rs:563`; and its late `meta.json` may
  overwrite the end of the run (`overtaken`, too).
- A stale Queued run is set to Running without its repository lock
  (`reconciler.rs:211-220`), so a submission can start beside it.
- An error of the flush after Running makes the drain task mark the live run
  Failed (`executor.rs:567`); an error of `update_status` ends `stop_run`
  before its drain (`executor.rs:691`); a failed flush of a submission reports
  an error although the run stays queued (`server.rs:552`).

Monitors:

- `poll_checkpoint` sets `last_checkpoint_activity` on every readable poll, not
  on an advance: once a checkpoint is readable the daemon's gate never fires
  (`run_monitor.rs:1055` against 1590).
- An accepted prompt ends the tick before the kill gate: hence `skipped` in
  KillAfterSilence. The pipeline timeout ends the daemon's monitor without
  killing. On a foreground session it is a request like the others, and a pane
  that keeps changing withdraws it at every tick (`monitor.rs:1682-1709`), for
  ever; a failing capture or teammates at work keep the tick from it as well.
  These are the exceptions of EventuallyEnds and EverybodyEnds.
- "GW must NEVER kill a session instantly": four foreground paths kill outside
  the gate. EndHasCause shows that each has waited for its own grace.
- The foreground dead-process grace cannot be reached, and a process that exits
  during the completion grace is reported crashed (`monitor.rs:570`).
- `session-stop.json` hides the `is_complete` of `session-end.json`;
  `loop_state_gone_since` is shared by "inactive" and "missing"; a group whose
  phase failed has no `transition_gap_secs`; the keyword guard `current_hash ==
  last_output_hash` compares a value with itself.

Foreground engine and crash history:

- A plan may be reported done at the start on the checkpoint alone: a merge
  skipped in advance makes `is_complete()` true (`util.rs:189`, against the
  trap told at `monitor.rs:633-640`); TLC refutes SuccessHasEvidence with
  `AutoMerge` FALSE. A restart of one plan may take another plan's inactive
  loop file and checkpoint, which SuccessHasEvidence names as its exception.
- A spawn that fails after `create_tmux_session`, and a gw that dies between
  the spawn and the owner file, leave a session nobody owns (`strays`); an
  adopted session that tmux fails to show is forgotten.
- `Drop` of the instance lock removes the *path* `.gw/gw.lock`, then closes the
  file. The next waiter gets the lock of a file without a name; a third gw
  makes a new file and locks it, and two gws drive runs in one repository
  (`batch/lock.rs:149`, against "the OS kernel guarantees mutual exclusion" at
  line 3 and `commands/run.rs:597`; InstanceExclusive in ForegroundRun, which
  TLC refutes with three gws and no fault).
- The owner file's `claude_pid` is that of the shell. `check_daemon_repo_lock`
  only probes. `acquire` truncates the PID of the holder it then waits for, and
  a batch unlinks the lock file twice.
- `last_crash_phase` is not persisted; the history belongs to a repository and
  not to a run; the crash path does not persist it. A healthy attempt is
  recorded at most once and each restart resets `healthy_since`
  (`crash_loop.rs:4-5`). "Will resume" is printed before a fresh command.
- The daemon records starts but never a healthy time: after 10 unclean exits it
  refuses to start, and each refusal counts. Its history is
  `~/.gw/.gw/crash-history.json`.
- `kill_session(..)?` never returns an error, so its handling is dead code.

Phase groups and batches:

- The prompt returning starves nudge, stuck and error detection (`completion.rs:28`,
  "After 3 minutes"). A keyword with a stale checkpoint acts after one poll.
- A failed phase is not reset for a retry (`reader.rs:395`, "exists and is
  pending"), so a retried group fails on its first tick.
- `mark_phases_completed_before` turns skipped and failed phases into completed
  ones, unless the skip map names them; the checkpoint is read and written in
  two steps, so that an orphan's progress may be rolled back (`blind`).
- `{plan}` in `skill_command` is never substituted; the condition
  `codex_disabled` is unknown; a group without `skip_if` runs again even when
  it is done.
- A failing `capture_pane` or `send_keys` leaves the session alive: the next
  groups fail on the session budget until the breaker trips. Retries are
  counted per group over all error classes; the first overload retry waits 30
  minutes and not 15; `GW_PLAN_TIMEOUT` is never enforced; the plan under way
  at a death is recorded failed at the resume.
- Cleanup takes a session for stale when tmux gives neither PID nor age.

Schedules:

- A one-shot resumed after its time, or added in the past, and any delayed
  schedule resumed, are Active without a next fire, for ever (`schedule.rs:424`):
  the variable `late`.
- A schedule removed or paused after the tick has copied it still fires
  (`schedule.rs:352`); one whose spawn fails is tried again at every tick,
  without limit; an add answered with an error, because its save failed, fires.
- Errors of the save after a fire are ignored, so a one-shot fires again after a
  restart (`forgiven`). An unreadable `schedules.json` is overwritten by the
  next save.
- Pause and resume do not look at the status: a Completed schedule becomes
  Active.

## 6. What is not modelled

- In RunLifecycle: the restartable flag, restart counters and PIDs; the
  crash-loop decision (nondeterministic; CrashLoop has the decision itself);
  whether a dead session had completed (nondeterministic); the daemon's
  shutdown. Scheduled submissions take the path of direct ones; Schedule has
  what precedes them.
- In DaemonRestart: I/O errors and files torn by overlapping writes (QueueFlush
  and MetaFlush have them: one write of a `meta.json` is one step here); the
  inside of a spawn or a recovery (one step each); failed outcomes, so the
  breaker counts failed promotions only; the retry of a failed drain; DetachRun
  of a run that is not Running, and StopRun of a Queued run that is not pending
  (both are in RunLifecycle); the concurrency limit; sessions dying during a
  spawn; session-name collisions and
  adoption, which the current code no longer produces (names are always
  `gw-<id>`, and every readable `meta.json` is loaded before the scan).
- In the monitors: what text counts as a keyword, a prompt or a completion; the
  process table; the nudges' wording; status lines and snapshots of the log.
- In ForegroundRun and PhaseBatch: the length of waits between retries, budgets
  of free memory, environment variables and configuration files; the
  plan timeout, which the code never enforces.
- In DaemonLife: what the daemon does between its marker and its socket and
  during its shutdown (RunLifecycle, DaemonRestart and Schedule have the tasks
  that then run or stop); errors of single writes, which are warnings there; a
  PID used twice; installing a launchd service. DaemonRestart lets the daemon
  die at any step, which is harder on its files than an orderly end.
- Drain snapshots, logs, output and GitHub change
  nothing another component decides on. `monitor/nudge.rs`,
  `checkpoint_poll.rs` and `engine/monitor_core` are called by no engine.
- Sockets, framing, path validation and listings of the server; the commands
  other than `gw run --foreground` and `gw daemon`, which send a request and print the answer.
- The components with status "not_modelled" in `PROJECT.json`, with the reason
  for each.

## 7. Plan

The state machines that carry the program's own logic are modelled. Every
safety property a run checks is proved for any values of the constants, in
eight proof modules; some under hypotheses section 4 names. What is left:

- The six liveness properties stay with TLC, on the instances of section 3.
- The components with status "partly", each with what it lacks in
  `PROJECT.json`, and the hazards there that no property covers.

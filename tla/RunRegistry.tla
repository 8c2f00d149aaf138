---------------------------- MODULE RunRegistry ----------------------------
(***************************************************************************)
(* The daemon's run registry (src/src/daemon/registry.rs): the in-memory   *)
(* half of `RunRegistry`, guarded by one tokio mutex.                      *)
(*                                                                         *)
(* Every operator with a primed variable is one registry method, executed  *)
(* inside one critical section; module RunLifecycle conjoins them into the *)
(* critical sections of the server, the executor and the heartbeat.  A     *)
(* method that returns an error leaves the registry alone, so its guard is *)
(* the conjunction of its early returns.  The durable half (meta.json and  *)
(* queue.json) is the subject of QueueFlush, MetaFlush and DaemonRestart.  *)
(***************************************************************************)
EXTENDS Naturals, FiniteSets, SequencesExt

CONSTANTS
    Runs,                    \* run identifiers
    Repos,                   \* repositories, up to repo_hash
    RepoOf,                  \* RunEntry::repo_dir of each run
    PlanOf,                  \* RunEntry::plan_path of each run, up to plans_match
    MaxQueueSize,            \* MAX_QUEUE_SIZE
    MaxConsecutiveFailures   \* MAX_CONSECUTIVE_FAILURES

ASSUME RepoOfAssumption == RepoOf \in [Runs -> Repos]
ASSUME PlanOfAssumption == DOMAIN PlanOf = Runs
ASSUME LimitsAssumption ==
    MaxQueueSize \in Nat /\ MaxConsecutiveFailures \in Nat \ {0}

VARIABLES
    status,     \* runs[r].status, "absent" when there is no RunEntry
    tmux,       \* the runs whose tmux_session is Some
    locks,      \* repo_locks: the repositories whose lock file is held
    queue,      \* pending_queues
    order,      \* repo_insertion_order
    fails       \* consecutive_failures

registryVars == <<status, tmux, locks, queue, order, fails>>

----------------------------------------------------------------------------
Terminal == {"Succeeded", "Failed", "Stopped"}

RunStatus == {"Queued", "Running"} \union Terminal

Active(r) == status[r] \in {"Queued", "Running"}

Pending(p) == ToSet(queue[p])

IsPending(r) == \E p \in Repos : r \in Pending(p)

TotalPending == Cardinality(UNION {{p} \X DOMAIN queue[p] : p \in Repos})

CountRunning == Cardinality({r \in Runs : status[r] = "Running"})

InitRegistry ==
    /\ status = [r \in Runs |-> "absent"]
    /\ tmux = {}
    /\ locks = {}
    /\ queue = [p \in Repos |-> <<>>]
    /\ order = <<>>
    /\ fails = [p \in Repos |-> 0]

----------------------------------------------------------------------------
(* stage_status_locked: the transition guard, the status change, and the   *)
(* release of the repository lock on any terminal status.                  *)

(* Mutant: the guard forgets the terminal statuses.                        *)
CanStage_NoTerminalGuard(r, to) ==
    /\ status[r] # "absent"
    /\ status[r] = "Running" => to # "Queued"

CanStage(r, to) ==
    /\ status[r] # "absent"
    /\ status[r] \in Terminal => to \in Terminal
    /\ status[r] = "Running" => to # "Queued"

StatusAfter(R, to) == [r \in Runs |-> IF r \in R THEN to ELSE status[r]]

ReleasedBy(R) == {RepoOf[r] : r \in R}

StageStatus(r, to) ==
    /\ status' = StatusAfter({r}, to)
    /\ locks' = IF to \in Terminal THEN locks \ ReleasedBy({r}) ELSE locks

(* update_status whose error the caller only logs.                         *)
TryStageStatus(r, to) ==
    \/ CanStage(r, to) /\ StageStatus(r, to)
    \/ ~CanStage(r, to) /\ UNCHANGED <<status, locks>>

----------------------------------------------------------------------------
(* register_run: the lock first, then the entry.                           *)

CanRegister(r) == RepoOf[r] \notin locks

RegisterRun(r) ==
    /\ CanRegister(r)
    /\ locks' = locks \union {RepoOf[r]}
    /\ status' = StatusAfter({r}, "Queued")

(* promote_queued: only a Queued entry, and only with the repository free. *)

CanPromote(r) == status[r] = "Queued" /\ RepoOf[r] \notin locks

PromoteQueued(r) ==
    /\ CanPromote(r)
    /\ locks' = locks \union {RepoOf[r]}
    /\ UNCHANGED status

----------------------------------------------------------------------------
(* enqueue_run_without_snapshot: global cap, duplicate plan, then the      *)
(* entry and the queue's tail.  No repository lock is taken.               *)

IsDuplicatePlan(r) ==
    \E e \in Runs : Active(e) /\ RepoOf[e] = RepoOf[r] /\ PlanOf[e] = PlanOf[r]

(* Mutant: push_front for push_back.                                       *)
EnqueueRun_AtFront(r) ==
    LET p == RepoOf[r] IN
    /\ TotalPending < MaxQueueSize
    /\ ~IsDuplicatePlan(r)
    /\ status' = StatusAfter({r}, "Queued")
    /\ order' = IF Contains(order, p) THEN order ELSE Append(order, p)
    /\ queue' = [queue EXCEPT ![p] = <<r>> \o @]
    /\ UNCHANGED <<tmux, locks, fails>>

EnqueueRun(r) ==
    LET p == RepoOf[r] IN
    /\ TotalPending < MaxQueueSize
    /\ ~IsDuplicatePlan(r)
    /\ status' = StatusAfter({r}, "Queued")
    /\ order' = IF Contains(order, p) THEN order ELSE Append(order, p)
    /\ queue' = [queue EXCEPT ![p] = Append(@, r)]
    /\ UNCHANGED <<tmux, locks, fails>>

(* dequeue_run_staged, and RemoveQueued's stage + remove_pending_staged.   *)

DequeueRun(r) ==
    \E p \in Repos : \E i \in DOMAIN queue[p] :
        /\ queue[p][i] = r
        /\ queue' = [queue EXCEPT ![p] = RemoveAt(@, i)]
        /\ StageStatus(r, "Stopped")
        /\ UNCHANGED <<tmux, order, fails>>

(* clear_queue_staged for one repository, or for all of them.              *)

ClearQueue(P) ==
    LET cleared == UNION {Pending(p) : p \in P} IN
    /\ queue' = [p \in Repos |-> IF p \in P THEN <<>> ELSE queue[p]]
    /\ status' = StatusAfter(cleared, "Stopped")
    /\ locks' = locks \ ReleasedBy(cleared)
    /\ UNCHANGED <<tmux, order, fails>>

----------------------------------------------------------------------------
(* The circuit breaker and the two pops of drain_if_available, composed    *)
(* in one critical section.                                                *)

(* record_queue_failure_without_snapshot reaches its limit.                *)
Trips(p, failed) == failed /\ fails[p] + 1 >= MaxConsecutiveFailures

(* The runs the tripped breaker marks Stopped.                             *)
Drained(p, failed) == IF Trips(p, failed) THEN Pending(p) ELSE {}

QueueAfter(p, failed) ==
    IF Trips(p, failed) THEN [queue EXCEPT ![p] = <<>>] ELSE queue

(* Mutant: a tripped breaker does not reset its counter.                   *)
FailsAfter_NoReset(p, failed) ==
    [fails EXCEPT ![p] = IF failed THEN @ + 1 ELSE 0]

FailsAfter(p, failed) ==
    [fails EXCEPT ![p] = IF failed /\ ~Trips(p, failed) THEN @ + 1 ELSE 0]

Ready(p, q, f) == q[p] # <<>> /\ f[p] < MaxConsecutiveFailures

(* drain_next_without_snapshot: the repository's own queue.                *)
OwnQueue(p, q, f) == {x \in {p} : Ready(x, q, f)}

(* drain_any_ready_without_snapshot: the first ready repository in         *)
(* insertion order.                                                        *)
AnyQueue(q, f) ==
    {order[i] : i \in {i \in DOMAIN order :
                         /\ Ready(order[i], q, f)
                         /\ \A j \in 1..(i - 1) : ~Ready(order[j], q, f)}}

(* Mutant: no fallback to another repository's queue.                      *)
OwnElseAny_OwnOnly(p, q, f) == OwnQueue(p, q, f)

OwnElseAny(p, q, f) ==
    IF OwnQueue(p, q, f) # {} THEN OwnQueue(p, q, f) ELSE AnyQueue(q, f)

----------------------------------------------------------------------------
RegistryTypeOK ==
    /\ status \in [Runs -> RunStatus \union {"absent"}]
    /\ tmux \subseteq Runs
    /\ locks \subseteq Repos
    /\ queue \in [Repos -> Seq(Runs)]
    /\ order \in Seq(Repos)
    /\ fails \in [Repos -> 0..(MaxConsecutiveFailures - 1)]
============================================================================

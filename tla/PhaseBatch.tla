------------------------------- MODULE PhaseBatch -------------------------------
(***************************************************************************)
(* `gw run --multi-group' with several plans: BatchRunner and BatchState   *)
(* (src/batch), the PhaseGroupExecutor that runs each plan's phase groups  *)
(* in sessions of their own (src/engine/phase_executor.rs), the retries of *)
(* src/engine/retry.rs, and the checkpoint gw rewrites between sessions    *)
(* (src/checkpoint/reader.rs).                                             *)
(*                                                                         *)
(* A plan is its index in the batch, so is a group; one gw runs at a time  *)
(* (InstanceLock, see ForegroundRun), and may be started again to resume.  *)
(***************************************************************************)
EXTENDS CompletionDetector, Sequences, FiniteSets

CONSTANTS
    PlanCount,
    Groups,         \* the phases of each group, in order: sets of phases
    SkipIf,         \* skip_if of each group: None, a phase whose skipping is
                    \* the named condition, or 0 for any other condition
    None,
    SkipMaps,       \* what Rune's skip_map may hold
    MaxFailures,    \* max_failures of the circuit breaker
    MaxSessions,    \* max_concurrent_sessions
    Classes,        \* error classes a keyword may stand for
    MaxRetriesOf,   \* max_retries() of every class
    Fatal,          \* classes for which skips_plan()
    Transient,      \* ApiOverload and NetworkError
    MaxFaults,      \* bound on failed system calls and deaths of gw
    MaxResumes      \* bound on `gw run --resume'

Plans == 1 .. PlanCount

GroupIds == DOMAIN Groups

AllClasses == Classes \cup {"crash", "stuck", "timeout"}

(* PlanOutcome; "transient" is a failure with the flag of that name.       *)
Outcomes == {"passed", "failed", "transient", "skipped"}

ASSUME BatchAssumption ==
    /\ PlanCount \in Nat \ {0} /\ MaxFailures \in Nat /\ MaxSessions \in Nat \ {0}
    /\ MaxRetriesOf \in [AllClasses -> Nat]
    /\ Fatal \cup Transient \subseteq AllClasses
    /\ None \notin Phases /\ None \notin Outcomes /\ None # 0

(* PhaseConfig::validate: every phase is known and in one group only.      *)
ASSUME ValidConfig ==
    /\ Groups \in Seq(SUBSET Phases) /\ Groups # <<>>
    /\ \A g \in GroupIds : Groups[g] # {} /\ Groups[g] \subseteq Phases
    /\ \A g, h \in GroupIds : g # h => Groups[g] \cap Groups[h] = {}

VARIABLES
    pc,         \* where gw is; "ended" and "dead" if there is none
    queue,      \* BatchRunner.queue
    batch,      \* BatchRunner.batch_state
    disk,       \* .gw/batch-state.json
    exec,       \* the locals of execute_plan, execute_group and their callees
    cp,         \* checkpoint.json of each plan's arc
    session,    \* tmux: what runs in the session of each plan and group
    pane,       \* the screen of a session at work, while gw watches it
    faults, resumes,
    blind       \* history: tmux could not list the sessions

world == <<cp, session, pane>>
vars == <<pc, queue, batch, disk, exec, world, faults, resumes, blind>>

NoExec ==
    [plan |-> 0, group |-> 1, attempts |-> 0, class |-> None, result |-> None,
     copy |-> None, det |-> NewState]

Here == <<exec.plan, exec.group>>

Phase == Groups[exec.group]

Live == {s \in Plans \X GroupIds : session[s] # "absent"}

Running == pc \notin {"ended", "dead"}

Fault == faults < MaxFaults /\ faults' = faults + 1

NoFault == faults' = faults

(* gw returns with an error, or dies: what it held in memory is gone.      *)
Leave(how) ==
    /\ pc' = how
    /\ queue' = <<>> /\ batch' = None /\ exec' = NoExec
    /\ pane' = "text"

----------------------------------------------------------------------------
(* BatchState.                                                             *)
NewBatch == [index |-> 0, results |-> <<>>, failures |-> 0, tripped |-> FALSE]

Breaker(state, failures, tripped) == [state EXCEPT !.failures = failures, !.tripped = tripped]

(* Mutant: the breaker trips one failure late.                             *)
Counted_Late(state, outcome) ==
    LET failures == state.failures + 1
    IN  CASE outcome = "passed" -> Breaker(state, 0, FALSE)
          [] outcome = "failed" ->
                Breaker(state, failures,
                        state.tripped \/ (MaxFailures > 0 /\ failures > MaxFailures))
          [] OTHER -> state

Counted(state, outcome) ==
    LET failures == state.failures + 1
    IN  CASE outcome = "passed" -> Breaker(state, 0, FALSE)
          [] outcome = "failed" ->
                Breaker(state, failures,
                        state.tripped \/ (MaxFailures > 0 /\ failures >= MaxFailures))
          [] OTHER -> state

(* record_result: "transient" is a failure that neither counts nor resets. *)
RecordResult(state, plan, outcome) ==
    IF state.index >= PlanCount THEN Counted(state, outcome)
    ELSE [Counted(state, outcome) EXCEPT
             !.index = @ + 1,
             !.results = Append(@, [plan |-> plan, outcome |-> outcome])]

(* record_result of every plan that is left, as skipped.                   *)
RecordSkipped(state, plans) ==
    [state EXCEPT !.index = @ + Len(plans),
                  !.results = @ \o [i \in DOMAIN plans |->
                                        [plan |-> plans[i], outcome |-> "skipped"]]]

----------------------------------------------------------------------------
(* BatchRunner.                                                            *)

(* run: a new batch, or a resumed one, is saved first.                     *)
SaveInitial ==
    /\ pc = "save"
    /\ disk' = batch
    /\ pc' = "next"
    /\ UNCHANGED <<queue, batch, exec, world, faults, resumes, blind>>

(* Mutant: a resumed batch goes on with the plan after the one it was at.  *)
Remaining_NextPlan(state) == [i \in 1 .. PlanCount - state.index - 1 |-> state.index + 1 + i]

Remaining(state) == [i \in 1 .. PlanCount - state.index |-> state.index + i]

Resume ==
    /\ ~Running /\ disk # None /\ resumes < MaxResumes
    /\ resumes' = resumes + 1
    /\ batch' = disk
    /\ queue' = Remaining(disk)
    /\ pc' = "save"
    /\ UNCHANGED <<disk, exec, world, faults, blind>>

(* Cleaning up: a session is stale when its shell has ended, which ends it *)
(* too, or when tmux tells neither its pid nor its age.                    *)
Swept ==
    \/ session' = session /\ NoFault
    \/ \E s \in Live : session' = [session EXCEPT ![s] = "absent"] /\ Fault

(* The next plan; its disk check and the cleanup between plans succeed.    *)
NextPlan ==
    /\ pc = "next" /\ queue # <<>> /\ ~batch.tripped
    /\ queue' = Tail(queue)
    /\ exec' = [NoExec EXCEPT !.plan = Head(queue)]
    /\ pc' = "load"
    /\ IF batch.results = <<>> THEN session' = session /\ NoFault ELSE Swept
    /\ UNCHANGED <<batch, disk, cp, pane, resumes, blind>>

(* The disk check fails: the plan fails, and so does a plan with no file.  *)
PlanRefused ==
    /\ pc = "next" /\ queue # <<>> /\ ~batch.tripped /\ Fault
    /\ queue' = Tail(queue)
    /\ exec' = [NoExec EXCEPT !.plan = Head(queue), !.result = "failed"]
    /\ pc' = "record"
    /\ UNCHANGED <<batch, disk, world, resumes, blind>>

(* The cleanup between plans fails, or a save: run returns the error.      *)
RunAborts ==
    /\ pc \in {"save", "next", "record", "skip"} /\ Fault
    /\ pc = "next" => queue # <<>> /\ ~batch.tripped /\ batch.results # <<>>
    /\ Leave("ended")
    /\ UNCHANGED <<disk, cp, session, resumes, blind>>

(* The breaker has tripped: the plan is skipped and that is saved, then    *)
(* the others are.                                                         *)
SkipFirst ==
    /\ pc = "next" /\ queue # <<>> /\ batch.tripped
    /\ batch' = RecordResult(batch, Head(queue), "skipped")
    /\ disk' = batch'
    /\ queue' = Tail(queue)
    /\ pc' = "skip"
    /\ UNCHANGED <<exec, world, faults, resumes, blind>>

SkipRest ==
    /\ pc = "skip"
    /\ disk' = RecordSkipped(batch, queue)
    /\ Leave("ended")
    /\ UNCHANGED <<cp, session, faults, resumes, blind>>

RecordAndSave ==
    /\ pc = "record"
    /\ batch' = RecordResult(batch, exec.plan, exec.result)
    /\ disk' = batch'
    /\ exec' = NoExec
    /\ pane' = "text"
    /\ pc' = "next"
    /\ UNCHANGED <<queue, cp, session, faults, resumes, blind>>

Finish ==
    /\ pc = "next" /\ queue = <<>>
    /\ Leave("ended")
    /\ UNCHANGED <<disk, cp, session, faults, resumes, blind>>

GwDies ==
    /\ Running /\ Fault
    /\ Leave("dead")
    /\ UNCHANGED <<disk, cp, session, resumes, blind>>

----------------------------------------------------------------------------
(* PhaseGroupExecutor.                                                     *)
RunnerKeeps == UNCHANGED <<queue, batch, disk, resumes>>

Goto(next, locals) == pc' = next /\ exec' = locals

PlanEnds(result) == Goto("record", [NoExec EXCEPT !.plan = exec.plan, !.result = result])

(* `?' in a call of the attempt: execute_plan returns the error.           *)
PlanErrs == PlanEnds("failed")

FreshCheckpoint ==
    [status |-> [p \in Phases |-> "pending"], finished |-> FALSE, skipMap |-> {}]

(* load_or_create_checkpoint, and what it returned is written; a session   *)
(* that an earlier gw left may write in between.                           *)
LoadCheckpoint ==
    /\ pc = "load"
    /\ Goto("init", [exec EXCEPT !.copy =
                       IF cp[exec.plan] = None THEN FreshCheckpoint ELSE cp[exec.plan]])
    /\ RunnerKeeps /\ UNCHANGED <<world, faults, blind>>

WriteInitial ==
    /\ pc = "init"
    /\ cp' = [cp EXCEPT ![exec.plan] = exec.copy]
    /\ Goto("group", [exec EXCEPT !.copy = None])
    /\ RunnerKeeps /\ UNCHANGED <<session, pane, faults, blind>>

DoneOrWillSkip(c, p) == p \in c.skipMap \/ c.status[p] \in {"completed", "skipped"}

ShouldSkip(g, c) ==
    /\ SkipIf[g] # None
    /\ \/ SkipIf[g] \in Phases /\ c.status[SkipIf[g]] = "skipped"
       \/ \A p \in Groups[g] : DoneOrWillSkip(c, p)

GroupDone ==
    /\ IF exec.group = Len(Groups) THEN PlanEnds("passed")
       ELSE Goto("group", [NoExec EXCEPT !.plan = exec.plan, !.group = exec.group + 1])

SkipGroup ==
    /\ pc = "group" /\ ShouldSkip(exec.group, cp[exec.plan])
    /\ GroupDone
    /\ RunnerKeeps /\ UNCHANGED <<world, faults, blind>>

EnterGroup ==
    /\ pc = "group" /\ ~ShouldSkip(exec.group, cp[exec.plan])
    /\ Goto("flight", exec)
    /\ RunnerKeeps /\ UNCHANGED <<world, faults, blind>>

(* Mutant: what the cleanup leaves is not counted again.                   *)
PreFlight_NoRecheck ==
    /\ pc = "flight"
    /\ Swept
    /\ Goto("read", exec)
    /\ RunnerKeeps /\ UNCHANGED <<cp, pane, blind>>

(* The session budget, with the cleanup tried before a group is refused.   *)
PreFlight ==
    /\ pc = "flight"
    /\ Swept
    /\ IF Cardinality({s \in Live : session'[s] # "absent"}) < MaxSessions
       THEN Goto("read", exec) ELSE PlanErrs
    /\ RunnerKeeps /\ UNCHANGED <<cp, pane, blind>>

(* A listing that fails counts for no session.                             *)
PreFlightBlind ==
    /\ pc = "flight" /\ Fault
    /\ blind' = TRUE
    /\ Goto("read", exec)
    /\ RunnerKeeps /\ UNCHANGED world

(* Mutant: only what the group itself needs is marked.                     *)
MarkCompletedBefore_Through(c, target) ==
    [c EXCEPT !.status = [p \in Phases |->
        IF p > target THEN @[p] ELSE IF p \in c.skipMap THEN "skipped" ELSE "completed"]]

(* mark_phases_completed_before: the target keeps the status it has.       *)
MarkCompletedBefore(c, target) ==
    [c EXCEPT !.status = [p \in Phases |->
        IF p >= target THEN @[p] ELSE IF p \in c.skipMap THEN "skipped" ELSE "completed"]]

ReadCheckpoint ==
    /\ pc = "read"
    /\ Goto("write", [exec EXCEPT !.copy = MarkCompletedBefore(cp[exec.plan], First(Phase))])
    /\ RunnerKeeps /\ UNCHANGED <<world, faults, blind>>

WriteCheckpoint ==
    /\ pc = "write"
    /\ cp' = [cp EXCEPT ![exec.plan] = exec.copy]
    /\ Goto("spawn", [exec EXCEPT !.copy = None])
    /\ RunnerKeeps /\ UNCHANGED <<session, pane, faults, blind>>

(* System health, a checkpoint that cannot be read or written.             *)
BeforeSpawnErrs ==
    /\ pc \in {"load", "init", "flight", "read", "write"} /\ Fault
    /\ PlanErrs
    /\ RunnerKeeps /\ UNCHANGED <<world, blind>>

Spawn ==
    /\ pc = "spawn" /\ session[Here] = "absent"
    /\ session' = [session EXCEPT ![Here] = "ready"]
    /\ Goto("prompt", exec)
    /\ RunnerKeeps /\ UNCHANGED <<cp, pane, faults, blind>>

AttemptFails(class) == Goto("retry", [exec EXCEPT !.class = class, !.det = NewState])

(* A session of that name is there, or tmux does not answer: then what was *)
(* made is left.                                                           *)
SpawnFails ==
    /\ pc = "spawn"
    /\ \/ session[Here] # "absent" /\ session' = session /\ NoFault
       \/ session[Here] = "absent" /\ Fault
          /\ \E left \in {"absent", "ready"} : session' = [session EXCEPT ![Here] = left]
    /\ AttemptFails("crash")
    /\ RunnerKeeps /\ UNCHANGED <<cp, pane, blind>>

PromptSeen ==
    /\ pc = "prompt" /\ session[Here] = "ready"
    /\ Goto("send", exec)
    /\ RunnerKeeps /\ UNCHANGED <<world, faults, blind>>

(* kill_session tells nobody that it failed.                               *)
Kill ==
    \/ session' = [session EXCEPT ![Here] = "absent"] /\ NoFault
    \/ session[Here] # "absent" /\ session' = session /\ Fault

PromptTimeout ==
    /\ pc = "prompt"
    /\ Kill
    /\ AttemptFails("crash")
    /\ RunnerKeeps /\ UNCHANGED <<cp, pane, blind>>

(* The keys reach a session that has gone, too, as far as gw is told.      *)
SendCommand ==
    /\ pc = "send"
    /\ session' = [session EXCEPT ![Here] = IF @ = "ready" THEN "working" ELSE @]
    /\ Goto("tick", [exec EXCEPT !.det = NewState])
    /\ RunnerKeeps /\ UNCHANGED <<cp, pane, faults, blind>>

(* send_keys or capture_pane fails: the session is left as it is.          *)
SessionCallErrs ==
    /\ pc \in {"send", "tick"} /\ Fault
    /\ PlanErrs
    /\ pane' = "text"
    /\ RunnerKeeps /\ UNCHANGED <<cp, session, blind>>

----------------------------------------------------------------------------
(* The monitor loop: capture_pane, tick, and what is done with the event.  *)
Screen ==
    CASE session[Here] = "absent" -> "blank"
      [] session[Here] = "ready" -> "prompt"
      [] OTHER -> pane

ClassOf(event) == IF event = "failed" THEN "crash" ELSE event

(* Polls by Rune writing its checkpoint see none.                          *)
Views == {{cp[exec.plan]}} \cup (IF session[Here] = "working" THEN {Unreadable} ELSE {})

Watch ==
    /\ pc = "tick"
    /\ \E view \in Views :
       LET r == Tick(Later(exec.det), Screen, view, Phase)
       IN  \/ /\ r.event \in {"running", "prompt_returned"}
              /\ Goto("tick", [exec EXCEPT !.det = r.det])
              /\ NoFault /\ UNCHANGED <<session, pane>>
           \/ /\ r.event = "nudge"
              /\ Goto("tick", [exec EXCEPT !.det = [r.det EXCEPT !.nudged = TRUE]])
              /\ session' \in {session, [session EXCEPT ![Here] = IF @ = "ready" THEN "working" ELSE @]}
              /\ NoFault /\ UNCHANGED pane
           \/ /\ r.event = "completed"
              /\ Goto("done", [exec EXCEPT !.det = NewState])
              /\ Kill /\ pane' = "text"
           \/ /\ r.event \in {"failed", "timeout", "stuck"}
              /\ AttemptFails(ClassOf(r.event))
              /\ Kill /\ pane' = "text"
           \/ /\ r.event = "error"
              /\ \E class \in Classes : AttemptFails(class)
              /\ Kill /\ pane' = "text"
    /\ RunnerKeeps /\ UNCHANGED <<cp, blind>>

(* Succeeded: the retries of the group are forgotten.                      *)
GroupSucceeds ==
    /\ pc = "done"
    /\ GroupDone
    /\ RunnerKeeps /\ UNCHANGED <<world, faults, blind>>

Exhausted(attempts, class) == attempts >= MaxRetriesOf[class]

(* should_retry: the limit is that of the last error, the count that of    *)
(* all; what a retry waits for is left out.                                *)
RetryGroup ==
    /\ pc = "retry"
    /\ exec.class \notin Fatal /\ ~Exhausted(exec.attempts, exec.class)
    /\ Goto("flight", [exec EXCEPT !.attempts = @ + 1, !.class = None])
    /\ RunnerKeeps /\ UNCHANGED <<world, faults, blind>>

GroupFails ==
    /\ pc = "retry"
    /\ exec.class \in Fatal \/ Exhausted(exec.attempts, exec.class)
    /\ PlanEnds(IF exec.class \in Transient THEN "transient" ELSE "failed")
    /\ RunnerKeeps /\ UNCHANGED <<world, faults, blind>>

----------------------------------------------------------------------------
(* Rune, in any session that works, and the machine.                       *)
WorldOnly == UNCHANGED <<pc, queue, batch, disk, exec, faults, resumes, blind>>

(* The next status of an arc that resumes where its checkpoint is.         *)
ArcStep(c) ==
    LET running == First(With(c, "in_progress"))
        failed == First(With(c, "failed"))
        next == First(Actionable(c))
        set(p, statuses) == {[c EXCEPT !.status[p] = status] : status \in statuses}
    IN  CASE running # 0 -> set(running, {"completed", "failed"})
          [] running = 0 /\ failed # 0 -> set(failed, {"in_progress"})
          [] running = 0 /\ failed = 0 /\ next # 0 -> set(next, {"in_progress", "skipped"})
          [] OTHER -> {}

ArcAdvances(s) ==
    /\ session[s] = "working"
    /\ \E next \in ArcStep(cp[s[1]]) : cp' = [cp EXCEPT ![s[1]] = next]
    /\ UNCHANGED <<session, pane>> /\ WorldOnly

(* Which phases it will skip is known when it begins.                      *)
ArcPlans(s) ==
    /\ session[s] = "working" /\ cp[s[1]] = FreshCheckpoint
    /\ \E skipMap \in SkipMaps : cp' = [cp EXCEPT ![s[1]].skipMap = skipMap]
    /\ cp' # cp
    /\ UNCHANGED <<session, pane>> /\ WorldOnly

ArcStops(s) ==
    /\ session[s] = "working"
    /\ session' = [session EXCEPT ![s] = "ready"]
    /\ UNCHANGED <<cp, pane>> /\ WorldOnly

PaneChanges ==
    /\ pc = "tick" /\ session[Here] = "working"
    /\ pane' \in {"text", "error"} \ {pane}
    /\ UNCHANGED <<cp, session>> /\ WorldOnly

SessionDies(s) ==
    /\ session[s] # "absent"
    /\ session' = [session EXCEPT ![s] = "absent"]
    /\ UNCHANGED <<cp, pane>> /\ WorldOnly

----------------------------------------------------------------------------
Init ==
    /\ pc = "save"
    /\ batch = NewBatch /\ queue = Remaining(NewBatch)
    /\ disk = None
    /\ exec = NoExec
    /\ cp = [p \in Plans |-> None]
    /\ session = [s \in Plans \X GroupIds |-> "absent"]
    /\ pane = "text"
    /\ faults = 0 /\ resumes = 0 /\ blind = FALSE

Gw ==
    \/ SaveInitial \/ NextPlan \/ PlanRefused \/ RunAborts \/ SkipFirst \/ SkipRest
    \/ RecordAndSave \/ Finish \/ GwDies
    \/ LoadCheckpoint \/ WriteInitial \/ SkipGroup \/ EnterGroup \/ PreFlight \/ PreFlightBlind
    \/ ReadCheckpoint \/ WriteCheckpoint \/ BeforeSpawnErrs \/ Spawn \/ SpawnFails
    \/ PromptSeen \/ PromptTimeout \/ SendCommand \/ SessionCallErrs
    \/ Watch \/ GroupSucceeds \/ RetryGroup \/ GroupFails

World == PaneChanges \/ \E s \in Live : ArcAdvances(s) \/ ArcPlans(s) \/ ArcStops(s) \/ SessionDies(s)

Next == Gw \/ Resume \/ World

(* Weak fairness of gw, ENABLED written out: its thread is always in a     *)
(* call that returns.  A resume is the user's, progress is Rune's.         *)
GwSteps == pc' # pc \/ exec' # exec

Spec == Init /\ [][Next]_vars /\ ([]<>~Running \/ []<><<GwSteps>>_vars)

----------------------------------------------------------------------------
\* What the state file says is the outcome of every plan up to the index, each
\* once and in order, whatever gw dies of and however often it is resumed; and
\* a gw that runs is never behind it.
ResultsInOrder ==
    disk # None =>
       /\ disk.index = Len(disk.results)
       /\ \A i \in DOMAIN disk.results : disk.results[i].plan = i
       /\ batch # None => SubSeq(batch.results, 1, disk.index) = disk.results
       /\ batch # None =>
             Remaining(batch) = IF exec.plan = 0 THEN queue ELSE <<exec.plan>> \o queue

(* The failures since the last plan that passed.                           *)
LastFailures(results) ==
    LET passed == {i \in DOMAIN results : results[i].outcome = "passed"}
    IN  {i \in DOMAIN results : results[i].outcome = "failed" /\ \A j \in passed : j < i}

Broken(results) == MaxFailures > 0 /\ Cardinality(LastFailures(results)) >= MaxFailures

\* No plan runs after max_failures deterministic failures with no success in
\* between, in this gw or in the one it resumes, and none is skipped before.
BreakerHolds ==
    [][/\ exec.plan = 0 /\ exec'.plan # 0 => ~Broken(batch.results)
       /\ disk # None /\ disk' # disk =>
             \A i \in DOMAIN disk'.results \ DOMAIN disk.results :
                disk'.results[i].outcome = "skipped" => Broken(disk.results)]_vars

\* There are never more sessions than the budget allows, however many are left
\* behind by failing calls and deaths of gw, while tmux can list them.
BudgetHolds == blind \/ Cardinality(Live) <= MaxSessions

Rewritten(p) == {q \in Phases : cp[p] # None /\ cp'[p].status[q] # cp[p].status[q]}

\* Where gw rewrites a checkpoint it takes no phase back that Rune is done
\* with, and calls none completed that was never done, but for the phases of
\* groups skipped by their condition; unless a session it lost sight of
\* writes at the same time.
HandoffIsHonest ==
    [][pc = "write" /\ pc' = "spawn" /\ ~blind =>
          \A q \in Rewritten(exec.plan) :
             /\ cp[exec.plan].status[q] # "completed"
             /\ \/ DoneOrWillSkip(cp[exec.plan], q)
                \/ \E g \in GroupIds : q \in Groups[g] /\ SkipIf[g] \in Phases]_vars

\* A plan passes only if every phase of every group is done in its checkpoint,
\* or will be skipped, save for groups skipped by their condition.
PassedIsDone ==
    [][exec.result = None /\ exec'.result = "passed" =>
          \A g \in GroupIds, q \in Phases :
             q \in Groups[g] =>
                \/ q \in cp[exec.plan].skipMap
                \/ cp[exec.plan].status[q] \in {"completed", "skipped"}
                \/ SkipIf[g] \in Phases]_vars

\* Whatever sessions do, gw comes to an end.
EveryBatchEnds == <>~Running

=============================================================================

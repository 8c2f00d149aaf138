----------------------------- MODULE RunMonitor -----------------------------
(***************************************************************************)
(* One DaemonRunMonitor (src/daemon/run_monitor.rs): the task that watches *)
(* the tmux session of one run, asks for a kill when the session looks     *)
(* dead, withdraws it on a sign of life, and reports one outcome.          *)
(*                                                                         *)
(* A tick of `run' has two steps, because the files and the pane read in   *)
(* the first half may change before the decisions of the second: Observe   *)
(* (checks 1 to 12 of the loop) and Judge (checks 13 to 17).  Each check   *)
(* is an operator on the record of the struct's fields.                    *)
(***************************************************************************)
EXTENDS WatchedSession

(* check_signals.                                                          *)
CheckSignals(m) ==
    LET stopped == SeeCompletion(m)
    IN  SeePermission(IF "stopFailure" \in signals THEN Ask(stopped, "error") ELSE stopped)

(* check_session_alive: the verdict on a vanished session.                 *)
VanishedVerdict(m, cp) ==
    IF /\ Elapsed(m, "monitor") >= MinAge
       /\ IF cp # "none" THEN IsComplete(cp) /\ NearCompletion(cp)
          ELSE IsSet(m, "completion")
    THEN "completed" ELSE "crashed"

(* Mutant: the text counts whenever it is shown.                           *)
CheckPaneCompletion_TextOnly(m) ==
    IF world.pane = "complete" THEN GetOrInsert(m, "completion") ELSE m

(* check_pane_completion: the text counts only near the end.               *)
CheckPaneCompletion(m) ==
    IF world.pane = "complete" /\ m.pathKnown /\ NearCompletion(world.cp)
    THEN GetOrInsert(m, "completion") ELSE m

(* The keyword counts only on a pane that has not changed.                 *)
Classify(m) ==
    LET keyword == world.pane = "error" /\ Elapsed(m, "pane") >= Stall
    IN  IF Acts(m, keyword) THEN IF keyword THEN "keyword" ELSE "crash" ELSE "none"

(* evaluate_error_evidence: the same class, seen for Gate intervals.       *)
EvaluateErrorEvidence(m0) ==
    LET m == [m0 EXCEPT !.swarm = world.swarm]
        class == Classify(m)
    IN  IF class = "none" THEN [Clear(m, "confirm") EXCEPT !.errorClass = "none"]
        ELSE IF class # m.errorClass THEN [Now(m, "confirm") EXCEPT !.errorClass = class]
        ELSE IF Elapsed(m, "confirm") >= Gate THEN Ask(m, "error")
        ELSE m

(* check_completion_grace.                                                 *)
GraceOver(m) == Elapsed(m, "completion") >= CompletionGrace

(* poll_checkpoint: every checkpoint that can be read counts as checkpoint *)
(* activity; a new phase starts its own budget.                            *)
PollCheckpoint(m0, back) ==
    LET cp == ReadCheckpoint(m0)
        m  == Now(Discover(m0), "checkpoint")
        new == EffectivePhase(cp)
        entered == IF new = "none" THEN m ELSE Now(m, "phase")
        tracked == IF new = m.phase THEN m
                   ELSE [entered EXCEPT !.phase = new, !.nudges.idle = 0]
    IN  IF cp = "none" THEN m0 ELSE TrackGaps(tracked, cp, back)

(* poll_loop_state.                                                        *)
LoopVerdict(m) ==
    LET idle == Elapsed(m, "pane") >= IdleKill
        age  == Elapsed(m, "monitor")
        gone == Elapsed(m, "gone")
    IN  CASE world.loop = "active" -> "none"
          [] ~m.loopSeen /\ idle /\ world.loop = "inactive" /\ age > 2 * Warmup -> "error"
          [] ~m.loopSeen /\ idle /\ age >= Warmup
                /\ ~(world.loop = "inactive" /\ age > 2 * Warmup) -> "failed"
          [] m.loopSeen /\ world.loop = "inactive" /\ gone >= CompletionGrace
                /\ NearCompletion(ReadCheckpoint(m)) -> "completed"
          [] m.loopSeen /\ world.loop = "missing" /\ gone >= GoneGrace ->
                IF NearCompletion(ReadCheckpoint(m)) THEN "completed" ELSE "crashed"
          [] OTHER -> "none"

(* The Instant that poll_loop_state starts when the loop goes away; both   *)
(* ways of going away share it, and a refused deactivation restarts it.    *)
LoopTimers(m) ==
    LET active == [Clear(m, "gone") EXCEPT !.loopSeen = TRUE]
    IN  CASE world.loop = "active" ->
                IF "loop" \in fresh \/ ~m.loopSeen
                THEN Now(Now(active, "loop"), "pane") ELSE active
          [] world.loop # "active" /\ m.loopSeen -> GetOrInsert(m, "gone")
          [] OTHER -> m

RefuseDeactivation(m) ==
    IF world.loop = "inactive" /\ m.loopSeen /\ Elapsed(m, "gone") >= CompletionGrace
    THEN Clear(m, "gone") ELSE m

(* check_process_liveness.                                                 *)
ProcessTimer(m) ==
    IF world.claude THEN Clear(m, "process") ELSE GetOrInsert(m, "process")

ProcessGone(m) == Elapsed(m, "process") >= CompletionGrace

----------------------------------------------------------------------------
(* check_phase_timeout.                                                    *)
CheckPhaseTimeout(m) ==
    IF IsSet(m, "phase") /\ Elapsed(m, "phase") >= PhaseBudget
    THEN Ask(m, "timeout") ELSE m

(* check_idle, skipped by run in a transition or a failure.                *)
CheckIdle(m) ==
    LET idle == Elapsed(m, "pane")
    IN  CASE IsSet(m, "transition") \/ IsSet(m, "failed") -> m
          [] idle > IdleKill /\ ~Pending(m) -> Ask(m, "stuck")
          [] idle > IdleNudge * (m.nudges.idle + 1) /\ m.nudges.idle < 3 ->
                [m EXCEPT !.nudges.idle = @ + 1]
          [] OTHER -> m

(* Mutant: only the pane counts as a recovery.                             *)
HasRecovery_PaneOnly(m) == Elapsed(m, "pane") < Window

(* evaluate_kill_gate.                                                     *)
HasRecovery(m) ==
    \/ \E c \in {"pane", "checkpoint", "artifact", "loop"} : Elapsed(m, c) < Window
    \/ world.swarm
    \/ ~world.online

GateWithdraws(m) == Pending(m) /\ HasRecovery(m) /\ Elapsed(m, "gate") > Early

GateFires(m) == Pending(m) /\ ~GateWithdraws(m) /\ Elapsed(m, "gate") >= Gate

(* What a tick reads, for the history `seen': intervals since the last     *)
(* sign of life, since the loop file was last read active, since the       *)
(* process was last found alive; the probes that hung in a row; whether a  *)
(* tick skipped the gate of the standing request; and whether anything     *)
(* said that the pipeline is finished.                                     *)
Life(m, captured, polled) ==
    \/ captured /\ "pane" \in fresh
    \/ "permission" \in signals /\ "stopFailure" \notin signals
    \/ polled /\ "checkpoint" \in fresh /\ ReadCheckpoint(m) # "none"
    \/ polled /\ "artifacts" \in fresh /\ m.pathKnown
    \/ polled /\ world.loop = "active" /\ ("loop" \in fresh \/ ~m.loopSeen)

Observed(m, captured, polled) ==
    [idle |-> IF Life(m, captured, polled) THEN 0 ELSE Smaller(seen.idle + 1, Gate + 1),
     lost |-> IF polled /\ world.loop = "active" THEN 0
              ELSE Smaller(seen.lost + 1, GoneGrace),
     dead |-> IF polled /\ world.claude THEN 0 ELSE Smaller(seen.dead + 1, CompletionGrace),
     hung |-> IF world.session = "hung" THEN Smaller(seen.hung + 1, HungTicks) ELSE 0,
     absent |-> world.session = "absent",
     skipped |-> seen.skipped /\ Pending(mon),
     finished |-> seen.finished \/ "ended" \in signals
                  \/ NearCompletion(ReadCheckpoint(m))]

(* The first half of a tick.  Each disjunct is one way out of it: a        *)
(* verdict, an accepted prompt, or on to the second half.                  *)
AtSignals == Probe(CheckSignals(Aged(mon)))

Ready == pc = "wait" /\ verdict = "none"

Report(v, m) ==
    /\ verdict' = v
    /\ mon' = m
    /\ pc' = "wait"
    /\ UNCHANGED <<world, changes>>

(* run, when the CancellationToken wins the select!.                       *)
Cancelled ==
    /\ Ready
    /\ Report("cancelled", mon)
    /\ UNCHANGED <<fresh, signals, killed, seen>>

(* check_pipeline_timeout: ends the monitor and leaves the session alone.  *)
PipelineExpired ==
    /\ Ready
    /\ Elapsed(AtSignals, "run") >= PipelineTimeout
    /\ Report("timeout", CheckSignals(Aged(mon)))
    /\ TakeSignals
    /\ seen' = Observed(mon, FALSE, FALSE)
    /\ UNCHANGED <<fresh, killed>>

(* check_session_alive; reading the checkpoint may take more than 10 s.    *)
SessionVanished ==
    /\ Ready
    /\ Elapsed(AtSignals, "run") < PipelineTimeout
    /\ Vanished(AtSignals)
    /\ \E cp \in {"none", ReadCheckpoint(AtSignals)} :
          Report(VanishedVerdict(AtSignals, cp), AtSignals)
    /\ TakeSignals
    /\ seen' = Observed(AtSignals, FALSE, FALSE)
    /\ UNCHANGED <<fresh, killed>>

Watching ==
    Ready /\ Elapsed(AtSignals, "run") < PipelineTimeout /\ ~Vanished(AtSignals)

(* check_prompt_accept: Enter was sent, and `continue' skips the rest.     *)
PromptAccepted ==
    /\ Watching
    /\ world.session = "present"
    /\ world.pane = "prompt"
    /\ AtSignals.accepts < MaxAccepts
    /\ mon' = [PaneActivity(AtSignals) EXCEPT !.accepts = @ + 1]
    /\ seen' = [Observed(AtSignals, TRUE, FALSE) EXCEPT !.skipped = Pending(AtSignals)]
    /\ fresh' = fresh \ {"pane"}
    /\ TakeSignals
    /\ UNCHANGED <<world, changes, pc, verdict, killed>>

(* Steps 4 to 12; capture_pane may fail and skips what needs the pane.     *)
AfterPane(captured) ==
    IF captured
    THEN EvaluateErrorEvidence(CheckPaneCompletion(PaneActivity(AtSignals)))
    ELSE AtSignals

(* What is not read stays to be noticed.                                   *)
Unread(m, captured) ==
    fresh \ ((IF captured THEN {"pane"} ELSE {})
             \cup (IF world.loop = "active" THEN {"loop"} ELSE {})
             \cup (IF Discover(m).pathKnown THEN {"checkpoint", "artifacts"} ELSE {}))

(* Steps 6 to 12 on m, the state after the pane checks: the verdict, if    *)
(* any, and the state after the last check made.                           *)
ObserveFiles(m, back) ==
    LET loop == LoopTimers(PollCheckpoint(m, back))
        gone == LoopVerdict(loop)
        last == ProcessTimer(ScanArtifacts(RefuseDeactivation(loop)))
    IN  CASE GraceOver(m) -> [verdict |-> "completed", mon |-> m]
          [] ~GraceOver(m) /\ gone # "none" -> [verdict |-> gone, mon |-> loop]
          [] OTHER -> [verdict |-> IF ProcessGone(last) THEN "crashed" ELSE "none",
                       mon |-> last]

Observe ==
    /\ Watching
    /\ \E captured \in BOOLEAN, back \in Backdates :
          LET result == ObserveFiles(AfterPane(captured), back)
          IN  /\ captured => world.session = "present"
              /\ mon' = result.mon
              /\ verdict' = result.verdict
              /\ pc' = IF result.verdict = "none" THEN "judge" ELSE "wait"
              /\ seen' = Observed(AtSignals, captured, TRUE)
              /\ fresh' = Unread(AtSignals, captured)
    /\ TakeSignals
    /\ UNCHANGED <<world, changes, killed>>

(* The second half of a tick: checks 13 to 17.                             *)
Judged ==
    LET timed == CheckPhaseTimeout(mon)
        gaps  == Escalate(Escalate(timed, "transition", GapAt, TRUE), "failed", FailedAt, TRUE)
    IN  CheckIdle(gaps)

Judge ==
    /\ pc = "judge"
    /\ LET m == Judged
       IN  /\ ~GateFires(m)
           /\ mon' = IF GateWithdraws(m) THEN Disarm(m) ELSE GateNudges(m)
    /\ pc' = "wait"
    /\ UNCHANGED <<world, fresh, signals, changes, verdict, killed, seen>>

(* The gate fires: kill_session, whose failure is ignored, and the verdict *)
(* of the request.                                                         *)
Kill ==
    /\ pc = "judge"
    /\ GateFires(Judged)
    /\ killed' \in BOOLEAN
    /\ world' = [world EXCEPT !.session = IF killed' THEN "absent" ELSE @]
    /\ verdict' = Judged.pending.kind
    /\ mon' = Disarm(Judged)
    /\ pc' = "wait"
    /\ UNCHANGED <<fresh, signals, changes, seen>>

Tick == PipelineExpired \/ SessionVanished \/ PromptAccepted \/ Observe \/ Judge \/ Kill

----------------------------------------------------------------------------
Init ==
    /\ WorldInit
    /\ mon = NewMonitor(0)
    /\ pc = "wait"
    /\ verdict = "none"
    /\ killed = FALSE
    /\ seen = [idle |-> 0, lost |-> 0, dead |-> 0, hung |-> 0, absent |-> FALSE,
               skipped |-> FALSE, finished |-> FALSE]

Finished == verdict # "none" /\ UNCHANGED vars

Next == Cancelled \/ Tick \/ World \/ Finished

(* The interval ticks whatever the session does: weak fairness of Tick,    *)
(* with ENABLED Tick written as what it is, "no verdict yet".              *)
MonitorMoves == mon' # mon \/ pc' # pc

TickFairness == []<>(verdict # "none") \/ []<><<MonitorMoves>>_vars

Spec == Init /\ [][Next]_vars /\ TickFairness

----------------------------------------------------------------------------
\* The fields stay within the ages and counts the checks distinguish
\* (DaemonRunMonitor, run_monitor.rs:116).
TypeOK ==
    /\ world.session \in {"present", "absent", "hung"} /\ world.cp \in AllCheckpoints
    /\ mon.clock \in [Clocks -> Int]
    /\ \A c \in Clocks : mon.clock[c] \in Off .. Horizon[c]
    /\ mon.hung \in 0 .. HungTicks /\ mon.accepts \in 0 .. MaxAccepts
    /\ mon.pending.kind \in Kinds \cup {"none"}
    /\ Pending(mon) <=> IsSet(mon, "gate")
    /\ pc \in {"wait", "judge"} /\ verdict \in Verdicts \cup {"none"}

\* The gate kills a session only if no sign of life (pane, checkpoint,
\* artifacts, loop file, permission prompt) was read since the request was
\* made, however requests, recoveries and failed captures interleave
\* (evaluate_kill_gate: "fires only if silence persists for the full window").
\* The exception is a tick that ends with an accepted prompt: it skips the
\* gate, and what it saw may be too old when the gate is next evaluated.
KillAfterSilence ==
    [][~killed /\ killed' => seen.idle >= Gate \/ seen.skipped]_vars

\* "Completed" is never reported unless a tick has read a checkpoint near its
\* end or a stop signal: completion text in the pane, a loop file that goes
\* inactive or disappears, a vanished session do not suffice.  A run is
\* reported crashed only for a cause that has lasted: the session was found
\* gone, tmux hung for HungTicks probes in a row, the loop file was not active
\* for the whole grace, or the process was dead for the whole grace.
VerdictHasCause ==
    /\ verdict = "completed" => seen.finished
    /\ verdict = "crashed" => \/ seen.absent
                              \/ seen.hung >= HungTicks
                              \/ seen.lost >= GoneGrace
                              \/ seen.dead >= CompletionGrace

\* Whatever the session does, the monitor reports an outcome: every path that
\* postpones one (recovery, refused deactivation, accepted prompts) is bounded
\* by the pipeline timeout.
EventuallyVerdict == <>(verdict # "none")

(* The monitor implements its contract: requests are not replaced, only a  *)
(* standing request kills, and one verdict is final.                       *)
Contract == INSTANCE MonitorContract WITH
    Kinds   <- Kinds,
    Others  <- Verdicts,
    None    <- "none",
    request <- mon.pending.kind,
    verdict <- verdict,
    killed  <- killed

\* Every behaviour of the monitor is one of its contract.
ImplementsContract == Contract!Spec
=============================================================================

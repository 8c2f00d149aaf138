---------------------------- MODULE WatchedSession ----------------------------
(***************************************************************************)
(* What the two monitors of gw have in common: the tmux session of an arc  *)
(* with everything outside gw that changes it, the Instants and the kill   *)
(* request a monitor keeps (DaemonRunMonitor in src/daemon/run_monitor.rs, *)
(* the local variables of monitor_session in src/engine/single_session),   *)
(* and the helpers both call with the same meaning.                        *)
(*                                                                         *)
(* Time passes in poll intervals (POLL_INTERVAL_SECS): `clock' holds, for  *)
(* each Instant, the number of intervals since it was taken, up to the     *)
(* largest age a threshold distinguishes.                                  *)
(***************************************************************************)
EXTENDS Integers, FiniteSets

CONSTANTS
    Gate, Window, Early,         \* KILL_GATE_MIN, RECOVERY_WINDOW, the first 10 s
    CompletionGrace, GoneGrace,  \* COMPLETION_GRACE and LOOP_STATE_GONE_GRACE
    ConfirmMedium,               \* error_confirm_medium_secs, at least Gate
    MinAge,                      \* MIN_COMPLETION_AGE of the monitor
    HungTicks,                   \* UNREACHABLE_GRACE_TICKS
    IdleNudge, IdleKill,         \* of the phase profile and the watchdog
    PhaseBudget,                 \* effective_phase_timeout
    GapAt, FailedAt,             \* TRANSITION_ and FAILED_ NUDGE, WARN and KILL
    Stall, Warmup,               \* ERROR_STALL_THRESHOLD, loop_state_warmup
    PipelineTimeout,             \* pipeline_timeout
    MaxAccepts,                  \* MAX_AUTO_ACCEPTS
    Panes, Checkpoints, Loops, Signals, Sessions,  \* what the world may show
    Quiet,                       \* changes that may be seen: pane, artifacts, loop
    MaxChanges,                  \* how often the world changes (model bound)
    Backdates                    \* ages a transition may have when first seen

ASSUME TimesAssumption ==
    /\ {Gate, Window, Early, CompletionGrace, GoneGrace, ConfirmMedium, MinAge,
        HungTicks, IdleNudge, IdleKill, PhaseBudget, Stall, Warmup,
        PipelineTimeout, MaxAccepts, MaxChanges} \subseteq Nat
    /\ {GapAt, FailedAt} \subseteq [nudge : Nat, warn : Nat, kill : Nat]
    /\ Backdates \subseteq Nat
    /\ Early < Gate /\ Early < Window /\ 0 < HungTicks

VARIABLES
    world,      \* session, process, pane, checkpoint, loop file, swarm, network
    fresh,      \* which of pane, artifacts, loop differ from what was last read
    signals,    \* the files of .gw/signals (external)
    changes,    \* changes of the world so far
    mon,        \* the monitor's own state
    pc,         \* "wait" in select!, "judge" between the two halves of a tick
    verdict,    \* the outcome returned
    killed,     \* kill_session was called and tmux obeyed
    seen        \* what the ticks have observed so far (history)

vars == <<world, fresh, signals, changes, mon, pc, verdict, killed, seen>>

Off == -1

Smaller(a, b) == IF a < b THEN a ELSE b

Larger(a, b) == IF a < b THEN b ELSE a

(* The Instants and Option<Instant>s, each with the age beyond which no    *)
(* check distinguishes it.                                                 *)
Horizon ==
    [run        |-> PipelineTimeout,
     monitor    |-> Larger(MinAge, 2 * Warmup + 1),
     phase      |-> PhaseBudget,
     pane       |-> Larger(Larger(IdleKill + 1, Warmup), Larger(Stall, 3 * IdleNudge + 1)),
     checkpoint |-> Larger(Stall, Window),
     artifact   |-> Larger(Stall, Window),
     loop       |-> Window,
     confirm    |-> Larger(Gate, ConfirmMedium),
     gone       |-> Larger(CompletionGrace, GoneGrace),
     completion |-> CompletionGrace,
     transition |-> GapAt.kill + 1,
     failed     |-> FailedAt.kill + 1,
     process    |-> CompletionGrace,
     gate       |-> Gate]

Clocks == DOMAIN Horizon

NoRequest == [kind |-> "none", nudged |-> FALSE]

Kinds == {"stuck", "timeout", "error"}

Verdicts == Kinds \cup {"completed", "crashed", "failed", "cancelled"}

----------------------------------------------------------------------------
(* The checkpoint as phase_nav and Checkpoint read it.  "early" is a       *)
(* checkpoint whose merge phase is pre-set to skipped: is_complete() but   *)
(* not is_near_completion(), and its position is AllDone.                  *)
AllCheckpoints == {"none", "work1", "work2", "gap", "failing", "ship", "done", "early"}

NearCompletion(cp) == cp \in {"ship", "done"}

IsComplete(cp) == cp \in {"done", "early"}

IsTransitioning(cp) == cp = "gap"

HasFailure(cp) == cp = "failing"

EffectivePhase(cp) == IF cp \in {"none", "done", "early"} THEN "none" ELSE
                      IF cp \in {"gap", "failing"} THEN "work2" ELSE cp

----------------------------------------------------------------------------
(* Setting and reading Instants.                                           *)
Set(m, c, age) == [m EXCEPT !.clock[c] = Smaller(age, Horizon[c])]

Now(m, c) == Set(m, c, 0)

Clear(m, c) == [m EXCEPT !.clock[c] = Off]

GetOrInsert(m, c) == IF m.clock[c] = Off THEN Now(m, c) ELSE m

Elapsed(m, c) == m.clock[c]

IsSet(m, c) == m.clock[c] # Off

Pending(m) == m.pending # NoRequest

(* Mutant: a later request replaces the standing one.                      *)
Ask_Replaces(m, kind) ==
    [(IF Pending(m) THEN m ELSE Now(m, "gate"))
       EXCEPT !.pending = [kind |-> kind, nudged |-> FALSE]]

(* pending_kill = Some(..), only where it is None.                         *)
Ask(m, kind) ==
    IF Pending(m) THEN m
    ELSE [Now(m, "gate") EXCEPT !.pending = [kind |-> kind, nudged |-> FALSE]]

(* Mutant: a withdrawn request gives the run its whole budget again.       *)
Disarm_GivesTime(m) == [Now(Clear(m, "gate"), "run") EXCEPT !.pending = NoRequest]

Disarm(m) == [Clear(m, "gate") EXCEPT !.pending = NoRequest]

(* The state a monitor starts with, for a run that is `age' old.           *)
NewMonitor(age) ==
    [clock |-> [c \in Clocks |->
                  CASE c = "run" -> age
                    [] c \in {"monitor", "pane", "checkpoint", "artifact", "loop"} -> 0
                    [] OTHER -> Off],
     phase |-> "none", pathKnown |-> FALSE, snapshot |-> FALSE,
     loopSeen |-> FALSE, hung |-> 0, accepts |-> 0, errorClass |-> "none",
     nudges |-> [idle |-> 0, transition |-> 0, failed |-> 0],
     swarm |-> FALSE, pending |-> NoRequest]

----------------------------------------------------------------------------
(* The signal files.  session-stop.json ("turn": Claude ended a turn) says *)
(* nothing of completion, and the readers take session-end.json ("ended",  *)
(* written with is_complete) only where there is no session-stop.json.     *)
CompletionSignalled == "ended" \in signals /\ "turn" \notin signals

SeeCompletion(m) == IF CompletionSignalled THEN GetOrInsert(m, "completion") ELSE m

(* A permission prompt younger than 60 s counts as activity.               *)
SeePermission(m) ==
    IF "permission" \in signals /\ "stopFailure" \notin signals THEN Now(m, "pane") ELSE m

(* A stop failure, once read, takes every signal file with it.             *)
TakeSignals == signals' = IF "stopFailure" \in signals THEN {} ELSE signals

(* read_cached_checkpoint: through the cached path, or through the path in *)
(* an active loop file.                                                    *)
ReadCheckpoint(m) ==
    IF m.pathKnown \/ world.loop = "active" THEN world.cp ELSE "none"

Discover(m) == [m EXCEPT !.pathKnown = @ \/ ReadCheckpoint(m) # "none"]

(* Mutant: every hung probe is the first.                                  *)
Probe_Forgets(m) == [m EXCEPT !.hung = IF world.session = "hung" THEN 1 ELSE 0]

(* probe_session, and the hung probes in a row.                            *)
Probe(m) ==
    [m EXCEPT !.hung = IF world.session = "hung" THEN Smaller(@ + 1, HungTicks) ELSE 0]

Vanished(m) == world.session = "absent" \/ m.hung >= HungTicks

(* A new pane content.                                                     *)
PaneActivity(m) ==
    IF "pane" \in fresh THEN [Now(m, "pane") EXCEPT !.nudges.idle = 0] ELSE m

(* ErrorEvidence::confidence, in tenths, of a stalled or dead process.     *)
Confidence(m, keyword) ==
    LET alive == (IF keyword THEN 2 ELSE 0)
                 + (IF Elapsed(m, "pane") >= Stall THEN 3 ELSE 0)
                 + (IF Elapsed(m, "checkpoint") >= Stall THEN 3 ELSE -2)
                 - (IF Elapsed(m, "artifact") < Stall THEN 2 ELSE 0)
                 - (IF m.swarm THEN 3 ELSE 0)
    IN  IF world.claude THEN alive ELSE Larger(alive + 5, 5)

(* ErrorEvidence::classify: without a keyword only a dead process counts.  *)
Acts(m, keyword) == (keyword \/ ~world.claude) /\ Confidence(m, keyword) >= 5

(* The transition and failure timers of a checkpoint poll.  A gap may be   *)
(* backdated to the end of the last phase; a failure is not, because       *)
(* transition_gap_secs answers for a transition only.                      *)
TrackGaps(m, cp, back) ==
    LET noGap  == [Clear(m, "transition") EXCEPT !.nudges.transition = 0]
        noFail == [Clear(m, "failed") EXCEPT !.nudges.failed = 0]
    IN  CASE HasFailure(cp) -> IF IsSet(m, "failed") THEN noGap ELSE Now(noGap, "failed")
          [] IsTransitioning(cp) ->
                IF IsSet(m, "transition") THEN noFail ELSE Set(noFail, "transition", back)
          [] OTHER -> [Clear(noGap, "failed") EXCEPT !.nudges.failed = 0]

(* scan_artifacts: the first snapshot counts as a change.                  *)
ScanArtifacts(m) ==
    IF ~m.pathKnown THEN m
    ELSE [(IF "artifacts" \in fresh \/ ~m.snapshot THEN Now(m, "artifact") ELSE m)
            EXCEPT !.snapshot = TRUE]

(* Nudge, warn, ask: the escalation of a gap or of a failed phase.  With a *)
(* request pending the third step falls back to the second if `fallback'.  *)
Escalate(m, c, at, fallback) ==
    LET gap == Elapsed(m, c)
    IN  CASE ~IsSet(m, c) -> m
          [] gap > at.kill /\ ~Pending(m) -> Ask(m, "stuck")
          [] gap > at.kill /\ ~fallback -> m
          [] gap > at.warn /\ m.nudges[c] < 2 -> [m EXCEPT !.nudges[c] = 2]
          [] gap > at.nudge /\ m.nudges[c] < 1 -> [m EXCEPT !.nudges[c] = 1]
          [] OTHER -> m

GateNudges(m) ==
    IF Pending(m) /\ 2 * Elapsed(m, "gate") >= Gate
    THEN [m EXCEPT !.pending.nudged = TRUE] ELSE m

(* A tick is one interval after the last one.                              *)
Aged(m) ==
    [m EXCEPT !.clock = [c \in Clocks |-> IF m.clock[c] = Off THEN Off
                                          ELSE Smaller(m.clock[c] + 1, Horizon[c])]]

----------------------------------------------------------------------------
(* The world, which the monitor only reads: Claude Code in its tmux pane,  *)
(* Rune writing checkpoint, loop file and artifacts, the hooks writing     *)
(* signal files, teammates, the network.                                   *)
Change(w, what) ==
    /\ verdict = "none"
    /\ changes < MaxChanges
    /\ changes' = changes + 1
    /\ world' = w
    /\ fresh' = fresh \cup what
    /\ UNCHANGED <<signals, mon, pc, verdict, killed, seen>>

SessionChanges ==
    \E s \in Sessions :
       /\ world.session # "absent" /\ s # world.session
       /\ Change([world EXCEPT !.session = s], {})

ProcessDies == world.claude /\ Change([world EXCEPT !.claude = FALSE], {})

PaneChanges ==
    \E p \in Panes :
       /\ world.session = "present"
       /\ Change([world EXCEPT !.pane = p], {"pane"})

CheckpointChanges ==
    \E cp \in Checkpoints \ {world.cp} :
       Change([world EXCEPT !.cp = cp], {"checkpoint"})

(* The loop file may come back as it was, or with another iteration.       *)
LoopChanges ==
    \E l \in Loops, content \in {{}, {"loop"}} : Change([world EXCEPT !.loop = l], content)

QuietChanges ==
    \/ "artifacts" \in Quiet /\ Change(world, {"artifacts"})
    \/ "swarm" \in Quiet /\ Change([world EXCEPT !.swarm = ~@], {})
    \/ "network" \in Quiet /\ Change([world EXCEPT !.online = ~@], {})

SignalWritten ==
    \E s \in Signals \ signals :
       /\ s = "ended" => world.cp = "done" /\ world.loop = "active"
       /\ verdict = "none"
       /\ changes < MaxChanges
       /\ changes' = changes + 1
       /\ signals' = signals \cup {s}
       /\ UNCHANGED <<world, fresh, mon, pc, verdict, killed, seen>>

(* A permission is pending for 60 s and no longer.                         *)
PermissionExpires ==
    /\ "permission" \in signals /\ verdict = "none"
    /\ signals' = signals \ {"permission"}
    /\ UNCHANGED <<world, fresh, changes, mon, pc, verdict, killed, seen>>

World == \/ SessionChanges \/ ProcessDies \/ PaneChanges \/ CheckpointChanges
         \/ LoopChanges \/ QuietChanges \/ SignalWritten \/ PermissionExpires

(* A session just spawned, or one taken over at any point of its pipeline. *)
WorldInit ==
    /\ \E start \in {<<"none", "missing">>} \cup (Checkpoints \X {"active"}) :
          world = [session |-> "present", claude |-> TRUE, pane |-> "plain",
                   cp |-> start[1], loop |-> start[2], swarm |-> FALSE, online |-> TRUE]
    /\ fresh = {"pane", "checkpoint", "artifacts", "loop"}
    /\ signals = {}
    /\ changes = 0
=============================================================================

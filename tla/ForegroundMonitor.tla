--------------------------- MODULE ForegroundMonitor ---------------------------
(***************************************************************************)
(* monitor_session of the foreground engine                                *)
(* (src/engine/single_session/monitor.rs): the loop of `gw run' without a  *)
(* daemon.  It watches one session like DaemonRunMonitor does, and differs *)
(* in what ends a tick early (`continue'), in the order of its checks, and *)
(* in killing the session on four paths of its own beside the kill gate.   *)
(* What the two name alike and do differently begins with Fg here.         *)
(*                                                                         *)
(* A tick is one action.  The swarm is asked twice and the session, in the *)
(* completion grace, a second time; of these only the second probe may     *)
(* answer otherwise here (SessionExitsInGrace).                            *)
(***************************************************************************)
EXTENDS WatchedSession

CONSTANTS
    MinSession,     \* MIN_SESSION_DURATION_SECS
    PaneAge,        \* PANE_COMPLETION_MIN_ELAPSED_SECS
    Restless        \* signs of life the session may give for ever

ASSUME AgesAssumption == MinSession \in 0 .. MinAge /\ PaneAge \in 0 .. MinAge

Done(cp) == IsComplete(cp) /\ NearCompletion(cp)

----------------------------------------------------------------------------
(* The checks of a tick, in the order of the loop.                         *)

(* Signals and pipeline timeout; a stop failure of another Claude session  *)
(* is dropped, once the loop file has named the session.                   *)
AtProbe(own) ==
    LET signalled == SeeCompletion(Aged(mon))
        failed == IF "stopFailure" \in signals /\ own THEN Ask(signalled, "error")
                  ELSE signalled
        allowed == SeePermission(failed)
    IN  Probe(IF Elapsed(allowed, "run") >= PipelineTimeout THEN Ask(allowed, "timeout")
              ELSE allowed)

FgVanishedVerdict(m) ==
    IF /\ Elapsed(m, "monitor") >= MinSession
       /\ ~world.claude
       /\ Done(ReadCheckpoint(m))
    THEN "completed" ELSE "crashed"

(* The checkpoint: only a changed position counts as activity.             *)
FgPollCheckpoint(m0) ==
    LET cp  == ReadCheckpoint(m0)
        new == EffectivePhase(cp)
        complete == IF Done(cp) THEN GetOrInsert(Discover(m0), "completion") ELSE Discover(m0)
        active == IF "checkpoint" \in fresh THEN Now(complete, "checkpoint") ELSE complete
        entered == IF new \notin {"none", m0.phase}
                   THEN Clear(Now(active, "phase"), "transition") ELSE active
    IN  IF cp = "none" THEN m0 ELSE TrackGaps([entered EXCEPT !.phase = new], cp, 0)

(* There is a previous snapshot of the loop file unless it is gone.        *)
HasSnapshot(m) == m.loopSeen /\ ~IsSet(m, "gone")

TrackLoop(m) ==
    IF world.loop = "active"
    THEN LET back == Clear([m EXCEPT !.loopSeen = TRUE], "gone")
         IN  IF HasSnapshot(m) /\ "loop" \in fresh THEN Now(Now(back, "loop"), "pane") ELSE back
    ELSE IF m.loopSeen THEN GetOrInsert(m, "gone") ELSE m

(* Mutant: one failed read of the loop file is enough.                     *)
LoopGone_AtOnce(m) == world.loop # "active" /\ m.loopSeen

LoopGone(m) == world.loop # "active" /\ m.loopSeen /\ Elapsed(m, "gone") >= GoneGrace

LoopDeleted(m) ==
    /\ LoopGone(m) /\ world.loop = "missing"
    /\ ReadCheckpoint(m) # "none" /\ ~Done(ReadCheckpoint(m))

(* With the grace over and the file not deleted in mid-pipeline, the arc   *)
(* has ended; the age the code asks for here has passed with the grace.    *)
LoopEnded(m) == IF LoopGone(m) THEN GetOrInsert(m, "completion") ELSE m

(* The arc never started: no loop file, or the stale one of an earlier arc.*)
NeverStarted(m) ==
    /\ world.loop # "active" /\ ~m.loopSeen
    /\ Elapsed(m, "pane") >= Warmup
    /\ Elapsed(m, "monitor") > (IF world.loop = "missing" THEN Warmup ELSE 2 * Warmup)

PaneCompletion(m) ==
    IF /\ Elapsed(m, "monitor") >= PaneAge
       /\ world.pane = "complete"
       /\ NearCompletion(ReadCheckpoint(m))
    THEN GetOrInsert(Discover(m), "completion") ELSE m

(* ErrorEvidence; the hash the code compares has just been updated, so the *)
(* keyword counts on a moving pane as well.                                *)
Class(m) ==
    LET keyword == world.pane \in {"error", "fatal"}
    IN  IF ~Acts(m, keyword) THEN "none" ELSE IF keyword THEN world.pane ELSE "crash"

Confirmation(m) ==
    IF Confidence(m, world.pane \in {"error", "fatal"}) >= 8 THEN Gate ELSE ConfirmMedium

ClassChanged(m) == Class(m) # "none" /\ m.errorClass \notin {"none", Class(m)}

Confirm(m) ==
    LET class == Class(m)
        restarted == [Now(m, "confirm") EXCEPT !.errorClass = class]
    IN  CASE class = "none" -> [Clear(m, "confirm") EXCEPT !.errorClass = "none"]
          [] ClassChanged(m) -> IF class = "fatal" THEN Ask(restarted, "error") ELSE restarted
          [] class # "none" /\ m.errorClass = "none" -> restarted
          [] OTHER -> IF Elapsed(m, "confirm") >= Confirmation(m) THEN Ask(m, "error") ELSE m

(* Phase budget, gaps, idleness: each may ask, the first one wins.         *)
FgJudged(m) ==
    LET timed == IF IsSet(m, "phase") /\ Elapsed(m, "phase") >= PhaseBudget
                 THEN Ask(m, "stuck") ELSE m
        gaps  == Escalate(Escalate(timed, "transition", GapAt, FALSE), "failed", FailedAt, FALSE)
        idle  == Elapsed(gaps, "pane")
        asked == IF idle > IdleKill THEN Ask(gaps, "stuck") ELSE gaps
    IN  IF idle > IdleNudge * (asked.nudges.idle + 1) /\ asked.nudges.idle < 3
        THEN [asked EXCEPT !.nudges.idle = @ + 1] ELSE asked

FgHasRecovery(m) ==
    \/ \E c \in {"pane", "checkpoint", "artifact", "loop"} : Elapsed(m, c) < Window
    \/ world.swarm

FgGateWithdraws(m) == Pending(m) /\ FgHasRecovery(m) /\ Elapsed(m, "gate") > Early

FgGateFires(m) == Pending(m) /\ ~FgGateWithdraws(m) /\ Elapsed(m, "gate") >= Gate

AfterGate(m) == IF FgGateWithdraws(m) THEN Disarm(m) ELSE GateNudges(m)

----------------------------------------------------------------------------
(* What a tick reads, for the history `seen': ticks since the last sign of *)
(* life, since the loop file was last read active, and since something     *)
(* first said that the arc has ended; and whether a tick with a standing   *)
(* request ended before the gate.                                          *)
FgLife(m, captured, polled) ==
    \/ captured /\ "pane" \in fresh
    \/ "permission" \in signals /\ "stopFailure" \notin signals
    \/ polled /\ "checkpoint" \in fresh /\ ReadCheckpoint(m) # "none"
    \/ polled /\ "artifacts" \in fresh /\ Discover(m).pathKnown
    \/ polled /\ world.loop = "active" /\ HasSnapshot(mon) /\ "loop" \in fresh

SaysEnded(m, lost) ==
    \/ CompletionSignalled
    \/ NearCompletion(ReadCheckpoint(m))
    \/ m.loopSeen /\ lost >= GoneGrace

FgObserved(m, captured, polled, skips) ==
    LET lost == IF polled /\ world.loop = "active" THEN 0
                ELSE Smaller(seen.lost + 1, GoneGrace)
    IN  [idle |-> IF FgLife(m, captured, polled) THEN 0
                  ELSE Smaller(seen.idle + 1, Larger(Gate, Warmup) + 2),
         lost |-> lost,
         ended |-> IF seen.ended # Off THEN Smaller(seen.ended + 1, CompletionGrace)
                   ELSE IF SaysEnded(m, lost) THEN 0 ELSE Off,
         skipped |-> (seen.skipped \/ skips) /\ Pending(m)]

FgWatching == verdict = "none"

(* `pc' alternates, so that a tick that changes nothing is still a step.   *)
NextTick == pc' = IF pc = "tick" THEN "tock" ELSE "tick"

(* The read of the pane, after which it is no news, and of the files.      *)
FgUnread(m, polled) ==
    fresh \ ({"pane"} \cup (IF polled /\ world.loop = "active" THEN {"loop"} ELSE {})
             \cup (IF polled /\ Discover(m).pathKnown THEN {"checkpoint", "artifacts"} ELSE {}))

(* `continue': the tick ends before the gate.                              *)
Skip(m, captured, polled) ==
    /\ mon' = m
    /\ seen' = FgObserved(m, captured, polled, TRUE)
    /\ fresh' = IF captured THEN FgUnread(m, polled) ELSE fresh
    /\ TakeSignals /\ NextTick
    /\ UNCHANGED <<world, changes, verdict, killed>>

(* The loop returns v; with `kills' the session goes first, unless tmux    *)
(* refuses: kill_session reports no failure, so its `?' never takes effect.*)
Return(v, m, polled, kills) ==
    /\ killed' \in {FALSE, kills}
    /\ verdict' = v
    /\ world' = [world EXCEPT !.session = IF killed' THEN "absent" ELSE @]
    /\ mon' = m
    /\ seen' = FgObserved(m, polled, polled, FALSE)
    /\ fresh' = IF polled THEN FgUnread(m, polled) ELSE fresh
    /\ TakeSignals /\ NextTick
    /\ UNCHANGED changes

(* A stop failure of a foreign session can be told from an own one only    *)
(* when the loop file has been seen.                                       *)
Owners == IF "stopFailure" \in signals /\ mon.loopSeen THEN BOOLEAN ELSE {TRUE}

TmuxHangs ==
    /\ FgWatching
    /\ world.session = "hung"
    /\ \E own \in Owners :
          AtProbe(own).hung < HungTicks /\ Skip(AtProbe(own), FALSE, FALSE)

FgSessionVanished ==
    /\ FgWatching
    /\ \E own \in Owners :
          /\ Vanished(AtProbe(own))
          /\ Return(FgVanishedVerdict(AtProbe(own)), AtProbe(own), FALSE, FALSE)

(* capture_pane fails; the loop counts no failures, so it may for ever.    *)
CaptureFails ==
    /\ FgWatching
    /\ world.session = "present"
    /\ Skip(AtProbe(TRUE), FALSE, FALSE)

FgPromptAccepted ==
    /\ FgWatching
    /\ world.session = "present" /\ world.pane = "prompt"
    /\ mon.accepts < MaxAccepts
    /\ \E own \in Owners :
          Skip([Now(AtProbe(own), "pane") EXCEPT !.accepts = @ + 1], TRUE, FALSE)

AtPane(own) == PaneActivity(AtProbe(own))

CompletionGraceOver ==
    /\ FgWatching
    /\ world.session = "present"
    /\ \E own \in Owners :
          /\ Elapsed(AtPane(own), "completion") >= CompletionGrace
          /\ Return("completed", AtPane(own), FALSE, TRUE)

InGrace(m) == IsSet(m, "completion") /\ Elapsed(m, "completion") < CompletionGrace

WaitsInGrace ==
    /\ FgWatching
    /\ world.session = "present"
    /\ \E own \in Owners : InGrace(AtPane(own)) /\ Skip(AtPane(own), TRUE, FALSE)

(* The session goes between the two probes of one tick.                    *)
SessionExitsInGrace ==
    /\ FgWatching
    /\ world.session = "present"
    /\ changes < MaxChanges
    /\ changes' = changes + 1
    /\ InGrace(AtPane(TRUE))
    /\ world' = [world EXCEPT !.session = "absent"]
    /\ verdict' = "completed"
    /\ mon' = AtPane(TRUE)
    /\ seen' = FgObserved(AtPane(TRUE), TRUE, FALSE, FALSE)
    /\ fresh' = fresh \ {"pane"}
    /\ TakeSignals /\ NextTick
    /\ UNCHANGED killed

AtLoop(own) == TrackLoop(FgPollCheckpoint(AtPane(own)))

Polling(own) ==
    FgWatching /\ world.session = "present" /\ ~IsSet(AtPane(own), "completion")

LoopFileDeleted ==
    \E own \in Owners :
       /\ Polling(own)
       /\ LoopDeleted(AtLoop(own))
       /\ Return("crashed", AtLoop(own), TRUE, TRUE)

BootstrapFailed ==
    \E own \in Owners :
       /\ Polling(own)
       /\ NeverStarted(AtLoop(own))
       /\ Return("failed", AtLoop(own), TRUE, TRUE)

AtEvidence(own) ==
    [PaneCompletion(ScanArtifacts(LoopEnded(AtLoop(own)))) EXCEPT !.swarm = world.swarm]

Going(own) == Polling(own) /\ ~LoopDeleted(AtLoop(own)) /\ ~NeverStarted(AtLoop(own))

(* A new class of error, or a dead process, ends the tick.  The process    *)
(* timer is cleared by every tick that finds the session, so the grace the *)
(* code gives a dead process never ends and the code after it is not run.  *)
EvidenceSkips ==
    \E own \in Owners :
       /\ Going(own)
       /\ ClassChanged(AtEvidence(own)) \/ ~world.claude
       /\ Skip(Confirm(AtEvidence(own)), TRUE, TRUE)

AtGate(own) == FgJudged(Confirm(AtEvidence(own)))

Reaching(own) == Going(own) /\ ~ClassChanged(AtEvidence(own)) /\ world.claude

Watch ==
    \E own \in Owners :
       /\ Reaching(own)
       /\ ~FgGateFires(AtGate(own))
       /\ mon' = AfterGate(AtGate(own))
       /\ seen' = [FgObserved(AtLoop(own), TRUE, TRUE, FALSE) EXCEPT
                     !.skipped = seen.skipped /\ Pending(mon')]
       /\ fresh' = FgUnread(AtLoop(own), TRUE)
       /\ TakeSignals /\ NextTick
       /\ UNCHANGED <<world, changes, verdict, killed>>

FgKill ==
    \E own \in Owners :
       /\ Reaching(own)
       /\ FgGateFires(AtGate(own))
       /\ Return(AtGate(own).pending.kind, AtGate(own), TRUE, TRUE)

FgTick ==
    \/ TmuxHangs \/ FgSessionVanished \/ CaptureFails \/ FgPromptAccepted
    \/ CompletionGraceOver \/ WaitsInGrace \/ SessionExitsInGrace
    \/ LoopFileDeleted \/ BootstrapFailed \/ EvidenceSkips \/ Watch \/ FgKill

(* A session at work shows it as often as it likes: it draws on its pane,  *)
(* writes artifacts or the next iteration of its loop file, asks for       *)
(* another permission, and its teammates come and go.  MaxChanges bounds   *)
(* none of this.                                                           *)
SignOfLife ==
    /\ FgWatching
    /\ world.session = "present"
    /\ \E sign \in Restless :
          /\ fresh' = fresh \cup ({sign} \cap {"pane", "artifacts", "loop"})
          /\ signals' = signals \cup ({sign} \cap {"permission"})
          /\ world' = [world EXCEPT !.swarm = IF sign = "swarm" THEN ~@ ELSE @]
    /\ UNCHANGED <<changes, mon, pc, verdict, killed, seen>>

FgInit ==
    /\ WorldInit
    /\ mon = NewMonitor(0)
    /\ pc = "tick"
    /\ verdict = "none"
    /\ killed = FALSE
    /\ seen = [idle |-> 0, lost |-> 0, ended |-> Off, skipped |-> FALSE]

FgFinished == verdict # "none" /\ UNCHANGED vars

FgNext == FgTick \/ World \/ SignOfLife \/ FgFinished

(* The loop sleeps and polls, whatever the session does: weak fairness of  *)
(* Tick, with ENABLED Tick written as what it is, "no verdict yet".  A     *)
(* permission file counts for 60 s only.                                   *)
FgTickFairness == []<>(verdict # "none") \/ []<><<pc' # pc>>_vars

FgSpec == FgInit /\ [][FgNext]_vars /\ FgTickFairness /\ WF_vars(PermissionExpires)

----------------------------------------------------------------------------
\* "GW must NEVER kill a session instantly" (monitor.rs:192): whichever of the
\* five paths kills, its reason has lasted.  The gate: no sign of life for the
\* whole gate, except behind ticks that ended before it; completion: something
\* said so a whole grace ago; deletion of the loop file: it was not active for
\* the whole grace; bootstrap: no loop file was ever seen and nothing moved.
\* And a run is reported completed, killed or not, only if a tick has read a
\* completion signal, a checkpoint near its end, or no active loop file.
EndCause ==
    /\ verdict' = "completed" => seen'.ended # Off
    /\ ~killed /\ killed' =>
          /\ verdict' \in Kinds => seen'.idle >= Gate \/ seen.skipped
          /\ verdict' = "completed" => seen'.ended >= CompletionGrace
          /\ verdict' = "crashed" => seen'.lost >= GoneGrace
          /\ verdict' = "failed" => ~mon.loopSeen /\ seen'.idle >= Warmup

\* Every step of the loop, and of the world it watches, is like that.
EndHasCause == [][EndCause]_vars

\* The monitor ends, except as long as one of these lasts: captures of the
\* pane keep failing; or, with no completion detected, the process is dead in
\* a session that stays, teammates keep working, or the session is never
\* silent for a gate and the two polls around it.  There every request to
\* kill, the pipeline timeout's included, is withdrawn or not reached
\* (monitor.rs:1682-1709).  A detected completion ends the run whatever else
\* the session does.
EventuallyEnds ==
    \/ <>(verdict # "none")
    \/ []<><<CaptureFails>>_vars
    \/ /\ <>[]~IsSet(mon, "completion")
       /\ <>[]~world.claude \/ []<>world.swarm \/ <>[](seen.idle < Gate + 2)
=============================================================================

--------------------------- MODULE CompletionDetector ---------------------------
(***************************************************************************)
(* CompletionDetector (src/engine/completion.rs): what one poll of a phase *)
(* group makes of the pane and of the checkpoint, with the error evidence  *)
(* of src/engine/retry.rs.                                                 *)
(*                                                                         *)
(* Time is counted in polls; an Instant is its age, up to the largest age  *)
(* a threshold distinguishes.                                              *)
(***************************************************************************)
EXTENDS Checkpoint, Integers

CONSTANTS
    PromptGrace, Stall, IdleNudge, IdleKill,  \* prompt_grace_period, ERROR_STALL_THRESHOLD, idle_*_after
    PhaseTimeout                              \* phase_timeout of the group

ASSUME DetectorTimes ==
    /\ {PromptGrace, Stall, IdleNudge, IdleKill, PhaseTimeout} \subseteq Nat
    /\ IdleNudge < IdleKill

(* A pane is its last line: text, the prompt, an error                    *)
(* keyword, or what capture_pane returns when the session is gone.         *)
Panes == {"text", "prompt", "error", "blank"}

NotSeen == "not seen"

(* A checkpoint read is a set: empty when Rune is writing the file.        *)
Unreadable == {}

Off == PhaseTimeout + PromptGrace + 2

NewState ==
    [elapsed |-> 0, pane |-> NotSeen, idle |-> 0, nudged |-> FALSE, prompt |-> Off,
     statuses |-> {}, stale |-> 0]

Capped(age, limit) == IF age > limit THEN limit ELSE age

(* One poll interval later.                                                *)
Later(det) ==
    [det EXCEPT !.elapsed = Capped(@ + 1, PhaseTimeout + 1),
                !.idle = Capped(@ + 1, IdleKill + 1),
                !.prompt = IF @ = Off THEN Off ELSE Capped(@ + 1, PromptGrace + 1),
                !.stale = Capped(@ + 1, Stall)]

----------------------------------------------------------------------------
GroupStatuses(view, group) == {[p \in group |-> cp.status[p]] : cp \in view}

(* Mutant: a phase that failed counts as finished.                         *)
IsGroupComplete_Settled(view, group) ==
    \E cp \in view : \A p \in group : cp.status[p] \in {"completed", "skipped", "failed"}

IsGroupComplete(view, group) ==
    \E cp \in view : \A p \in group : cp.status[p] \in {"completed", "skipped"}

HasFailedPhase(view, group) ==
    \E cp \in view : \E p \in group : cp.status[p] = "failed"

(* Mutant: the phase timeout counts from the last change, too.             *)
SeePane_NewClock(det, pane) ==
    IF pane = det.pane THEN det
    ELSE [det EXCEPT !.pane = pane, !.idle = 0, !.nudged = FALSE, !.prompt = Off, !.elapsed = 0]

(* Signal 1.                                                               *)
SeePane(det, pane) ==
    IF pane = det.pane THEN det
    ELSE [det EXCEPT !.pane = pane, !.idle = 0, !.nudged = FALSE, !.prompt = Off]

(* Signal 2, when the group is neither complete nor failed.                *)
SeeCheckpoint(det, view, group) ==
    IF GroupStatuses(view, group) \subseteq det.statuses THEN det
    ELSE [det EXCEPT !.statuses = GroupStatuses(view, group), !.stale = 0]

(* Signal 3.                                                               *)
SeePrompt(det) ==
    IF det.pane = "prompt" /\ det.prompt = Off THEN [det EXCEPT !.prompt = 0] ELSE det

(* confidence() in tenths, of a process taken to be alive.                 *)
Confidence(det) ==
    (IF det.pane = "error" THEN 2 ELSE 0)
      + (IF det.idle >= Stall THEN 3 ELSE 0)
      + (IF det.stale >= Stall THEN 3 ELSE -2)

ShouldAct(det) == det.pane = "error" /\ Confidence(det) >= 5

(* tick(): the new state and the event.  The order of the tests is the     *)
(* code's: nothing after a prompt's grace period is looked at any more.    *)
Tick(before, pane, view, group) ==
    LET changed == pane # before.pane
        seen == SeePane(before, pane)
        det == SeePrompt(SeeCheckpoint(seen, view, group))
        result(state, event) == [det |-> state, event |-> event]
    IN  IF before.elapsed > PhaseTimeout THEN result(before, "timeout")
        ELSE IF IsGroupComplete(view, group) THEN result(seen, "completed")
        ELSE IF HasFailedPhase(view, group) THEN result(seen, "failed")
        ELSE IF det.prompt # Off /\ det.prompt > PromptGrace THEN result(det, "prompt_returned")
        ELSE IF ~changed /\ ShouldAct(det) THEN result(det, "error")
        ELSE IF ~changed /\ det.idle > IdleKill THEN result(det, "stuck")
        ELSE IF ~changed /\ det.idle > IdleNudge /\ ~det.nudged THEN result(det, "nudge")
        ELSE result(det, "running")
=============================================================================

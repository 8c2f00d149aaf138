------------------------------- MODULE Checkpoint -------------------------------
(***************************************************************************)
(* What gw reads out of Rune's checkpoint.json                             *)
(* (src/checkpoint/schema.rs, src/monitor/phase_nav.rs): where the arc is, *)
(* whether it is complete, whether it is nearly so.                        *)
(*                                                                         *)
(* A phase is its index in PHASE_ORDER, 0 stands for no phase, and         *)
(* "absent" for a phase that is not in the `phases' map.                   *)
(***************************************************************************)
EXTENDS Naturals, FiniteSetsExt

CONSTANTS
    PhaseCount,     \* PHASE_COUNT; the last phase is `merge'
    Ship            \* phase_index("ship")

ASSUME PhaseAssumption == {PhaseCount, Ship} \subseteq Nat \ {0} /\ Ship <= PhaseCount

Phases == 1 .. PhaseCount

Statuses == {"absent", "pending", "in_progress", "completed", "failed", "skipped", "cancelled"}

(* status of every phase, completed_at, and skip_map.                      *)
Checkpoints ==
    [status : [Phases -> Statuses], finished : BOOLEAN, skipMap : SUBSET Phases]

First(S) == IF S = {} THEN 0 ELSE Min(S)

Last(S) == IF S = {} THEN 0 ELSE Max(S)

With(cp, s) == {p \in Phases : cp.status[p] = s}

InMap(cp) == Phases \ With(cp, "absent")

----------------------------------------------------------------------------
IsTerminalPhaseCompleted(cp) == cp.status[PhaseCount] \in {"completed", "skipped"}

IsComplete(cp) ==
    \/ cp.finished
    \/ IsTerminalPhaseCompleted(cp)
    \/ InMap(cp) # {} /\ InMap(cp) \subseteq With(cp, "completed") \cup With(cp, "skipped")

(* A pending phase Rune will not skip when it gets there.                  *)
Actionable(cp) == With(cp, "pending") \ cp.skipMap

NextActionableAfter(cp, p) == First({q \in Actionable(cp) : q > p})

(* infer_phase_position: Running, Failed, Transitioning, WaitingToStart,   *)
(* AllDone or Unknown, with the phase concerned and the next one.          *)
Position(cp) ==
    LET running == First(With(cp, "in_progress"))
        failed  == First(With(cp, "failed"))
        last    == Last(With(cp, "completed"))
        next    == NextActionableAfter(cp, last)
        at(kind, phase, after) == [kind |-> kind, phase |-> phase, next |-> after]
    IN  CASE InMap(cp) = {} -> at("unknown", 0, 0)
          [] InMap(cp) # {} /\ IsComplete(cp) -> at("all_done", 0, 0)
          [] InMap(cp) # {} /\ ~IsComplete(cp) /\ running # 0 ->
                at("running", running, NextActionableAfter(cp, running))
          [] InMap(cp) # {} /\ ~IsComplete(cp) /\ running = 0 /\ failed # 0 ->
                at("failed", failed, First(Actionable(cp)))
          [] OTHER ->
                IF last # 0 THEN at("transitioning", last, next)
                ELSE IF next # 0 THEN at("waiting", 0, next) ELSE at("unknown", 0, 0)

EffectivePhase(cp) ==
    LET pos == Position(cp)
    IN  IF pos.kind \in {"running", "failed"} THEN pos.phase ELSE pos.next

IsNearCompletion(cp) ==
    \/ cp.finished
    \/ cp.status[PhaseCount] = "completed"
    \/ /\ InMap(cp) # {}
       /\ \A p \in InMap(cp) : cp.status[p] \in {"completed", "skipped", "cancelled"}
    \/ EffectivePhase(cp) >= Ship

HasProgress(cp) ==
    \E p \in Phases : cp.status[p] \in {"completed", "in_progress", "skipped"}
=============================================================================

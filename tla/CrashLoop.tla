------------------------------- MODULE CrashLoop -------------------------------
(***************************************************************************)
(* CrashLoopDetector (src/engine/crash_loop.rs): a sliding window of       *)
(* crashes, a lifetime total, a budget per phase, and the history file     *)
(* that carries them from one gw process to the next.                      *)
(*                                                                         *)
(* An Instant or an epoch is its age.  Phase 0 is "no phase given".        *)
(***************************************************************************)
EXTENDS Integers, Sequences, FiniteSets

CONSTANTS
    MaxCrashes, Window, Stability,  \* max_crashes, window, stability_period
    MaxTotal,                       \* max_total_restarts
    MaxPerPhase,                    \* DEFAULT_MAX_CRASHES_PER_PHASE
    PhaseNames                      \* phases a crash may be attributed to

ASSUME DetectorAssumption ==
    /\ {MaxCrashes, Window, Stability, MaxTotal, MaxPerPhase} \subseteq Nat \ {0}
    /\ MaxCrashes <= MaxTotal
    /\ 0 \notin PhaseNames

Never == -1

NewDetector ==
    [crashes |-> <<>>, total |-> 0, healthy |-> Never,
     perPhase |-> [p \in PhaseNames |-> 0], last |-> 0]

(* d time units pass.  No check tells ages past their threshold apart.     *)
Older(age, d, limit) ==
    IF age = Never THEN Never ELSE IF age + d > limit THEN limit ELSE age + d

Later(ages, d) == [i \in DOMAIN ages |-> Older(ages[i], d, Window + 1)]

Elapse(det, d) ==
    [det EXCEPT !.crashes = Later(@, d), !.healthy = Older(@, d, Stability)]

(* Those no older than the limit.  Crashes are in order of time: the code  *)
(* drops the old ones from the front.                                      *)
Within(ages, limit) ==
    LET old == {i \in DOMAIN ages : \A j \in 1 .. i : ages[j] > limit}
    IN  SubSeq(ages, Cardinality(old) + 1, Len(ages))

(* Mutant: a crash is counted in the total only.                           *)
Recorded_TotalOnly(det, phase) == [det EXCEPT !.total = @ + 1, !.healthy = Never]

(* record_restart_for_phase: a crash in another phase than the last one    *)
(* gives every phase its budget back.                                      *)
Recorded(det, phase) ==
    LET moved == phase # 0 /\ det.last \notin {0, phase}
        counts == IF moved THEN [p \in PhaseNames |-> 0] ELSE det.perPhase
    IN  [crashes |-> Within(Append(det.crashes, 0), Window),
         total |-> det.total + 1,
         healthy |-> Never,
         perPhase |-> [p \in PhaseNames |-> counts[p] + (IF p = phase THEN 1 ELSE 0)],
         last |-> IF phase = 0 THEN det.last ELSE phase]

(* StopCrashLoop, from what has been recorded.                             *)
Stops(det, phase) ==
    \/ det.total >= MaxTotal
    \/ phase # 0 /\ det.perPhase[phase] > MaxPerPhase
    \/ Len(det.crashes) >= MaxCrashes

(* Mutant: every tick is worth a stable period.                            *)
HealthyTick_AtOnce(det) == [NewDetector EXCEPT !.healthy = 0, !.last = det.last]

(* record_healthy_tick: the first tick only starts the healthy period.     *)
HealthyTick(det) ==
    CASE det.healthy = Never -> [det EXCEPT !.healthy = 0]
      [] det.healthy >= Stability -> [NewDetector EXCEPT !.healthy = 0, !.last = det.last]
      [] OTHER -> det

(* persist and load_history: the phase of the last crash is not kept, and  *)
(* a crash as old as the window, which the detector counts, is dropped.    *)
Load(file) ==
    IF file = <<>> THEN NewDetector
    ELSE [file[1] EXCEPT
            !.crashes = Within(@, Window - 1),
            !.healthy = IF @ < Stability THEN @ ELSE Never,
            !.last = 0]

Persist(det) == <<[det EXCEPT !.last = 0]>>
=============================================================================

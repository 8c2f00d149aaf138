--------------------------- MODULE PhaseBatch_proofs ---------------------------
(***************************************************************************)
(* The safety properties of PhaseBatch, for any number of plans, any phase *)
(* groups, any limits and error classes, and any number of faults and      *)
(* resumes; the last, HandoffIsHonest, for the default session budget and  *)
(* groups in order.                                                        *)
(***************************************************************************)
EXTENDS PhaseBatch, FiniteSetTheorems, WellFoundedInduction, TLAPS

(* Where gw is while the PhaseGroupExecutor runs a plan.                   *)
Executing ==
    {"load", "init", "group", "flight", "read", "write", "spawn", "prompt", "send", "tick",
     "done", "retry"}

ExecutorStep ==
    \/ LoadCheckpoint \/ WriteInitial \/ SkipGroup \/ EnterGroup \/ PreFlight \/ PreFlightBlind
    \/ ReadCheckpoint \/ WriteCheckpoint \/ BeforeSpawnErrs \/ Spawn \/ SpawnFails
    \/ PromptSeen \/ PromptTimeout \/ SendCommand \/ SessionCallErrs
    \/ Watch \/ GroupSucceeds \/ RetryGroup \/ GroupFails

RunnerStep ==
    \/ SaveInitial \/ NextPlan \/ PlanRefused \/ RunAborts \/ SkipFirst \/ SkipRest
    \/ RecordAndSave \/ Finish \/ GwDies \/ Resume

(* As much of the types of the executor's locals as the proofs use.        *)
ExecOK ==
    /\ DOMAIN exec = {"plan", "group", "attempts", "class", "result", "copy", "det"}
    /\ exec.plan \in 0 .. PlanCount
    /\ exec.group \in GroupIds
    /\ pc # "record" => exec.result = None

----------------------------------------------------------------------------
(* There is a first group.                                                 *)
LEMMA GroupIdsFacts == GroupIds = 1 .. Len(Groups) /\ Len(Groups) \in Nat /\ 1 \in GroupIds
BY ValidConfig DEF ValidConfig, GroupIds

(* The locals of the executor when it runs no plan.                        *)
LEMMA NoExecFacts ==
  /\ DOMAIN NoExec = {"plan", "group", "attempts", "class", "result", "copy", "det"}
  /\ NoExec.plan = 0 /\ NoExec.group = 1 /\ NoExec.result = None
BY DEF NoExec

(* What the executor does leaves the queue and the state of the batch      *)
(* alone, stays with its plan, and ends in one of three results.           *)
LEMMA ExecutorFrame ==
  ASSUME ExecOK, ExecutorStep
  PROVE  /\ pc \in Executing /\ pc' \in Executing \cup {"record"}
         /\ queue' = queue /\ batch' = batch /\ disk' = disk
         /\ ExecOK' /\ exec'.plan = exec.plan
         /\ pc' = "record" => exec'.result \in {"passed", "failed", "transient"}
<1> USE GroupIdsFacts, NoExecFacts DEF ExecOK, Executing
<1> DEFINE Framed ==
         /\ pc \in Executing /\ pc' \in Executing \cup {"record"}
         /\ queue' = queue /\ batch' = batch /\ disk' = disk
         /\ ExecOK' /\ exec'.plan = exec.plan
         /\ pc' = "record" => exec'.result \in {"passed", "failed", "transient"}
<1> SUFFICES Framed
  OBVIOUS
<1>1. ASSUME NEW result \in {"passed", "failed", "transient"}, PlanEnds(result),
             pc \in Executing, RunnerKeeps
      PROVE  Framed
  BY <1>1 DEF PlanEnds, Goto, RunnerKeeps
<1>2. ASSUME PlanErrs, pc \in Executing, RunnerKeeps
      PROVE  Framed
  BY <1>1, <1>2 DEF PlanErrs
<1>3. ASSUME GroupDone, pc \in Executing, RunnerKeeps
      PROVE  Framed
  <2>1. CASE exec.group = Len(Groups)
    BY <1>1, <1>3, <2>1 DEF GroupDone
  <2>2. CASE exec.group # Len(Groups)
    <3>1. exec.group + 1 \in GroupIds
      BY <2>2
    <3>2. pc' = "group" /\ exec' = [NoExec EXCEPT !.plan = exec.plan, !.group = exec.group + 1]
      BY <1>3, <2>2 DEF GroupDone, Goto
    <3>3. exec'.plan = exec.plan /\ exec'.group = exec.group + 1 /\ exec'.result = None
      BY <3>2
    <3>4. DOMAIN exec' = DOMAIN NoExec
      BY <3>2
    <3> QED
      BY <1>3, <3>1, <3>2, <3>3, <3>4 DEF RunnerKeeps
  <2> QED
    BY <2>1, <2>2
<1>4. ASSUME NEW class, AttemptFails(class), pc \in Executing, RunnerKeeps
      PROVE  Framed
  BY <1>4 DEF AttemptFails, Goto, RunnerKeeps
<1>5. CASE LoadCheckpoint
  BY <1>5 DEF LoadCheckpoint, Goto, RunnerKeeps
<1>6. CASE WriteInitial
  BY <1>6 DEF WriteInitial, Goto, RunnerKeeps
<1>7. CASE SkipGroup
  BY <1>3, <1>7 DEF SkipGroup
<1>8. CASE EnterGroup
  BY <1>8 DEF EnterGroup, Goto, RunnerKeeps
<1>9. CASE PreFlight
  <2>1. pc \in Executing /\ RunnerKeeps /\ (Goto("read", exec) \/ PlanErrs)
    BY <1>9 DEF PreFlight
  <2> QED
    BY <1>2, <2>1 DEF Goto, RunnerKeeps
<1>10. CASE PreFlightBlind
  BY <1>10 DEF PreFlightBlind, Goto, RunnerKeeps
<1>11. CASE ReadCheckpoint
  BY <1>11 DEF ReadCheckpoint, Goto, RunnerKeeps
<1>12. CASE WriteCheckpoint
  BY <1>12 DEF WriteCheckpoint, Goto, RunnerKeeps
<1>13. CASE BeforeSpawnErrs
  BY <1>2, <1>13 DEF BeforeSpawnErrs
<1>14. CASE Spawn
  BY <1>14 DEF Spawn, Goto, RunnerKeeps
<1>15. CASE SpawnFails
  BY <1>4, <1>15 DEF SpawnFails
<1>16. CASE PromptSeen
  BY <1>16 DEF PromptSeen, Goto, RunnerKeeps
<1>17. CASE PromptTimeout
  BY <1>4, <1>17 DEF PromptTimeout
<1>18. CASE SendCommand
  BY <1>18 DEF SendCommand, Goto, RunnerKeeps
<1>19. CASE SessionCallErrs
  BY <1>2, <1>19 DEF SessionCallErrs
<1>20. CASE Watch
  <2>1. pc = "tick" /\ RunnerKeeps
    BY <1>20 DEF Watch
  <2>2. \/ \E det : Goto("tick", [exec EXCEPT !.det = det])
        \/ Goto("done", [exec EXCEPT !.det = NewState])
        \/ \E class : AttemptFails(class)
    BY <1>20, Zenon DEF Watch
  <2>3. CASE \E det : Goto("tick", [exec EXCEPT !.det = det])
    BY <2>1, <2>3 DEF Goto, RunnerKeeps
  <2>4. CASE Goto("done", [exec EXCEPT !.det = NewState])
    BY <2>1, <2>4 DEF Goto, RunnerKeeps
  <2>5. CASE \E class : AttemptFails(class)
    BY <1>4, <2>1, <2>5
  <2> QED
    BY <2>2, <2>3, <2>4, <2>5
<1>21. CASE GroupSucceeds
  BY <1>3, <1>21 DEF GroupSucceeds
<1>22. CASE RetryGroup
  BY <1>22 DEF RetryGroup, Goto, RunnerKeeps
<1>23. CASE GroupFails
  BY <1>1, <1>23 DEF GroupFails
<1> QED
  BY <1>5, <1>6, <1>7, <1>8, <1>9, <1>10, <1>11, <1>12, <1>13, <1>14, <1>15, <1>16,
     <1>17, <1>18, <1>19, <1>20, <1>21, <1>22, <1>23 DEF ExecutorStep

(* Rune and the machine change sessions, panes and checkpoints only.       *)
LEMMA WorldFrame ==
  ASSUME World \/ UNCHANGED vars
  PROVE  UNCHANGED <<pc, queue, batch, disk, exec, resumes, blind>>
BY Zenon DEF World, PaneChanges, ArcAdvances, ArcPlans, ArcStops, SessionDies, WorldOnly, vars

(* A step is the runner's, the executor's, or the world's.                 *)
LEMMA StepCases ==
  ASSUME [Next]_vars
  PROVE  RunnerStep \/ ExecutorStep \/ World \/ UNCHANGED vars
BY Zenon DEF Next, Gw, RunnerStep, ExecutorStep

----------------------------------------------------------------------------
(* The state of a batch: a result for every plan up to the index, and the  *)
(* circuit breaker follows from them.                                      *)
Results == Seq([plan : Plans, outcome : Outcomes])

FollowsPlans(state) ==
    /\ state.index \in 0 .. PlanCount
    /\ state.results \in Results /\ Len(state.results) = state.index
    /\ \A i \in 1 .. state.index : state.results[i].plan = i

BreakerTells(state) ==
    /\ state.failures = Cardinality(LastFailures(state.results))
    /\ state.tripped \in BOOLEAN
    /\ state.tripped <=> Broken(state.results)

Sound(state) ==
    /\ DOMAIN state = {"index", "results", "failures", "tripped"}
    /\ FollowsPlans(state)
    /\ BreakerTells(state)

(* Of finitely many results finitely many are failures.                    *)
LEMMA FailuresAreFinite ==
  ASSUME NEW results \in Results
  PROVE  /\ IsFiniteSet(LastFailures(results))
         /\ Cardinality(LastFailures(results)) \in Nat
         /\ Len(results) + 1 \notin LastFailures(results)
<1>1. LastFailures(results) \subseteq 1 .. Len(results) /\ Len(results) \in Nat
  BY DEF LastFailures, Results
<1>2. IsFiniteSet(1 .. Len(results))
  BY <1>1, FS_Interval
<1>3. IsFiniteSet(LastFailures(results))
  BY <1>1, <1>2, FS_Subset
<1> QED
  BY <1>1, <1>3, FS_CardinalityType

(* What one more result does to the failures since the last success.       *)
LEMMA FailuresAfter ==
  ASSUME NEW results \in Results, NEW plan, NEW outcome
  PROVE  LET more == Append(results, [plan |-> plan, outcome |-> outcome])
         IN  /\ outcome = "passed" => LastFailures(more) = {}
             /\ outcome = "failed" =>
                   LastFailures(more) = LastFailures(results) \cup {Len(results) + 1}
             /\ outcome \notin {"passed", "failed"} => LastFailures(more) = LastFailures(results)
<1> DEFINE n == Len(results)
           more == Append(results, [plan |-> plan, outcome |-> outcome])
<1>1. n \in Nat /\ DOMAIN results = 1 .. n /\ DOMAIN more = 1 .. n + 1
  BY DEF Results
<1>2. /\ \A i \in 1 .. n : more[i].outcome = results[i].outcome
      /\ more[n + 1].outcome = outcome
  BY DEF Results
<1> HIDE DEF n, more
<1>3. \A i \in 1 .. n + 1 : i \in 1 .. n \/ i = n + 1
  BY <1>1
<1>4. outcome = "passed" => LastFailures(more) = {}
  <2> SUFFICES ASSUME outcome = "passed" PROVE LastFailures(more) = {}
    OBVIOUS
  <2>1. n + 1 \in 1 .. n + 1 /\ \A i \in 1 .. n + 1 : ~(n + 1 < i)
    BY <1>1
  <2>2. \A i \in DOMAIN more : i \notin LastFailures(more)
    BY <1>1, <1>2, <2>1 DEF LastFailures
  <2>3. LastFailures(more) \subseteq DOMAIN more
    BY DEF LastFailures
  <2> QED
    BY <2>2, <2>3
<1>5. outcome = "failed" => LastFailures(more) = LastFailures(results) \cup {n + 1}
  BY <1>1, <1>2, <1>3 DEF LastFailures
<1>6. outcome \notin {"passed", "failed"} => LastFailures(more) = LastFailures(results)
  BY <1>1, <1>2, <1>3 DEF LastFailures
<1> QED
  BY <1>4, <1>5, <1>6 DEF n, more

(* A batch starts with no results, and the breaker closed.                 *)
LEMMA NewBatchIsSound == Sound(NewBatch) /\ NewBatch.index = 0
<1>1. /\ NewBatch.results = <<>> /\ NewBatch.failures = 0 /\ NewBatch.tripped = FALSE
      /\ NewBatch.index = 0 /\ DOMAIN NewBatch = {"index", "results", "failures", "tripped"}
  BY DEF NewBatch
<1>2. LastFailures(<<>>) = {}
  BY DEF LastFailures
<1>3. Cardinality(LastFailures(<<>>)) = 0 /\ PlanCount \in Nat /\ MaxFailures \in Nat
  BY <1>2, FS_EmptySet, BatchAssumption DEF BatchAssumption
<1>4. ~Broken(<<>>)
  BY <1>3 DEF Broken
<1>5. <<>> \in Results /\ Len(<<>>) = 0
  BY DEF Results
<1>6. FollowsPlans(NewBatch)
  BY <1>1, <1>3, <1>5 DEF FollowsPlans
<1>7. BreakerTells(NewBatch)
  BY <1>1, <1>3, <1>4 DEF BreakerTells
<1> QED
  BY <1>1, <1>6, <1>7 DEF Sound

(* record_result keeps the breaker in step with the results.               *)
LEMMA CountedTells ==
  ASSUME NEW state, Sound(state), NEW plan, NEW outcome \in Outcomes,
         NEW results, results = Append(state.results, [plan |-> plan, outcome |-> outcome])
  PROVE  LET counted == Counted(state, outcome)
         IN  /\ DOMAIN counted = DOMAIN state
             /\ counted.index = state.index /\ counted.results = state.results
             /\ counted.failures = Cardinality(LastFailures(results))
             /\ counted.tripped \in BOOLEAN
             /\ counted.tripped <=> Broken(results)
<1> DEFINE counted == Counted(state, outcome)
           fails == LastFailures(state.results)
<1>1. /\ state.results \in Results /\ MaxFailures \in Nat
      /\ DOMAIN state = {"index", "results", "failures", "tripped"}
      /\ state.failures = Cardinality(fails) /\ state.tripped \in BOOLEAN
      /\ state.tripped <=> MaxFailures > 0 /\ Cardinality(fails) >= MaxFailures
  BY BatchAssumption DEF BatchAssumption, Sound, FollowsPlans, BreakerTells, Broken
<1>2. /\ IsFiniteSet(fails) /\ Cardinality(fails) \in Nat
      /\ Len(state.results) + 1 \notin fails
  BY <1>1, FailuresAreFinite
<1>3. /\ outcome = "passed" => LastFailures(results) = {}
      /\ outcome = "failed" => LastFailures(results) = fails \cup {Len(state.results) + 1}
      /\ outcome \notin {"passed", "failed"} => LastFailures(results) = fails
  BY <1>1, FailuresAfter
<1>4. Cardinality(fails \cup {Len(state.results) + 1}) = Cardinality(fails) + 1
  BY <1>2, FS_AddElement
<1>5. Cardinality({}) = 0
  BY FS_EmptySet
<1> HIDE DEF fails
<1>6. CASE outcome = "passed"
  <2>1. counted = [state EXCEPT !.failures = 0, !.tripped = FALSE]
    BY <1>6 DEF Counted, Breaker
  <2>2. Cardinality(LastFailures(results)) = 0 /\ MaxFailures \in Nat
    BY <1>1, <1>3, <1>5, <1>6
  <2>3. ~Broken(results)
    BY <2>2 DEF Broken
  <2>4. /\ counted.failures = 0 /\ counted.tripped = FALSE
        /\ DOMAIN counted = DOMAIN state
        /\ counted.index = state.index /\ counted.results = state.results
    BY <1>1, <2>1
  <2> HIDE DEF counted
  <2> QED
    BY <2>2, <2>3, <2>4 DEF counted
<1>7. CASE outcome = "failed"
  <2> DEFINE trips == state.tripped \/ (MaxFailures > 0 /\ state.failures + 1 >= MaxFailures)
  <2>1. counted = [state EXCEPT !.failures = state.failures + 1, !.tripped = trips]
    BY <1>7 DEF Counted, Breaker
  <2>2. trips \in BOOLEAN
    BY Zenon
  <2>5. /\ Cardinality(LastFailures(results)) = state.failures + 1
        /\ state.failures \in Nat /\ MaxFailures \in Nat
        /\ state.tripped => state.failures >= MaxFailures /\ MaxFailures > 0
    BY <1>1, <1>2, <1>3, <1>4, <1>7
  <2>3. trips <=> Broken(results)
    BY <2>5 DEF Broken
  <2> HIDE DEF trips
  <2>4. /\ counted.failures = state.failures + 1 /\ counted.tripped = trips
        /\ DOMAIN counted = DOMAIN state
        /\ counted.index = state.index /\ counted.results = state.results
    BY <1>1, <2>1
  <2> HIDE DEF counted
  <2> QED
    BY <2>2, <2>3, <2>4, <2>5 DEF counted
<1>8. CASE outcome \notin {"passed", "failed"}
  BY <1>1, <1>3, <1>8 DEF Counted, Broken
<1> QED
  BY <1>6, <1>7, <1>8

(* A result is recorded of the plan after those that have one.             *)
LEMMA RecordIsSound ==
  ASSUME NEW state, Sound(state), state.index < PlanCount, NEW outcome \in Outcomes
  PROVE  LET next == RecordResult(state, state.index + 1, outcome)
         IN  /\ Sound(next)
             /\ next.index = state.index + 1
             /\ next.results = Append(state.results, [plan |-> state.index + 1, outcome |-> outcome])
<1> DEFINE plan == state.index + 1
           results == Append(state.results, [plan |-> plan, outcome |-> outcome])
           counted == Counted(state, outcome)
           next == RecordResult(state, plan, outcome)
<1>1. /\ DOMAIN counted = DOMAIN state
      /\ counted.index = state.index /\ counted.results = state.results
      /\ counted.failures = Cardinality(LastFailures(results))
      /\ counted.tripped \in BOOLEAN
      /\ counted.tripped <=> Broken(results)
  BY CountedTells
<1>2. /\ DOMAIN state = {"index", "results", "failures", "tripped"}
      /\ state.index \in 0 .. PlanCount /\ PlanCount \in Nat
      /\ state.results \in Results /\ Len(state.results) = state.index
      /\ \A i \in 1 .. state.index : state.results[i].plan = i
  BY BatchAssumption DEF BatchAssumption, Sound, FollowsPlans
<1>3. plan \in Plans /\ plan \in 0 .. PlanCount
  BY <1>2 DEF Plans
<1>4. /\ results \in Results /\ Len(results) = plan
      /\ \A i \in 1 .. plan : results[i].plan = i
  BY <1>2, <1>3 DEF Results
<1>5. next = [counted EXCEPT !.index = @ + 1,
                             !.results = Append(@, [plan |-> plan, outcome |-> outcome])]
  BY <1>2 DEF RecordResult
<1> HIDE DEF counted, next
<1>6. /\ DOMAIN next = {"index", "results", "failures", "tripped"}
      /\ next.index = plan /\ next.results = results
      /\ next.failures = counted.failures /\ next.tripped = counted.tripped
  BY <1>1, <1>2, <1>5
<1> HIDE DEF plan, results
<1>7. FollowsPlans(next)
  BY <1>3, <1>4, <1>6 DEF FollowsPlans
<1>8. BreakerTells(next)
  BY <1>1, <1>6 DEF BreakerTells
<1> QED
  BY <1>6, <1>7, <1>8 DEF Sound, plan, results, next

(* Plans skipped by the breaker are recorded in order, and change nothing  *)
(* about it.                                                               *)
LEMMA SkippedIsSound ==
  ASSUME NEW state, Sound(state), NEW plans, plans = Remaining(state)
  PROVE  LET next == RecordSkipped(state, plans)
         IN  /\ Sound(next)
             /\ Len(next.results) >= state.index
             /\ \A i \in 1 .. state.index : next.results[i] = state.results[i]
<1> DEFINE n == state.index
           more == [i \in DOMAIN plans |-> [plan |-> plans[i], outcome |-> "skipped"]]
           next == RecordSkipped(state, plans)
<1>1. /\ DOMAIN state = {"index", "results", "failures", "tripped"}
      /\ n \in 0 .. PlanCount /\ PlanCount \in Nat
      /\ state.results \in Results /\ Len(state.results) = n
      /\ \A i \in 1 .. n : state.results[i].plan = i
  BY BatchAssumption DEF BatchAssumption, Sound, FollowsPlans
<1>2. /\ plans \in Seq(Plans) /\ Len(plans) = PlanCount - n
      /\ \A i \in 1 .. PlanCount - n : plans[i] = n + i
  <2>1. PlanCount - n \in Nat /\ \A i \in 1 .. PlanCount - n : n + i \in Plans
    BY <1>1 DEF Plans
  <2>2. plans = [i \in 1 .. PlanCount - n |-> n + i]
    BY DEF Remaining
  <2> QED
    BY <2>1, <2>2
<1>3. /\ more \in Results /\ Len(more) = PlanCount - n
      /\ \A i \in 1 .. PlanCount - n : more[i].plan = n + i /\ more[i].outcome = "skipped"
  <2>1. DOMAIN plans = 1 .. PlanCount - n /\ PlanCount - n \in Nat
    BY <1>1, <1>2
  <2>2. \A i \in 1 .. PlanCount - n : more[i] \in [plan : Plans, outcome : Outcomes]
    BY <1>1, <1>2, <2>1 DEF Outcomes
  <2>3. more = [i \in 1 .. PlanCount - n |-> [plan |-> plans[i], outcome |-> "skipped"]]
    BY <2>1
  <2>4. \A i \in 1 .. PlanCount - n : more[i].plan = n + i /\ more[i].outcome = "skipped"
    BY <1>2, <2>1
  <2> HIDE DEF more
  <2>6. PlanCount - n \in Nat
    BY <2>1
  <2>5. more \in Seq([plan : Plans, outcome : Outcomes]) /\ Len(more) = PlanCount - n
    <3> DEFINE T == [plan : Plans, outcome : Outcomes]
               k == PlanCount - n
    <3>1. k \in Nat /\ DOMAIN more = 1 .. k /\ \A i \in 1 .. k : more[i] \in T
      BY <2>2, <2>3, <2>6 DEF more
    <3>2. more = [i \in 1 .. k |-> more[i]]
      BY <2>3 DEF more
    <3> HIDE DEF T, k
    <3>3. more \in Seq(T) /\ Len(more) = k
      BY <3>1, <3>2
    <3> QED
      BY <3>3 DEF T, k
  <2> QED
    BY <2>4, <2>5 DEF Results
<1>4. /\ DOMAIN next = {"index", "results", "failures", "tripped"}
      /\ next.index = PlanCount
      /\ next.results = state.results \o more
      /\ next.failures = state.failures /\ next.tripped = state.tripped
  BY <1>1, <1>2 DEF RecordSkipped
<1> HIDE DEF more, next
<1> DEFINE all == state.results \o more
<1>5. /\ all \in Results /\ Len(all) = PlanCount
      /\ \A i \in 1 .. n : all[i] = state.results[i]
      /\ \A i \in 1 .. PlanCount : i > n => all[i] = more[i - n]
  <2> DEFINE T == [plan : Plans, outcome : Outcomes]
  <2>1. state.results \in Seq(T) /\ more \in Seq(T)
    BY <1>1, <1>3 DEF Results
  <2> HIDE DEF T
  <2>2. all \in Seq(T) /\ Len(all) = n + (PlanCount - n)
    <3>1. all \in Seq(T) /\ Len(all) = Len(state.results) + Len(more)
      BY <2>1
    <3> QED
      BY <1>1, <1>3, <3>1
  <2>3. \A i \in 1 .. n + (PlanCount - n) :
           all[i] = IF i <= n THEN state.results[i] ELSE more[i - n]
    <3>1. \A i \in 1 .. Len(state.results) + Len(more) :
             all[i] = IF i <= Len(state.results) THEN state.results[i]
                      ELSE more[i - Len(state.results)]
      BY <2>1
    <3> QED
      BY <1>1, <1>3, <3>1
  <2>4. n + (PlanCount - n) = PlanCount /\ \A i \in 1 .. n : i \in 1 .. PlanCount /\ i <= n
    BY <1>1
  <2> HIDE DEF all
  <2> QED
    BY <1>1, <2>2, <2>3, <2>4 DEF Results, T
<1> HIDE DEF all
<1>6. \A i \in 1 .. PlanCount : all[i].plan = i
  <2> TAKE i \in 1 .. PlanCount
  <2>1. CASE i <= n
    BY <1>1, <1>5, <2>1
  <2>2. CASE i > n
    <3>1. i - n \in 1 .. PlanCount - n /\ n + (i - n) = i
      BY <1>1, <2>2
    <3> QED
      BY <1>3, <1>5, <2>2, <3>1
  <2> QED
    BY <1>1, <2>1, <2>2
<1>7. LastFailures(all) = LastFailures(state.results)
  <2>1. DOMAIN all = 1 .. PlanCount /\ DOMAIN state.results = 1 .. n
    BY <1>1, <1>5 DEF Results
  <2>2. \A i \in 1 .. PlanCount : i > n => all[i].outcome = "skipped"
    <3> TAKE i \in 1 .. PlanCount
    <3> HAVE i > n
    <3>1. i - n \in 1 .. PlanCount - n
      BY <1>1
    <3> QED
      BY <1>3, <1>5, <3>1
  <2>3. \A i \in 1 .. n : i \in 1 .. PlanCount /\ all[i].outcome = state.results[i].outcome
    BY <1>1, <1>5
  <2>4. \A i \in 1 .. PlanCount : i \in 1 .. n \/ i > n
    BY <1>1
  <2> QED
    BY <2>1, <2>2, <2>3, <2>4 DEF LastFailures
<1>8. FollowsPlans(next)
  BY <1>1, <1>4, <1>5, <1>6 DEF FollowsPlans, all
<1>9. BreakerTells(next)
  BY <1>4, <1>7 DEF Sound, BreakerTells, Broken, all
<1> QED
  BY <1>1, <1>4, <1>5, <1>8, <1>9 DEF Sound, next, all

----------------------------------------------------------------------------
(* The plans gw has not recorded a result of.                              *)
Pending == IF exec.plan = 0 THEN queue ELSE <<exec.plan>> \o queue

RunnerOK ==
    /\ pc \in Executing \cup {"save", "next", "skip", "record", "ended", "dead"}
    /\ ExecOK
    /\ exec.plan # 0 <=> pc \in Executing \cup {"record"}
    /\ exec.plan = 0 => exec = NoExec
    /\ pc = "record" => exec.result \in {"passed", "failed", "transient"}

(* Memory and file agree but where a save is due, and nothing is lost in   *)
(* between: what is pending is what the state of the batch says.           *)
InStep ==
    /\ queue \in Seq(Plans)
    /\ disk # None => Sound(disk)
    /\ ~Running => batch = None
    /\ Running => Sound(batch) /\ Remaining(batch) = Pending
    /\ pc = "save" => disk = None \/ disk = batch
    /\ Running /\ pc # "save" => disk = batch
    /\ pc = "skip" => Broken(batch.results)

OrderInv == RunnerOK /\ InStep

(* The first of the remaining plans is the one after the index, and the    *)
(* others remain when it has a result.                                     *)
LEMMA FirstRemaining ==
  ASSUME NEW state, Sound(state), NEW p, NEW q \in Seq(Plans), Remaining(state) = <<p>> \o q
  PROVE  /\ p = state.index + 1 /\ p \in Plans /\ state.index < PlanCount
         /\ \A next : next.index = p => Remaining(next) = q
<1> DEFINE n == state.index
           k == PlanCount - n
<1>1. n \in 0 .. PlanCount /\ PlanCount \in Nat
  BY BatchAssumption DEF BatchAssumption, Sound, FollowsPlans
<1>2. k \in Nat /\ Remaining(state) = [i \in 1 .. k |-> n + i]
  BY <1>1 DEF Remaining
<1>3. Len(q) \in Nat /\ DOMAIN q = 1 .. Len(q)
  OBVIOUS
<1>4. /\ DOMAIN (<<p>> \o q) = 1 .. 1 + Len(q)
      /\ (<<p>> \o q)[1] = p
      /\ \A i \in 1 .. Len(q) : (<<p>> \o q)[1 + i] = q[i]
  OBVIOUS
<1> HIDE DEF k
<1>5. k = 1 + Len(q)
  <2>1. 1 .. k = 1 .. 1 + Len(q)
    BY <1>2, <1>4
  <2> QED
    BY <1>2, <1>3, <2>1
<1>6. p = n + 1 /\ n < PlanCount /\ p \in Plans
  <2>1. 1 \in 1 .. k
    BY <1>2, <1>3, <1>5
  <2>2. p = n + 1
    BY <1>2, <1>4, <2>1
  <2> QED
    BY <1>1, <1>3, <1>5, <2>2 DEF k, Plans
<1>7. \A i \in 1 .. Len(q) : q[i] = p + i
  <2> TAKE i \in 1 .. Len(q)
  <2>1. 1 + i \in 1 .. k
    BY <1>3, <1>5
  <2>2. (<<p>> \o q)[1 + i] = n + (1 + i)
    BY <1>2, <2>1
  <2>3. (<<p>> \o q)[1 + i] = q[i]
    BY <1>4
  <2>4. i \in Nat /\ n \in Nat
    BY <1>1, <1>3
  <2> QED
    <3>1. n + (1 + i) = (n + 1) + i
      BY ONLY <2>4
    <3> QED
      BY <1>6, <2>2, <2>3, <3>1
<1>8. q = [i \in 1 .. Len(q) |-> p + i]
  BY <1>3, <1>7
<1>9. PlanCount - p = Len(q)
  BY <1>1, <1>3, <1>5, <1>6 DEF k
<1> QED
  BY <1>6, <1>8, <1>9 DEF Remaining

(* A queue that is not empty is its head and its tail.                     *)
LEMMA HeadAndTail ==
  ASSUME NEW q \in Seq(Plans), q # <<>>
  PROVE  /\ Head(q) \in Plans /\ Tail(q) \in Seq(Plans)
         /\ q = <<Head(q)>> \o Tail(q)
OBVIOUS

(* The remaining plans are a queue of plans.                               *)
LEMMA RemainingIsQueue ==
  ASSUME NEW state, state.index \in 0 .. PlanCount
  PROVE  Remaining(state) \in Seq(Plans)
<1>1. PlanCount \in Nat
  BY BatchAssumption DEF BatchAssumption
<1>2. PlanCount - state.index \in Nat
  BY <1>1
<1>3. \A i \in 1 .. PlanCount - state.index : state.index + i \in Plans
  BY <1>1 DEF Plans
<1> QED
  BY <1>2, <1>3 DEF Remaining

(* gw starts with a new batch.                                             *)
LEMMA InitOrderInv == Init => OrderInv
<1> SUFFICES ASSUME Init PROVE OrderInv
  OBVIOUS
<1> USE NoExecFacts, GroupIdsFacts
<1>1. /\ pc = "save" /\ batch = NewBatch /\ queue = Remaining(NewBatch) /\ disk = None
      /\ exec = NoExec
  BY DEF Init
<1>2. Sound(batch) /\ batch.index \in 0 .. PlanCount
  BY <1>1, NewBatchIsSound DEF Sound, FollowsPlans
<1>3. queue \in Seq(Plans)
  BY <1>1, <1>2, RemainingIsQueue
<1>4. RunnerOK
  BY <1>1, BatchAssumption DEF RunnerOK, ExecOK, Executing, BatchAssumption
<1>5. InStep
  BY <1>1, <1>2, <1>3 DEF InStep, Running, Pending
<1> QED
  BY <1>4, <1>5 DEF OrderInv

(* gw is gone, and what it held in memory.                                 *)
LEMMA LeaveKeepsOrder ==
  ASSUME OrderInv, NEW how \in {"ended", "dead"}, Leave(how), disk' # None => Sound(disk')
  PROVE  OrderInv'
<1> USE NoExecFacts, GroupIdsFacts
<1>1. pc' = how /\ queue' = <<>> /\ batch' = None /\ exec' = NoExec
  BY DEF Leave
<1>2. RunnerOK'
  BY <1>1, BatchAssumption DEF RunnerOK, ExecOK, Executing, BatchAssumption
<1>3. queue' \in Seq(Plans)
  BY <1>1
<1>4. InStep'
  BY <1>1, <1>3 DEF InStep, Running
<1> QED
  BY <1>2, <1>4 DEF OrderInv

(* The step of the runner that takes a plan from the queue.                *)
LEMMA TakeKeepsOrder ==
  ASSUME OrderInv, pc = "next", queue # <<>>, queue' = Tail(queue),
         UNCHANGED <<batch, disk>>, NEW result,
         exec' = [NoExec EXCEPT !.plan = Head(queue), !.result = result],
         \/ pc' = "load" /\ result = None
         \/ pc' = "record" /\ result = "failed"
  PROVE  OrderInv' /\ disk = batch /\ Sound(batch)
<1> USE NoExecFacts, GroupIdsFacts
<1>1. exec.plan = 0 /\ queue \in Seq(Plans) /\ Remaining(batch) = queue
      /\ Sound(batch) /\ disk = batch /\ Running
  BY DEF OrderInv, RunnerOK, InStep, Running, Pending, Executing
<1>2. /\ Head(queue) \in Plans /\ Tail(queue) \in Seq(Plans)
      /\ queue = <<Head(queue)>> \o Tail(queue)
  BY <1>1, HeadAndTail
<1>3. /\ exec'.plan = Head(queue) /\ exec'.group = 1 /\ exec'.result = result
      /\ DOMAIN exec' = DOMAIN NoExec
  OBVIOUS
<1>4. exec'.plan # 0 /\ exec'.plan \in 0 .. PlanCount
  BY <1>2, <1>3 DEF Plans
<1>5. RunnerOK'
  BY <1>3, <1>4 DEF RunnerOK, ExecOK, Executing
<1>6. Pending' = queue
  BY <1>2, <1>3, <1>4 DEF Pending
<1>7. InStep'
  BY <1>1, <1>2, <1>6 DEF InStep, Running, OrderInv
<1> QED
  BY <1>1, <1>5, <1>7 DEF OrderInv

(* A result is recorded and saved.                                         *)
LEMMA RecordKeepsOrder ==
  ASSUME OrderInv, NEW plan, NEW outcome \in Outcomes, NEW q \in Seq(Plans),
         pc \in {"record", "next"}, Pending = <<plan>> \o q,
         batch' = RecordResult(batch, plan, outcome), disk' = batch', queue' = q,
         exec' = NoExec,
         pc' = "next" \/ (pc' = "skip" /\ outcome = "skipped" /\ Broken(batch.results))
  PROVE  /\ OrderInv'
         /\ Sound(batch) /\ disk = batch
         /\ batch'.results = Append(batch.results, [plan |-> plan, outcome |-> outcome])
<1> USE NoExecFacts, GroupIdsFacts
<1>1. Sound(batch) /\ disk = batch /\ Remaining(batch) = <<plan>> \o q
  BY DEF OrderInv, InStep, Running
<1>2. /\ plan = batch.index + 1 /\ plan \in Plans /\ batch.index < PlanCount
      /\ \A next : next.index = plan => Remaining(next) = q
  BY ONLY <1>1, FirstRemaining, Zenon
<1>3. /\ Sound(batch') /\ batch'.index = plan
      /\ batch'.results = Append(batch.results, [plan |-> plan, outcome |-> outcome])
  BY <1>1, <1>2, RecordIsSound
<1>4. Remaining(batch') = q
  BY <1>2, <1>3
<1>5. outcome = "skipped" => LastFailures(batch'.results) = LastFailures(batch.results)
  <2>1. batch.results \in Results
    BY <1>1 DEF Sound, FollowsPlans
  <2>2. outcome \notin {"passed", "failed"} =>
           LastFailures(Append(batch.results, [plan |-> plan, outcome |-> outcome]))
             = LastFailures(batch.results)
    BY <2>1, FailuresAfter
  <2> QED
    BY <1>3, <2>2
<1>6. pc' = "skip" => Broken(batch'.results)
  BY <1>5 DEF Broken
<1>7. RunnerOK'
  BY BatchAssumption DEF RunnerOK, ExecOK, Executing, BatchAssumption
<1>8. Pending' = q
  BY DEF Pending
<1>9. InStep'
  BY <1>3, <1>4, <1>6, <1>8 DEF InStep, Running
<1> QED
  BY <1>1, <1>3, <1>7, <1>9 DEF OrderInv

(* Every step of the runner keeps what it recorded in order.               *)
LEMMA RunnerKeepsOrder == OrderInv /\ RunnerStep => OrderInv'
<1> SUFFICES ASSUME OrderInv, RunnerStep PROVE OrderInv'
  OBVIOUS
<1> USE NoExecFacts, GroupIdsFacts
<1>1. CASE SaveInitial
  <2>1. /\ pc = "save" /\ pc' = "next" /\ disk' = batch
        /\ queue' = queue /\ batch' = batch /\ exec' = exec
    BY <1>1 DEF SaveInitial
  <2>2. RunnerOK'
    BY <2>1 DEF OrderInv, RunnerOK, ExecOK, Executing
  <2>3. InStep'
    BY <2>1 DEF OrderInv, InStep, Running, Pending
  <2> QED
    BY <2>2, <2>3 DEF OrderInv
<1>2. CASE NextPlan
  <2>1. /\ pc = "next" /\ queue # <<>> /\ queue' = Tail(queue) /\ UNCHANGED <<batch, disk>>
        /\ exec' = [NoExec EXCEPT !.plan = Head(queue)] /\ pc' = "load"
    BY <1>2 DEF NextPlan
  <2>2. [NoExec EXCEPT !.plan = Head(queue)]
          = [NoExec EXCEPT !.plan = Head(queue), !.result = None]
    BY DEF NoExec
  <2> QED
    BY <2>1, <2>2, TakeKeepsOrder
<1>3. CASE PlanRefused
  <2>1. /\ pc = "next" /\ queue # <<>> /\ queue' = Tail(queue) /\ UNCHANGED <<batch, disk>>
        /\ exec' = [NoExec EXCEPT !.plan = Head(queue), !.result = "failed"] /\ pc' = "record"
    BY <1>3 DEF PlanRefused
  <2> QED
    BY <2>1, TakeKeepsOrder
<1>4. CASE RunAborts
  <2>1. Leave("ended") /\ disk' = disk
    BY <1>4 DEF RunAborts
  <2> QED
    BY <2>1, LeaveKeepsOrder DEF OrderInv, InStep
<1>5. CASE SkipFirst
  <2>1. /\ pc = "next" /\ queue # <<>> /\ batch.tripped
        /\ batch' = RecordResult(batch, Head(queue), "skipped") /\ disk' = batch'
        /\ queue' = Tail(queue) /\ pc' = "skip" /\ exec' = exec
    BY <1>5 DEF SkipFirst
  <2>2. /\ exec.plan = 0 /\ queue \in Seq(Plans) /\ Sound(batch) /\ Pending = queue
    BY <2>1 DEF OrderInv, RunnerOK, InStep, Running, Pending, Executing
  <2>3. /\ Tail(queue) \in Seq(Plans) /\ Pending = <<Head(queue)>> \o Tail(queue)
    BY <2>1, <2>2, HeadAndTail
  <2>4. Broken(batch.results)
    BY <2>1, <2>2 DEF Sound, BreakerTells
  <2>5. "skipped" \in Outcomes
    BY DEF Outcomes
  <2>6. exec = NoExec
    BY <2>2 DEF OrderInv, RunnerOK
  <2> QED
    <3>1. /\ exec' = NoExec /\ pc \in {"record", "next"}
          /\ pc' = "next" \/ (pc' = "skip" /\ Broken(batch.results))
      BY <2>1, <2>4, <2>6
    <3> HIDE <1>5
    <3> QED
      BY <2>1, <2>3, <2>5, <3>1, RecordKeepsOrder
<1>6. CASE SkipRest
  <2>1. pc = "skip" /\ disk' = RecordSkipped(batch, queue) /\ Leave("ended")
    BY <1>6 DEF SkipRest
  <2>2. Sound(batch) /\ queue = Remaining(batch)
    BY <2>1 DEF OrderInv, RunnerOK, InStep, Running, Pending, Executing
  <2> QED
    BY <2>1, <2>2, SkippedIsSound, LeaveKeepsOrder
<1>7. CASE RecordAndSave
  <2>1. /\ pc = "record" /\ batch' = RecordResult(batch, exec.plan, exec.result)
        /\ disk' = batch' /\ exec' = NoExec /\ pc' = "next" /\ queue' = queue
    BY <1>7 DEF RecordAndSave
  <2>2. /\ queue \in Seq(Plans) /\ exec.result \in Outcomes /\ Pending = <<exec.plan>> \o queue
    BY <2>1 DEF OrderInv, RunnerOK, InStep, Pending, Executing, Outcomes
  <2> QED
    BY <2>1, <2>2, RecordKeepsOrder
<1>8. CASE Finish
  <2>1. Leave("ended") /\ disk' = disk
    BY <1>8 DEF Finish
  <2> QED
    BY <2>1, LeaveKeepsOrder DEF OrderInv, InStep
<1>9. CASE GwDies
  <2>1. Leave("dead") /\ disk' = disk
    BY <1>9 DEF GwDies
  <2> QED
    BY <2>1, LeaveKeepsOrder DEF OrderInv, InStep
<1>10. CASE Resume
  <2>1. /\ ~Running /\ disk # None /\ disk' = disk /\ batch' = disk
        /\ queue' = Remaining(disk) /\ pc' = "save" /\ exec' = exec
    BY <1>10 DEF Resume
  <2>2. Sound(disk) /\ exec.plan = 0
    BY <2>1 DEF OrderInv, RunnerOK, InStep, Running, Executing
  <2>3. queue' \in Seq(Plans)
    BY <2>1, <2>2, RemainingIsQueue DEF Sound, FollowsPlans
  <2>4. RunnerOK'
    BY <2>1, <2>2 DEF OrderInv, RunnerOK, ExecOK, Executing, Running
  <2>5. InStep'
    BY <2>1, <2>2, <2>3 DEF InStep, Running, Pending
  <2> QED
    BY <2>4, <2>5 DEF OrderInv
<1> QED
  BY <1>1, <1>2, <1>3, <1>4, <1>5, <1>6, <1>7, <1>8, <1>9, <1>10 DEF RunnerStep

(* A step of the executor or of the world changes neither.                 *)
LEMMA OthersKeepOrder ==
  ASSUME OrderInv, ExecutorStep \/ World \/ UNCHANGED vars
  PROVE  OrderInv' /\ disk' = disk /\ (exec.plan = 0 => exec'.plan = 0)
<1>1. CASE ExecutorStep
  <2>1. /\ pc \in Executing /\ pc' \in Executing \cup {"record"}
        /\ queue' = queue /\ batch' = batch /\ disk' = disk
        /\ ExecOK' /\ exec'.plan = exec.plan
        /\ pc' = "record" => exec'.result \in {"passed", "failed", "transient"}
    BY <1>1, ExecutorFrame DEF OrderInv, RunnerOK
  <2>2. RunnerOK'
    BY <2>1 DEF OrderInv, RunnerOK
  <2>3. InStep'
    BY <2>1 DEF OrderInv, InStep, Pending, Running, Executing
  <2> QED
    BY <2>1, <2>2, <2>3 DEF OrderInv
<1>2. CASE World \/ UNCHANGED vars
  <2>1. pc' = pc /\ queue' = queue /\ batch' = batch /\ disk' = disk /\ exec' = exec
    BY <1>2, WorldFrame
  <2> QED
    BY <2>1 DEF OrderInv, RunnerOK, ExecOK, InStep, Pending, Running
<1> QED
  BY <1>1, <1>2

(* The invariant is inductive.                                             *)
LEMMA NextOrderInv == OrderInv /\ [Next]_vars => OrderInv'
BY StepCases, RunnerKeepsOrder, OthersKeepOrder

(* The state file holds the outcome of every plan up to its index, once    *)
(* and in order, and a gw that runs is not behind it.                      *)
LEMMA OrderGivesResults == OrderInv => ResultsInOrder
<1> SUFFICES ASSUME OrderInv, disk # None
             PROVE  /\ disk.index = Len(disk.results)
                    /\ \A i \in DOMAIN disk.results : disk.results[i].plan = i
                    /\ batch # None => SubSeq(batch.results, 1, disk.index) = disk.results
                    /\ batch # None => Remaining(batch) = Pending
  BY DEF ResultsInOrder, Pending
<1>1. Sound(disk)
  BY DEF OrderInv, InStep
<1>2. /\ disk.index = Len(disk.results) /\ disk.results \in Results
      /\ \A i \in 1 .. disk.index : disk.results[i].plan = i
  BY <1>1 DEF Sound, FollowsPlans
<1>3. DOMAIN disk.results = 1 .. disk.index
  BY <1>2 DEF Results
<1>4. batch # None => disk = batch /\ Remaining(batch) = Pending
  BY DEF OrderInv, InStep, Running
<1>5. SubSeq(disk.results, 1, Len(disk.results)) = disk.results
  BY <1>2 DEF Results
<1> QED
  BY <1>2, <1>3, <1>4, <1>5

(* ResultsInOrder (BatchRunner::run, BatchState::record_result and resume, *)
(* src/batch): whatever gw dies of and however often it is resumed, no     *)
(* plan's outcome is lost, repeated or out of order.                       *)
THEOREM BatchKeepsItsResults == Spec => []ResultsInOrder
<1>1. Init => OrderInv
  BY InitOrderInv
<1>2. OrderInv /\ [Next]_vars => OrderInv'
  BY NextOrderInv
<1>3. OrderInv => ResultsInOrder
  BY OrderGivesResults
<1> QED
  BY <1>1, <1>2, <1>3, PTL DEF Spec

(* What a step does that starts a plan, or writes results to the file.     *)
BreakerStep ==
    /\ exec.plan = 0 /\ exec'.plan # 0 => ~Broken(batch.results)
    /\ disk # None /\ disk' # disk =>
          \A i \in DOMAIN disk'.results \ DOMAIN disk.results :
             disk'.results[i].outcome = "skipped" => Broken(disk.results)

(* Plans start while the breaker is closed, and are skipped only when it   *)
(* is open.                                                                *)
LEMMA RunnerAsksBreaker == OrderInv /\ RunnerStep => BreakerStep
<1> SUFFICES ASSUME OrderInv, RunnerStep PROVE BreakerStep
  OBVIOUS
<1> USE NoExecFacts
<1>1. ASSUME exec'.plan = 0 \/ ~Broken(batch.results),
             \/ disk' = disk \/ disk = None \/ Broken(disk.results)
      PROVE  BreakerStep
  BY <1>1 DEF BreakerStep
<1>2. CASE SaveInitial
  <2>1. disk' = disk \/ disk = None
    BY <1>2 DEF SaveInitial, OrderInv, InStep
  <2>2. exec' = exec /\ exec.plan = 0
    BY <1>2 DEF SaveInitial, OrderInv, RunnerOK, Executing
  <2> QED
    BY <1>1, <2>1, <2>2
<1>3. CASE NextPlan \/ PlanRefused
  <2>1. pc = "next" /\ ~batch.tripped /\ disk' = disk
    BY <1>3 DEF NextPlan, PlanRefused
  <2>2. Sound(batch)
    BY <2>1 DEF OrderInv, InStep, Running
  <2>3. ~Broken(batch.results)
    BY <2>1, <2>2 DEF Sound, BreakerTells
  <2> QED
    BY <1>1, <2>1, <2>3
<1>4. CASE SkipFirst
  <2>1. pc = "next" /\ batch.tripped /\ exec' = exec
    BY <1>4 DEF SkipFirst
  <2>2. Sound(batch) /\ disk = batch /\ exec.plan = 0
    BY <2>1 DEF OrderInv, InStep, Running, RunnerOK, Executing
  <2>3. Broken(disk.results)
    BY <2>1, <2>2 DEF Sound, BreakerTells
  <2> QED
    BY <1>1, <2>1, <2>2, <2>3
<1>5. CASE SkipRest
  <2>1. pc = "skip" /\ exec' = NoExec
    BY <1>5 DEF SkipRest, Leave
  <2>2. Broken(disk.results)
    BY <2>1 DEF OrderInv, InStep, Running
  <2> QED
    BY <1>1, <2>1, <2>2
<1>6. CASE RecordAndSave
  <2>1. /\ pc = "record" /\ batch' = RecordResult(batch, exec.plan, exec.result)
        /\ disk' = batch' /\ exec' = NoExec /\ pc' = "next" /\ queue' = queue
    BY <1>6 DEF RecordAndSave
  <2>2. /\ queue \in Seq(Plans) /\ exec.result \in Outcomes /\ Pending = <<exec.plan>> \o queue
        /\ exec.result # "skipped"
    BY <2>1 DEF OrderInv, RunnerOK, InStep, Pending, Executing, Outcomes
  <2>3. /\ Sound(batch) /\ disk = batch
        /\ batch'.results = Append(batch.results, [plan |-> exec.plan, outcome |-> exec.result])
    BY <2>1, <2>2, RecordKeepsOrder
  <2>4. batch.results \in Results
    BY <2>3 DEF Sound, FollowsPlans
  <2>5. \A i \in DOMAIN batch'.results \ DOMAIN batch.results : batch'.results[i].outcome = exec.result
    BY <2>3, <2>4 DEF Results
  <2> QED
    BY <2>1, <2>2, <2>3, <2>5 DEF BreakerStep
<1>7. CASE RunAborts \/ Finish \/ GwDies
  <2>1. disk' = disk /\ exec' = NoExec
    BY <1>7 DEF RunAborts, Finish, GwDies, Leave
  <2> QED
    BY <1>1, <2>1
<1>8. CASE Resume
  <2>1. ~Running /\ disk' = disk /\ exec' = exec
    BY <1>8 DEF Resume
  <2>2. exec.plan = 0
    BY <2>1 DEF OrderInv, RunnerOK, Running, Executing
  <2> QED
    BY <1>1, <2>1, <2>2
<1> QED
  BY <1>2, <1>3, <1>4, <1>5, <1>6, <1>7, <1>8 DEF RunnerStep

(* BreakerHolds (BatchRunner::run with the circuit breaker of              *)
(* BatchState::record_result): no plan runs after max_failures             *)
(* deterministic failures with no success in between, in this gw or in the *)
(* one it resumes, and none is skipped before.                             *)
THEOREM NoPlanAfterBreaker == Spec => BreakerHolds
<1>1. Init => OrderInv
  BY InitOrderInv
<1>2. OrderInv /\ [Next]_vars => OrderInv'
  BY NextOrderInv
<1>3. OrderInv /\ [Next]_vars => [BreakerStep]_vars
  <2> SUFFICES ASSUME OrderInv, [Next]_vars PROVE BreakerStep
    OBVIOUS
  <2>1. CASE RunnerStep
    BY <2>1, RunnerAsksBreaker
  <2>2. CASE ExecutorStep \/ World \/ UNCHANGED vars
    BY <2>2, OthersKeepOrder DEF BreakerStep
  <2> QED
    BY <2>1, <2>2, StepCases
<1>4. OrderInv /\ [Next]_vars =>
        [/\ exec.plan = 0 /\ exec'.plan # 0 => ~Broken(batch.results)
         /\ disk # None /\ disk' # disk =>
               \A i \in DOMAIN disk'.results \ DOMAIN disk.results :
                  disk'.results[i].outcome = "skipped" => Broken(disk.results)]_vars
  BY <1>3 DEF BreakerStep
<1> QED
  BY <1>1, <1>2, <1>4, PTL DEF Spec, BreakerHolds

----------------------------------------------------------------------------
(* gw has counted the sessions and is about to make one.                   *)
Admitted == {"read", "write", "spawn"}

(* The budget is kept by the place that is free between the count and the  *)
(* new session; nobody else makes sessions.                                *)
BudgetInv ==
    /\ DOMAIN session = Plans \X GroupIds
    /\ blind \in BOOLEAN
    /\ BudgetHolds
    /\ pc \in Admitted => blind \/ Cardinality(Live) < MaxSessions

(* There are finitely many sessions.                                       *)
LEMMA LiveIsFinite == IsFiniteSet(Live) /\ Cardinality(Live) \in Nat
<1>1. IsFiniteSet(Plans)
  BY BatchAssumption, FS_Interval DEF Plans, BatchAssumption
<1>2. IsFiniteSet(GroupIds)
  BY GroupIdsFacts, FS_Interval
<1>3. IsFiniteSet(Plans \X GroupIds)
  BY <1>1, <1>2, FS_Product
<1>4. Live \subseteq Plans \X GroupIds
  BY DEF Live
<1>5. IsFiniteSet(Live)
  BY <1>3, <1>4, FS_Subset
<1> QED
  BY <1>5, FS_CardinalityType

(* Where no session is made there are not more than before.                *)
LEMMA NoMoreLive ==
  ASSUME \A s \in Plans \X GroupIds : session[s] = "absent" => session'[s] = "absent"
  PROVE  Cardinality(Live') <= Cardinality(Live) /\ Cardinality(Live') \in Nat
<1>1. Live' \subseteq Live
  BY DEF Live
<1>2. IsFiniteSet(Live')
  BY <1>1, LiveIsFinite, FS_Subset
<1> QED
  BY <1>1, <1>2, LiveIsFinite, FS_Subset, FS_CardinalityType

(* Where one session is made there is at most one more.                    *)
LEMMA OneMoreLive ==
  ASSUME NEW here,
         \A s \in Plans \X GroupIds : session[s] = "absent" /\ s # here => session'[s] = "absent"
  PROVE  Cardinality(Live') <= Cardinality(Live) + 1 /\ Cardinality(Live') \in Nat
<1> DEFINE more == Live \cup {here}
<1>1. Live' \subseteq more
  BY DEF Live
<1>2. IsFiniteSet(more) /\ Cardinality(more) <= Cardinality(Live) + 1 /\ Cardinality(more) \in Nat
  BY LiveIsFinite, FS_AddElement, FS_CardinalityType
<1>3. Cardinality(Live') <= Cardinality(more) /\ IsFiniteSet(Live')
  BY <1>1, <1>2, FS_Subset
<1> HIDE DEF more
<1> QED
  BY <1>2, <1>3, LiveIsFinite, FS_CardinalityType

(* Nothing has been started.                                               *)
LEMMA InitBudgetInv == Init => BudgetInv
<1> SUFFICES ASSUME Init PROVE BudgetInv
  OBVIOUS
<1>1. DOMAIN session = Plans \X GroupIds /\ pc = "save" /\ Live = {}
  BY DEF Init, Live
<1>2. Cardinality(Live) <= MaxSessions
  BY <1>1, FS_EmptySet, BatchAssumption DEF BatchAssumption
<1>3. blind \in BOOLEAN
  BY Zenon DEF Init
<1> QED
  BY <1>1, <1>2, <1>3 DEF BudgetInv, BudgetHolds, Admitted

(* Steps that make no session, and admit none.                             *)
LEMMA FewerKeepBudget ==
  ASSUME BudgetInv, DOMAIN session' = DOMAIN session, blind' \in {TRUE, blind},
         \A s \in Plans \X GroupIds : session[s] = "absent" => session'[s] = "absent",
         pc' \in Admitted => pc \in Admitted \/ blind' \/ Cardinality(Live') < MaxSessions
  PROVE  BudgetInv'
<1>1. Cardinality(Live') <= Cardinality(Live) /\ Cardinality(Live') \in Nat
  BY NoMoreLive
<1>2. Cardinality(Live) \in Nat /\ MaxSessions \in Nat
  BY LiveIsFinite, BatchAssumption DEF BatchAssumption
<1>3. CASE blind'
  BY <1>3 DEF BudgetInv, BudgetHolds
<1>4. CASE ~blind'
  <2>1. ~blind /\ blind' \in BOOLEAN
    BY <1>4, Zenon DEF BudgetInv
  <2>2. Cardinality(Live) <= MaxSessions /\ (pc \in Admitted => Cardinality(Live) < MaxSessions)
    BY <2>1 DEF BudgetInv, BudgetHolds
  <2>3. Cardinality(Live') <= MaxSessions
        /\ (pc' \in Admitted => Cardinality(Live') < MaxSessions)
    BY <1>1, <1>2, <1>4, <2>2
  <2> QED
    BY <2>1, <2>3 DEF BudgetInv, BudgetHolds
<1> QED
  BY <1>3, <1>4

(* The runner makes none.                                                  *)
LEMMA RunnerKeepsBudget == BudgetInv /\ RunnerStep => BudgetInv'
<1> SUFFICES ASSUME BudgetInv, RunnerStep PROVE BudgetInv'
  OBVIOUS
<1>1. blind' = blind /\ pc' \notin Admitted
  BY Zenon DEF RunnerStep, SaveInitial, NextPlan, PlanRefused, RunAborts, SkipFirst, SkipRest,
     RecordAndSave, Finish, GwDies, Resume, Leave, world, Admitted
<1>2. /\ DOMAIN session' = DOMAIN session
      /\ \A s \in Plans \X GroupIds : session[s] = "absent" => session'[s] = "absent"
  <2>1. session' = session \/ Swept
    BY Zenon DEF RunnerStep, SaveInitial, NextPlan, PlanRefused, RunAborts, SkipFirst, SkipRest,
       RecordAndSave, Finish, GwDies, Resume, Leave, world
  <2> QED
    BY <2>1 DEF Swept, BudgetInv
<1> QED
  BY <1>1, <1>2, FewerKeepBudget

(* The executor makes a session only where it has found room for it.       *)
LEMMA ExecutorKeepsBudget == BudgetInv /\ ExecutorStep => BudgetInv'
<1> SUFFICES ASSUME BudgetInv, ExecutorStep PROVE BudgetInv'
  OBVIOUS
<1> DEFINE NoneMade ==
             /\ DOMAIN session' = DOMAIN session
             /\ \A s \in Plans \X GroupIds : session[s] = "absent" => session'[s] = "absent"
<1>1. session' = session => NoneMade
  OBVIOUS
<1>2. Kill => NoneMade
  BY DEF Kill, BudgetInv
<1>3. session' = [session EXCEPT ![Here] = IF @ = "ready" THEN "working" ELSE @] => NoneMade
  BY DEF BudgetInv
<1>4. CASE Spawn \/ SpawnFails
  <2>1. /\ pc \in Admitted /\ pc' \notin Admitted /\ blind' = blind
        /\ \E left : session' = [session EXCEPT ![Here] = left] \/ session' = session
    BY <1>4 DEF Spawn, SpawnFails, AttemptFails, Goto, Admitted
  <2>2. Cardinality(Live') <= Cardinality(Live) + 1 /\ Cardinality(Live') \in Nat
    <3>1. \A s \in Plans \X GroupIds :
             session[s] = "absent" /\ s # Here => session'[s] = "absent"
      BY <2>1 DEF BudgetInv
    <3> QED
      BY <3>1, OneMoreLive
  <2>3. Cardinality(Live) \in Nat /\ MaxSessions \in Nat
    BY LiveIsFinite, BatchAssumption DEF BatchAssumption
  <2>4. DOMAIN session' = DOMAIN session
    BY <2>1
  <2>5. blind \/ Cardinality(Live') <= MaxSessions
    BY <2>1, <2>2, <2>3 DEF BudgetInv
  <2> QED
    BY <2>1, <2>4, <2>5 DEF BudgetInv, BudgetHolds
<1>5. CASE PreFlight
  <2>1. /\ pc = "flight" /\ Swept /\ blind' = blind
        /\ IF Cardinality({s \in Live : session'[s] # "absent"}) < MaxSessions
           THEN Goto("read", exec) ELSE PlanErrs
    BY <1>5 DEF PreFlight
  <2>2. NoneMade
    BY <2>1 DEF Swept, BudgetInv
  <2>3. Live' = {s \in Live : session'[s] # "absent"}
    BY <2>2 DEF Live
  <2>4. pc' \in Admitted => Cardinality(Live') < MaxSessions
    <3>1. PlanErrs => pc' = "record"
      BY DEF PlanErrs, PlanEnds, Goto
    <3> QED
      BY <2>1, <2>3, <3>1 DEF Admitted
  <2> QED
    BY <2>1, <2>2, <2>4, FewerKeepBudget
<1>6. CASE PreFlightBlind
  <2>1. session' = session /\ blind' = TRUE
    BY <1>6 DEF PreFlightBlind, world
  <2> QED
    BY <1>1, <2>1, FewerKeepBudget
<1>7. CASE ReadCheckpoint \/ WriteCheckpoint
  <2>1. session' = session /\ blind' = blind /\ pc \in Admitted
    BY <1>7 DEF ReadCheckpoint, WriteCheckpoint, world, Admitted
  <2> QED
    BY <1>1, <2>1, FewerKeepBudget
<1>8. CASE LoadCheckpoint \/ WriteInitial \/ SkipGroup \/ EnterGroup \/ BeforeSpawnErrs \/ PromptSeen
           \/ SessionCallErrs \/ GroupSucceeds \/ RetryGroup \/ GroupFails
  <2>1. session' = session /\ blind' = blind
    BY <1>8, Zenon DEF LoadCheckpoint, WriteInitial, SkipGroup, EnterGroup, BeforeSpawnErrs,
       PromptSeen, SessionCallErrs, GroupSucceeds, RetryGroup, GroupFails, world
  <2>2. pc' \notin Admitted
    BY <1>8 DEF LoadCheckpoint, WriteInitial, SkipGroup, EnterGroup, BeforeSpawnErrs,
       PromptSeen, SessionCallErrs, GroupSucceeds, RetryGroup, GroupFails, GroupDone, PlanErrs,
       PlanEnds, Goto, Admitted
  <2> QED
    BY <1>1, <2>1, <2>2, FewerKeepBudget
<1>9. CASE PromptTimeout \/ SendCommand
  <2>1. NoneMade /\ blind' = blind
    BY <1>2, <1>3, <1>9 DEF PromptTimeout, SendCommand
  <2>2. pc' \notin Admitted
    BY <1>9 DEF PromptTimeout, SendCommand, AttemptFails, Goto, Admitted
  <2> QED
    BY <2>1, <2>2, FewerKeepBudget
<1>10. CASE Watch
  <2>1. blind' = blind /\ pc' \notin Admitted
    <3>1. blind' = blind /\ pc' \in {"tick", "done", "retry"}
      BY <1>10, Zenon DEF Watch, AttemptFails, Goto
    <3> QED
      BY <3>1 DEF Admitted
  <2>2. \/ session' = session \/ Kill
        \/ session' = [session EXCEPT ![Here] = IF @ = "ready" THEN "working" ELSE @]
    BY <1>10, Zenon DEF Watch
  <2>3. NoneMade
    BY <1>1, <1>2, <1>3, <2>2
  <2> QED
    BY <2>1, <2>3, FewerKeepBudget
<1> QED
  BY <1>4, <1>5, <1>6, <1>7, <1>8, <1>9, <1>10 DEF ExecutorStep

(* Sessions end; the world makes none.                                     *)
LEMMA WorldKeepsBudget == BudgetInv /\ (World \/ UNCHANGED vars) => BudgetInv'
<1> SUFFICES ASSUME BudgetInv, World \/ UNCHANGED vars PROVE BudgetInv'
  OBVIOUS
<1>1. pc' = pc /\ blind' = blind
  BY WorldFrame
<1>2. /\ DOMAIN session' = DOMAIN session
      /\ \A s \in Plans \X GroupIds : session[s] = "absent" => session'[s] = "absent"
  <2>1. CASE World
    <3>1. \/ session' = session
          \/ \E s \in Live : session' = [session EXCEPT ![s] = "ready"]
                             \/ session' = [session EXCEPT ![s] = "absent"]
      BY <2>1, Zenon DEF World, PaneChanges, ArcAdvances, ArcPlans, ArcStops, SessionDies
    <3> QED
      BY <3>1 DEF BudgetInv, Live
  <2>2. CASE UNCHANGED vars
    BY <2>2 DEF vars, world
  <2> QED
    BY <2>1, <2>2
<1> QED
  BY <1>1, <1>2, FewerKeepBudget

(* BudgetHolds (the session budget of execute_group_once,                  *)
(* src/engine/phase_executor.rs): there are never more sessions than       *)
(* max_concurrent_sessions while tmux can list them, however many are left *)
(* behind by failing calls, deaths of gw and resumes.                      *)
THEOREM BudgetIsKept == Spec => []BudgetHolds
<1>1. Init => BudgetInv
  BY InitBudgetInv
<1>2. BudgetInv /\ [Next]_vars => BudgetInv'
  BY StepCases, RunnerKeepsBudget, ExecutorKeepsBudget, WorldKeepsBudget
<1>3. BudgetInv => BudgetHolds
  BY DEF BudgetInv
<1> QED
  BY <1>1, <1>2, <1>3, PTL DEF Spec

----------------------------------------------------------------------------
(* A set of numbers has its smallest element, and First finds it.          *)
LEMMA FirstIsMember ==
  ASSUME NEW S, S \subseteq Nat, First(S) # 0
  PROVE  First(S) \in S
<1>1. S # {} /\ First(S) = Min(S)
  BY DEF First
<1>2. \E x \in S : \A y \in S : x <= y
  <2> DEFINE R == OpToRel(<, Nat)
  <2>1. IsWellFoundedOn(R, Nat)
    BY NatLessThanWellFounded
  <2>2. PICK x \in S : \A y \in S : ~ (<<y, x>> \in R)
    BY <1>1, <2>1, WFMin
  <2>3. \A y \in S : y < x => <<y, x>> \in R
    BY <2>2 DEF OpToRel
  <2>4. \A y \in S : x <= y
    <3>1. \A y \in S : y \in Nat /\ x \in Nat /\ ~(y < x)
      BY <2>2, <2>3
    <3> QED
      BY <3>1
  <2> QED
    BY <2>4
<1> QED
  BY <1>1, <1>2 DEF Min

(* The first of a set of phases is a number.                               *)
LEMMA FirstIsNatural ==
  ASSUME NEW S, S \subseteq Nat
  PROVE  First(S) \in Nat
<1>1. First(S) = 0 \/ First(S) \in S
  BY FirstIsMember
<1>2. CASE First(S) = 0
  BY <1>2
<1>3. CASE First(S) \in S
  BY <1>3, Zenon
<1> QED
  BY <1>1, <1>2, <1>3

(* What Rune's checkpoint is made of, as far as the proofs use it; Rune    *)
(* does not run what it will skip.                                         *)
CheckpointOK(c) ==
    /\ DOMAIN c = {"status", "finished", "skipMap"}
    /\ DOMAIN c.status = Phases
    /\ \A q \in Phases : q \in c.skipMap => c.status[q] \in {"pending", "skipped"}

(* A phase that is done, or will be skipped, stays so.                     *)
KeepsDone(before, after) ==
    \A q \in Phases : DoneOrWillSkip(before, q) => DoneOrWillSkip(after, q)

(* The arc takes nothing back that is done.                                *)
LEMMA ArcKeepsDone ==
  ASSUME NEW c, CheckpointOK(c), NEW next \in ArcStep(c)
  PROVE  CheckpointOK(next) /\ KeepsDone(c, next)
<1>1. \A st : With(c, st) \subseteq Nat
  BY PhaseAssumption DEF With, Phases, PhaseAssumption
<1>2. Actionable(c) \subseteq With(c, "pending") \ c.skipMap
  BY DEF Actionable
<1>3. \E p \in Phases \ c.skipMap :
         /\ c.status[p] \in {"in_progress", "failed", "pending"}
         /\ \E st : next = [c EXCEPT !.status[p] = st]
  <2> DEFINE running == First(With(c, "in_progress"))
             failed == First(With(c, "failed"))
             ready == First(Actionable(c))
  <2>1. /\ running # 0 => running \in With(c, "in_progress")
        /\ failed # 0 => failed \in With(c, "failed")
        /\ ready # 0 => ready \in With(c, "pending") \ c.skipMap
    BY <1>1, <1>2, FirstIsMember
  <2> HIDE DEF running, failed, ready
  <2>2. \/ running # 0 /\ \E st : next = [c EXCEPT !.status[running] = st]
        \/ failed # 0 /\ \E st : next = [c EXCEPT !.status[failed] = st]
        \/ ready # 0 /\ \E st : next = [c EXCEPT !.status[ready] = st]
    BY DEF ArcStep, running, failed, ready
  <2> QED
    BY <2>1, <2>2 DEF With, CheckpointOK
<1>4. PICK p \in Phases \ c.skipMap :
         /\ c.status[p] \in {"in_progress", "failed", "pending"}
         /\ \E st : next = [c EXCEPT !.status[p] = st]
  BY <1>3
<1>5. /\ DOMAIN next = DOMAIN c /\ next.skipMap = c.skipMap /\ DOMAIN next.status = DOMAIN c.status
      /\ \A q \in Phases : q # p => next.status[q] = c.status[q]
  BY <1>4 DEF CheckpointOK
<1> QED
  BY <1>4, <1>5 DEF CheckpointOK, KeepsDone, DoneOrWillSkip

(* Nor does gw where it marks the phases before a group.                   *)
LEMMA MarkingKeepsDone ==
  ASSUME NEW c, CheckpointOK(c), NEW target
  PROVE  LET marked == MarkCompletedBefore(c, target)
         IN  CheckpointOK(marked) /\ KeepsDone(c, marked)
<1> DEFINE marked == MarkCompletedBefore(c, target)
<1>1. /\ DOMAIN marked = DOMAIN c /\ marked.skipMap = c.skipMap
      /\ marked.status = [q \in Phases |->
            IF q >= target THEN c.status[q] ELSE IF q \in c.skipMap THEN "skipped" ELSE "completed"]
  BY DEF MarkCompletedBefore, CheckpointOK
<1> HIDE DEF marked
<1>2. CheckpointOK(marked)
  BY <1>1 DEF CheckpointOK
<1>3. KeepsDone(c, marked)
  BY <1>1 DEF KeepsDone, DoneOrWillSkip
<1> QED
  BY <1>2, <1>3 DEF marked

(* The detector reports a group complete only from a checkpoint it read.   *)
LEMMA CompletedWasRead ==
  ASSUME NEW det, NEW screen, NEW view, NEW group,
         Tick(det, screen, view, group).event = "completed"
  PROVE  IsGroupComplete(view, group)
BY DEF Tick

----------------------------------------------------------------------------
(* Done with a group: its phases are done, or its condition may have       *)
(* skipped it.                                                             *)
GroupIsDone(c, g) ==
    SkipIf[g] \in Phases \/ \A q \in Groups[g] : DoneOrWillSkip(c, q)

DoneBefore(c, n) == \A g \in GroupIds : g < n => GroupIsDone(c, g)

(* A plan that has been read has a checkpoint, and only such a plan has a  *)
(* session at work.                                                        *)
CheckpointsOK ==
    /\ DOMAIN cp = Plans
    /\ \A p \in Plans : cp[p] = None \/ CheckpointOK(cp[p])
    /\ DOMAIN session = Plans \X GroupIds
    /\ \A s \in Plans \X GroupIds : session[s] = "working" => CheckpointOK(cp[s[1]])

(* The executor reaches a group when it is done with those before it, and  *)
(* what it has read and will write says so, too.                           *)
GroupsInTurn ==
    /\ pc \in {"load", "init"} => exec.group = 1
    /\ pc \in Executing \ {"load", "init"} =>
          CheckpointOK(cp[exec.plan]) /\ DoneBefore(cp[exec.plan], exec.group)
    /\ pc \in {"init", "write"} => CheckpointOK(exec.copy)
    /\ pc = "write" => DoneBefore(exec.copy, exec.group)
    /\ pc = "done" => GroupIsDone(cp[exec.plan], exec.group)

PassedInv == OrderInv /\ CheckpointsOK /\ GroupsInTurn

(* What keeps phases done keeps groups done.                               *)
LEMMA KeepsGroups ==
  ASSUME NEW before, NEW after, KeepsDone(before, after)
  PROVE  /\ \A g \in GroupIds : GroupIsDone(before, g) => GroupIsDone(after, g)
         /\ \A n : DoneBefore(before, n) => DoneBefore(after, n)
<1>1. \A g \in GroupIds : Groups[g] \subseteq Phases
  BY ValidConfig DEF ValidConfig
<1>2. \A g \in GroupIds : GroupIsDone(before, g) => GroupIsDone(after, g)
  BY <1>1 DEF KeepsDone, GroupIsDone
<1> QED
  BY <1>2 DEF DoneBefore

(* Nothing is done before the first group.                                 *)
LEMMA NothingBeforeFirst == \A c : DoneBefore(c, 1)
BY GroupIdsFacts DEF DoneBefore

(* A group that should be skipped is done with.                            *)
LEMMA SkippedIsDone ==
  ASSUME NEW g, NEW c, ShouldSkip(g, c)
  PROVE  GroupIsDone(c, g)
BY DEF ShouldSkip, GroupIsDone

(* One more group is done.                                                 *)
LEMMA OneMoreDone ==
  ASSUME NEW c, NEW g \in GroupIds, DoneBefore(c, g), GroupIsDone(c, g)
  PROVE  DoneBefore(c, g + 1)
<1>1. g \in Nat /\ \A h \in GroupIds : h \in Nat
  BY GroupIdsFacts
<1>2. \A h \in GroupIds : h < g + 1 => h < g \/ h = g
  BY <1>1
<1> QED
  BY <1>2 DEF DoneBefore

(* gw starts with no checkpoint and no session.                            *)
LEMMA InitPassedInv == Init => PassedInv
<1> SUFFICES ASSUME Init PROVE PassedInv
  OBVIOUS
<1>1. OrderInv
  BY InitOrderInv
<1>2. pc = "save" /\ cp = [p \in Plans |-> None] /\ session = [s \in Plans \X GroupIds |-> "absent"]
  BY DEF Init
<1>3. CheckpointsOK
  BY <1>2 DEF CheckpointsOK
<1>4. GroupsInTurn
  BY <1>2 DEF GroupsInTurn, Executing
<1> QED
  BY <1>1, <1>3, <1>4 DEF PassedInv

(* Where checkpoints stay and no session is set to work.                   *)
LEMMA CheckpointsStay ==
  ASSUME CheckpointsOK, cp' = cp, DOMAIN session' = DOMAIN session,
         \A s \in Plans \X GroupIds :
            session'[s] = "working" => session[s] = "working" \/ CheckpointOK(cp[s[1]])
  PROVE  CheckpointsOK'
BY DEF CheckpointsOK

(* The runner touches no checkpoint, and starts plans at the first group.  *)
LEMMA RunnerKeepsGroups == PassedInv /\ RunnerStep => CheckpointsOK' /\ GroupsInTurn'
<1> SUFFICES ASSUME PassedInv, RunnerStep PROVE CheckpointsOK' /\ GroupsInTurn'
  OBVIOUS
<1>1. cp' = cp /\ (session' = session \/ Swept)
  BY Zenon DEF RunnerStep, SaveInitial, NextPlan, PlanRefused, RunAborts, SkipFirst, SkipRest,
     RecordAndSave, Finish, GwDies, Resume, Leave, world
<1>2. CheckpointsOK'
  BY <1>1, CheckpointsStay DEF PassedInv, CheckpointsOK, Swept
<1>3. CASE NextPlan
  <2>1. pc' = "load" /\ exec' = [NoExec EXCEPT !.plan = Head(queue)]
    BY <1>3 DEF NextPlan
  <2>2. exec'.group = 1
    BY <2>1 DEF NoExec
  <2> QED
    BY <1>2, <2>1, <2>2 DEF GroupsInTurn
<1>4. CASE ~NextPlan
  <2>1. pc' \notin Executing
    BY <1>4, Zenon DEF RunnerStep, SaveInitial, PlanRefused, RunAborts, SkipFirst, SkipRest,
       RecordAndSave, Finish, GwDies, Resume, Leave, Executing
  <2> QED
    BY <1>2, <2>1 DEF GroupsInTurn, Executing
<1> QED
  BY <1>3, <1>4

(* Rune and the machine take nothing back.                                 *)
LEMMA WorldKeepsGroups ==
  PassedInv /\ (World \/ UNCHANGED vars) => CheckpointsOK' /\ GroupsInTurn'
<1> SUFFICES ASSUME PassedInv, World \/ UNCHANGED vars PROVE CheckpointsOK' /\ GroupsInTurn'
  OBVIOUS
<1>1. pc' = pc /\ exec' = exec
  BY WorldFrame
<1>2. /\ DOMAIN cp' = Plans
      /\ \A p \in Plans : cp'[p] = cp[p] \/ (CheckpointOK(cp'[p]) /\ KeepsDone(cp[p], cp'[p]))
      /\ DOMAIN session' = DOMAIN session
      /\ \A s \in Plans \X GroupIds : session'[s] = "working" => session[s] = "working"
  <2> USE DEF PassedInv, CheckpointsOK
  <2>1. CASE UNCHANGED vars
    BY <2>1 DEF vars, world
  <2>2. CASE PaneChanges
    BY <2>2 DEF PaneChanges
  <2>3. ASSUME NEW s \in Live, ArcAdvances(s)
        PROVE  <1>2!1 /\ <1>2!2 /\ <1>2!3 /\ <1>2!4
    <3>1. s \in Plans \X GroupIds /\ s[1] \in Plans /\ CheckpointOK(cp[s[1]]) /\ session' = session
      BY <2>3 DEF ArcAdvances, Live
    <3>2. PICK next \in ArcStep(cp[s[1]]) : cp' = [cp EXCEPT ![s[1]] = next]
      BY <2>3 DEF ArcAdvances
    <3>3. CheckpointOK(next) /\ KeepsDone(cp[s[1]], next)
      BY <3>1, <3>2, ArcKeepsDone
    <3> QED
      BY <3>1, <3>2, <3>3
  <2>4. ASSUME NEW s \in Live, ArcPlans(s)
        PROVE  <1>2!1 /\ <1>2!2 /\ <1>2!3 /\ <1>2!4
    <3>1. s \in Plans \X GroupIds /\ s[1] \in Plans /\ session' = session /\ cp[s[1]] = FreshCheckpoint
      BY <2>4 DEF ArcPlans, Live
    <3>2. PICK skipMap \in SkipMaps : cp' = [cp EXCEPT ![s[1]].skipMap = skipMap]
      BY <2>4 DEF ArcPlans
    <3> DEFINE next == [FreshCheckpoint EXCEPT !.skipMap = skipMap]
    <3>3. cp' = [cp EXCEPT ![s[1]] = next]
      BY <3>1, <3>2
    <3>4. CheckpointOK(next)
      BY DEF FreshCheckpoint, CheckpointOK
    <3>5. KeepsDone(FreshCheckpoint, next)
      BY DEF FreshCheckpoint, KeepsDone, DoneOrWillSkip
    <3> QED
      BY <3>1, <3>3, <3>4, <3>5
  <2>5. ASSUME NEW s \in Live, ArcStops(s) \/ SessionDies(s)
        PROVE  <1>2!1 /\ <1>2!2 /\ <1>2!3 /\ <1>2!4
    <3>1. /\ cp' = cp
          /\ session' = [session EXCEPT ![s] = "ready"] \/ session' = [session EXCEPT ![s] = "absent"]
      BY <2>5 DEF ArcStops, SessionDies
    <3> QED
      BY <3>1
  <2> QED
    BY <2>1, <2>2, <2>3, <2>4, <2>5 DEF World
<1>3. CheckpointsOK'
  BY <1>2 DEF PassedInv, CheckpointsOK
<1>4. pc \in Executing => exec.plan \in Plans
  BY DEF PassedInv, OrderInv, RunnerOK, ExecOK, Plans
<1>5. /\ CheckpointOK(cp[exec.plan]) /\ pc \in Executing => CheckpointOK(cp'[exec.plan])
      /\ pc \in Executing => KeepsDone(cp[exec.plan], cp'[exec.plan])
  BY <1>2, <1>4 DEF KeepsDone
<1>6. pc \in Executing =>
        /\ \A g \in GroupIds : GroupIsDone(cp[exec.plan], g) => GroupIsDone(cp'[exec.plan], g)
        /\ \A n : DoneBefore(cp[exec.plan], n) => DoneBefore(cp'[exec.plan], n)
  BY <1>5, KeepsGroups
<1>7. exec.group \in GroupIds /\ (pc \in {"done", "write"} => pc \in Executing)
  BY DEF PassedInv, OrderInv, RunnerOK, ExecOK, Executing
<1>8. GroupsInTurn'
  BY <1>1, <1>5, <1>6, <1>7, Zenon DEF PassedInv, GroupsInTurn
<1> QED
  BY <1>3, <1>8

(* The executor calls a plan passed when it is done with its last group.   *)
PassedStep ==
    exec.result = None /\ exec'.result = "passed" =>
        \A g \in GroupIds : GroupIsDone(cp[exec.plan], g)

(* Done with a group, the executor goes on to the next, or has done all.   *)
LEMMA GroupDoneInTurn ==
  ASSUME PassedInv, GroupDone, cp' = cp, pc \in Executing \ {"load", "init"},
         GroupIsDone(cp[exec.plan], exec.group)
  PROVE  GroupsInTurn' /\ PassedStep
<1> USE NoExecFacts, GroupIdsFacts
<1>1. /\ exec.group \in GroupIds /\ CheckpointOK(cp[exec.plan])
      /\ DoneBefore(cp[exec.plan], exec.group)
  BY DEF PassedInv, OrderInv, RunnerOK, ExecOK, GroupsInTurn
<1>2. DoneBefore(cp[exec.plan], exec.group + 1)
  BY <1>1, OneMoreDone
<1>3. CASE exec.group = Len(Groups)
  <2>1. pc' = "record"
    BY <1>3 DEF GroupDone, PlanEnds, Goto
  <2>2. \A g \in GroupIds : g < exec.group + 1
    BY <1>3
  <2>3. PassedStep
    BY <1>2, <2>2 DEF PassedStep, DoneBefore
  <2> QED
    BY <2>1, <2>3 DEF GroupsInTurn, Executing
<1>4. CASE exec.group # Len(Groups)
  <2>1. pc' = "group" /\ exec' = [NoExec EXCEPT !.plan = exec.plan, !.group = exec.group + 1]
    BY <1>4 DEF GroupDone, Goto
  <2>2. exec'.plan = exec.plan /\ exec'.group = exec.group + 1 /\ exec'.result = None
    BY <2>1
  <2>3. GroupsInTurn'
    BY <1>1, <1>2, <2>1, <2>2 DEF GroupsInTurn
  <2>4. PassedStep
    BY <2>2, BatchAssumption DEF PassedStep, BatchAssumption, Outcomes
  <2> QED
    BY <2>3, <2>4
<1> QED
  BY <1>3, <1>4

(* The steps of a group leave the checkpoint alone, but for two.           *)
LEMMA SameGroupInTurn ==
  ASSUME PassedInv, cp' = cp, pc \in Executing \ {"load", "init"},
         exec'.plan = exec.plan, exec'.group = exec.group, exec'.result = None,
         pc' \in Executing \ {"load", "init", "write", "done"}
  PROVE  GroupsInTurn' /\ PassedStep
<1>1. GroupsInTurn'
  BY DEF PassedInv, GroupsInTurn
<1>2. PassedStep
  BY BatchAssumption DEF PassedStep, BatchAssumption, Outcomes
<1> QED
  BY <1>1, <1>2

(* The plan ends with a failure.                                           *)
LEMMA FailureInTurn ==
  ASSUME NEW result, result # "passed", PlanEnds(result)
  PROVE  GroupsInTurn' /\ PassedStep
<1>1. pc' = "record" /\ exec'.result = result
  BY DEF PlanEnds, Goto, NoExec
<1> QED
  BY <1>1 DEF GroupsInTurn, PassedStep, Executing

(* The executor goes through the groups in turn, and takes nothing back.   *)
LEMMA ExecutorKeepsGroups ==
  PassedInv /\ ExecutorStep => CheckpointsOK' /\ GroupsInTurn' /\ PassedStep
<1> SUFFICES ASSUME PassedInv, ExecutorStep PROVE CheckpointsOK' /\ GroupsInTurn' /\ PassedStep
  OBVIOUS
<1> DEFINE InGroup == Executing \ {"load", "init"}
           Settled == Executing \ {"load", "init", "write", "done"}
<1>1. /\ pc \in Executing /\ exec.plan \in Plans /\ exec.group \in GroupIds
      /\ DOMAIN exec = {"plan", "group", "attempts", "class", "result", "copy", "det"}
      /\ exec.result = None /\ Here \in Plans \X GroupIds /\ Here[1] = exec.plan
  <2>1. pc \in Executing
    BY ExecutorFrame DEF PassedInv, OrderInv, RunnerOK
  <2> QED
    BY <2>1 DEF PassedInv, OrderInv, RunnerOK, ExecOK, Plans, Here, Executing
<1>2. None # "passed"
  BY BatchAssumption DEF BatchAssumption, Outcomes
<1>3. cp' = cp /\ session' = session => CheckpointsOK'
  BY CheckpointsStay DEF PassedInv, CheckpointsOK
<1>4. cp' = cp /\ (Kill \/ Swept) => CheckpointsOK'
  BY CheckpointsStay DEF PassedInv, CheckpointsOK, Kill, Swept
<1>5. /\ pc \in InGroup /\ cp' = cp
      /\ \/ session' = [session EXCEPT ![Here] = IF @ = "ready" THEN "working" ELSE @]
         \/ \E left \in {"absent", "ready"} : session' = [session EXCEPT ![Here] = left]
      => CheckpointsOK'
  <2> SUFFICES ASSUME pc \in InGroup, cp' = cp,
                      \/ session' = [session EXCEPT ![Here] = IF @ = "ready" THEN "working" ELSE @]
                      \/ \E left \in {"absent", "ready"} : session' = [session EXCEPT ![Here] = left]
               PROVE  CheckpointsOK'
    OBVIOUS
  <2>1. CheckpointOK(cp[Here[1]])
    BY <1>1 DEF PassedInv, GroupsInTurn
  <2>2. CheckpointsOK
    BY DEF PassedInv
  <2>3. /\ DOMAIN session' = DOMAIN session
        /\ \A s \in Plans \X GroupIds :
              session'[s] = "working" => session[s] = "working" \/ s = Here
    BY <1>1, <2>2 DEF CheckpointsOK
  <2> QED
    BY <2>1, <2>2, <2>3, CheckpointsStay
<1>6. ASSUME NEW class, AttemptFails(class), cp' = cp, pc \in InGroup
      PROVE  GroupsInTurn' /\ PassedStep
  <2>1. /\ exec'.plan = exec.plan /\ exec'.group = exec.group /\ exec'.result = None
        /\ pc' = "retry"
    BY <1>1, <1>6 DEF AttemptFails, Goto
  <2> QED
    BY <1>6, <2>1, SameGroupInTurn DEF Executing
<1>7. CASE LoadCheckpoint
  <2> DEFINE copy == IF cp[exec.plan] = None THEN FreshCheckpoint ELSE cp[exec.plan]
  <2>1. /\ pc = "load" /\ pc' = "init" /\ cp' = cp /\ session' = session
        /\ exec' = [exec EXCEPT !.copy = copy]
    BY <1>7 DEF LoadCheckpoint, Goto, world
  <2>2. CheckpointOK(copy)
    <3>1. CheckpointOK(FreshCheckpoint)
      BY DEF FreshCheckpoint, CheckpointOK
    <3> QED
      BY <1>1, <3>1 DEF PassedInv, CheckpointsOK
  <2> HIDE DEF copy
  <2>3. exec'.group = 1 /\ exec'.copy = copy /\ exec'.result = None
    BY <1>1, <2>1 DEF PassedInv, GroupsInTurn
  <2> QED
    BY <1>2, <1>3, <2>1, <2>2, <2>3 DEF GroupsInTurn, PassedStep, Executing
<1>8. CASE WriteInitial \/ WriteCheckpoint
  <2>1. /\ pc \in {"init", "write"} /\ pc' \in {"group", "spawn"} /\ session' = session
        /\ cp' = [cp EXCEPT ![exec.plan] = exec.copy]
        /\ exec' = [exec EXCEPT !.copy = None]
    BY <1>8 DEF WriteInitial, WriteCheckpoint, Goto
  <2>2. CheckpointOK(exec.copy)
    BY <2>1 DEF PassedInv, GroupsInTurn
  <2>3. CheckpointsOK'
    BY <1>1, <2>1, <2>2 DEF PassedInv, CheckpointsOK
  <2>4. exec'.plan = exec.plan /\ exec'.group = exec.group /\ exec'.result = None
    BY <1>1, <2>1
  <2>5. cp'[exec.plan] = exec.copy
    BY <1>1, <2>1 DEF PassedInv, CheckpointsOK
  <2>6. DoneBefore(exec.copy, exec.group)
    BY <2>1, NothingBeforeFirst DEF PassedInv, GroupsInTurn
  <2>7. GroupsInTurn'
    BY <2>1, <2>2, <2>4, <2>5, <2>6 DEF GroupsInTurn
  <2> QED
    BY <1>2, <2>3, <2>4, <2>7 DEF PassedStep
<1>9. CASE SkipGroup
  <2>1. /\ pc = "group" /\ GroupDone /\ cp' = cp /\ session' = session
        /\ ShouldSkip(exec.group, cp[exec.plan])
    BY <1>9 DEF SkipGroup, world
  <2> QED
    BY <1>3, <2>1, SkippedIsDone, GroupDoneInTurn DEF Executing
<1>10. CASE GroupSucceeds
  <2>1. pc = "done" /\ GroupDone /\ cp' = cp /\ session' = session
    BY <1>10 DEF GroupSucceeds, world
  <2>2. GroupIsDone(cp[exec.plan], exec.group)
    BY <2>1 DEF PassedInv, GroupsInTurn
  <2> QED
    BY <1>3, <2>1, <2>2, GroupDoneInTurn DEF Executing
<1>11. CASE ReadCheckpoint
  <2> DEFINE copy == MarkCompletedBefore(cp[exec.plan], First(Phase))
  <2>1. /\ pc = "read" /\ pc' = "write" /\ cp' = cp /\ session' = session
        /\ exec' = [exec EXCEPT !.copy = copy]
    BY <1>11 DEF ReadCheckpoint, Goto, world
  <2>2. CheckpointOK(cp[exec.plan]) /\ DoneBefore(cp[exec.plan], exec.group)
    BY <2>1 DEF PassedInv, GroupsInTurn, Executing
  <2>3. CheckpointOK(copy) /\ KeepsDone(cp[exec.plan], copy)
    BY <2>2, MarkingKeepsDone
  <2>4. DoneBefore(copy, exec.group)
    BY <2>2, <2>3, KeepsGroups
  <2> HIDE DEF copy
  <2>5. /\ exec'.plan = exec.plan /\ exec'.group = exec.group /\ exec'.result = None
        /\ exec'.copy = copy
    BY <1>1, <2>1
  <2> QED
    BY <1>2, <1>3, <2>1, <2>2, <2>3, <2>4, <2>5 DEF GroupsInTurn, PassedStep, Executing
<1>12. CASE EnterGroup \/ PreFlightBlind \/ PromptSeen \/ RetryGroup
  <2>1. /\ cp' = cp /\ session' = session
        /\ pc \in InGroup /\ pc' \in Settled
    BY <1>12 DEF EnterGroup, PreFlightBlind, PromptSeen, RetryGroup, Goto, world, Executing
  <2>2. exec'.plan = exec.plan /\ exec'.group = exec.group /\ exec'.result = None
    BY <1>1, <1>12 DEF EnterGroup, PreFlightBlind, PromptSeen, RetryGroup, Goto
  <2> QED
    BY <1>3, <2>1, <2>2, SameGroupInTurn
<1>13. CASE PreFlight
  <2>1. pc = "flight" /\ cp' = cp /\ Swept /\ (Goto("read", exec) \/ PlanErrs)
    BY <1>13 DEF PreFlight
  <2>2. CASE Goto("read", exec)
    <3>1. pc' = "read" /\ exec' = exec
      BY <2>2 DEF Goto
    <3> QED
      BY <1>1, <1>4, <2>1, <3>1, SameGroupInTurn DEF Executing
  <2>3. CASE PlanErrs
    BY <1>4, <2>1, <2>3, FailureInTurn DEF PlanErrs
  <2> QED
    BY <2>1, <2>2, <2>3
<1>14. CASE BeforeSpawnErrs
  <2>1. cp' = cp /\ session' = session /\ PlanErrs
    BY <1>14 DEF BeforeSpawnErrs, world
  <2> QED
    BY <1>3, <2>1, FailureInTurn DEF PlanErrs
<1>15. CASE SessionCallErrs
  <2>1. cp' = cp /\ session' = session /\ PlanErrs
    BY <1>15 DEF SessionCallErrs
  <2> QED
    BY <1>3, <2>1, FailureInTurn DEF PlanErrs
<1>16. CASE GroupFails
  <2>1. /\ cp' = cp /\ session' = session
        /\ \E result \in {"transient", "failed"} : PlanEnds(result)
    BY <1>16 DEF GroupFails, world
  <2> QED
    BY <1>3, <2>1, FailureInTurn
<1>17. CASE Spawn \/ SendCommand
  <2>1. /\ pc \in InGroup /\ pc' \in Settled /\ cp' = cp
        /\ \/ session' = [session EXCEPT ![Here] = IF @ = "ready" THEN "working" ELSE @]
           \/ \E left \in {"absent", "ready"} : session' = [session EXCEPT ![Here] = left]
    BY <1>17 DEF Spawn, SendCommand, Goto, Executing
  <2>2. exec'.plan = exec.plan /\ exec'.group = exec.group /\ exec'.result = None
    BY <1>1, <1>17 DEF Spawn, SendCommand, Goto
  <2> QED
    BY <1>5, <2>1, <2>2, SameGroupInTurn
<1>18. CASE SpawnFails
  <2>1. /\ pc \in InGroup /\ cp' = cp /\ AttemptFails("crash")
        /\ \/ session' = session
           \/ \E left \in {"absent", "ready"} : session' = [session EXCEPT ![Here] = left]
    BY <1>18 DEF SpawnFails, Executing
  <2> QED
    BY <1>3, <1>5, <1>6, <2>1
<1>19. CASE PromptTimeout
  <2>1. pc \in InGroup /\ cp' = cp /\ Kill /\ AttemptFails("crash")
    BY <1>19 DEF PromptTimeout, Executing
  <2> QED
    BY <1>4, <1>6, <2>1
<1>20. CASE Watch
  <2>1. pc = "tick" /\ pc \in InGroup /\ cp' = cp
    BY <1>20 DEF Watch, Executing
  <2>2. CheckpointsOK'
    <3>1. \/ session' = session \/ Kill
          \/ session' = [session EXCEPT ![Here] = IF @ = "ready" THEN "working" ELSE @]
      BY <1>20, Zenon DEF Watch
    <3> QED
      BY <1>3, <1>4, <1>5, <2>1, <3>1
  <2>3. \/ \E det : Goto("tick", [exec EXCEPT !.det = det])
        \/ /\ Goto("done", [exec EXCEPT !.det = NewState])
           /\ \E view \in Views :
                 Tick(Later(exec.det), Screen, view, Phase).event = "completed"
        \/ \E class : AttemptFails(class)
    BY <1>20, Zenon DEF Watch
  <2>4. CASE \E det : Goto("tick", [exec EXCEPT !.det = det])
    <3>1. /\ pc' = "tick" /\ exec'.plan = exec.plan /\ exec'.group = exec.group
          /\ exec'.result = None
      BY <1>1, <2>4 DEF Goto
    <3> QED
      BY <2>1, <2>2, <3>1, SameGroupInTurn DEF Executing
  <2>5. CASE /\ Goto("done", [exec EXCEPT !.det = NewState])
             /\ \E view \in Views :
                   Tick(Later(exec.det), Screen, view, Phase).event = "completed"
    <3>1. /\ pc' = "done" /\ exec'.plan = exec.plan /\ exec'.group = exec.group
          /\ exec'.result = None
      BY <1>1, <2>5 DEF Goto
    <3>2. PICK view \in Views : IsGroupComplete(view, Phase)
      BY <2>5, CompletedWasRead
    <3>3. \A p \in Groups[exec.group] : cp[exec.plan].status[p] \in {"completed", "skipped"}
      BY <3>2 DEF Views, Unreadable, IsGroupComplete, Phase
    <3>4. GroupIsDone(cp[exec.plan], exec.group)
      BY <3>3 DEF GroupIsDone, DoneOrWillSkip
    <3>5. CheckpointOK(cp[exec.plan]) /\ DoneBefore(cp[exec.plan], exec.group)
      BY <2>1 DEF PassedInv, GroupsInTurn
    <3> QED
      BY <1>2, <2>1, <2>2, <3>1, <3>4, <3>5 DEF GroupsInTurn, PassedStep
  <2>6. CASE \E class : AttemptFails(class)
    BY <1>6, <2>1, <2>2, <2>6
  <2> QED
    BY <2>3, <2>4, <2>5, <2>6
<1> QED
  BY <1>7, <1>8, <1>9, <1>10, <1>11, <1>12, <1>13, <1>14, <1>15, <1>16, <1>17, <1>18,
     <1>19, <1>20 DEF ExecutorStep

(* PassedIsDone (PhaseGroupExecutor::execute_plan,                         *)
(* src/engine/phase_executor.rs): a plan passes only when every phase of   *)
(* its groups is done in its checkpoint, or will be skipped, but for       *)
(* groups skipped by their condition, whatever else writes the checkpoint. *)
THEOREM PassedPlansAreDone == Spec => PassedIsDone
<1>1. Init => PassedInv
  BY InitPassedInv
<1>2. PassedInv /\ [Next]_vars => PassedInv' /\ PassedStep
  <2> SUFFICES ASSUME PassedInv, [Next]_vars PROVE PassedInv' /\ PassedStep
    OBVIOUS
  <2>1. OrderInv'
    BY NextOrderInv DEF PassedInv
  <2>2. CASE ExecutorStep
    BY <2>1, <2>2, ExecutorKeepsGroups DEF PassedInv
  <2>3. CASE World \/ UNCHANGED vars
    <3>1. exec' = exec
      BY <2>3, WorldFrame
    <3>2. PassedStep
      BY <3>1, BatchAssumption DEF PassedStep, BatchAssumption, Outcomes
    <3> QED
      BY <2>1, <2>3, <3>2, WorldKeepsGroups DEF PassedInv
  <2>4. CASE RunnerStep
    <3>3. \/ exec' = exec \/ exec' = NoExec
          \/ \E plan : \/ exec' = [NoExec EXCEPT !.plan = plan]
                       \/ exec' = [NoExec EXCEPT !.plan = plan, !.result = "failed"]
      BY <2>4, Zenon DEF RunnerStep, SaveInitial, NextPlan, PlanRefused, RunAborts, SkipFirst,
         SkipRest, RecordAndSave, Finish, GwDies, Resume, Leave
    <3>1. exec'.result # "passed" \/ exec' = exec
      BY <3>3, NoExecFacts, BatchAssumption DEF BatchAssumption, Outcomes
    <3>2. PassedStep
      BY <3>1, BatchAssumption DEF PassedStep, BatchAssumption, Outcomes
    <3> QED
      BY <2>1, <2>4, <3>2, RunnerKeepsGroups DEF PassedInv
  <2> QED
    BY <2>2, <2>3, <2>4, StepCases
<1>3. PassedInv /\ [Next]_vars =>
        [exec.result = None /\ exec'.result = "passed" =>
          \A g \in GroupIds, q \in Phases :
             q \in Groups[g] =>
                \/ q \in cp[exec.plan].skipMap
                \/ cp[exec.plan].status[q] \in {"completed", "skipped"}
                \/ SkipIf[g] \in Phases]_vars
  BY <1>2 DEF PassedStep, GroupIsDone, DoneOrWillSkip
<1>4. PassedInv /\ [Next]_vars => PassedInv'
  BY <1>2
<1> QED
  BY <1>1, <1>3, <1>4, PTL DEF Spec, PassedIsDone

----------------------------------------------------------------------------
(* The groups cover, in order, the phases before each of them: what        *)
(* validate warns of otherwise.                                            *)
GroupsInOrder ==
    \A g \in GroupIds, q \in Phases :
       q < First(Groups[g]) => \E h \in GroupIds : h < g /\ q \in Groups[h]

(* What gw is about to write is what the checkpoint says, marked.          *)
HandoffInv ==
    /\ PassedInv /\ BudgetInv
    /\ pc = "write" =>
          blind \/ exec.copy = MarkCompletedBefore(cp[exec.plan], First(Phase))

(* Only reading a checkpoint leads to writing it, and only writing to the  *)
(* new session.                                                            *)
LEMMA HandoffSteps ==
  ASSUME RunnerStep \/ ExecutorStep
  PROVE  /\ pc' = "write" => ReadCheckpoint
         /\ pc = "write" /\ pc' = "spawn" => WriteCheckpoint
<1>1. CASE RunnerStep
  <2>1. pc' \in {"next", "load", "record", "skip", "ended", "dead", "save"}
    BY <1>1 DEF RunnerStep, SaveInitial, NextPlan, PlanRefused, RunAborts, SkipFirst, SkipRest,
       RecordAndSave, Finish, GwDies, Resume, Leave
  <2> QED
    BY <2>1
<1>2. CASE ReadCheckpoint
  BY <1>2 DEF ReadCheckpoint, Goto
<1>3. CASE WriteCheckpoint
  BY <1>3 DEF WriteCheckpoint, Goto
<1>4. CASE Watch
  <2>1. pc' \in {"tick", "done", "retry"}
    BY <1>4, Zenon DEF Watch, AttemptFails, Goto
  <2> QED
    BY <2>1
<1>5. CASE ExecutorStep /\ ~(ReadCheckpoint \/ WriteCheckpoint \/ Watch \/ Spawn)
  <2>1. pc' \in {"init", "record", "group", "flight", "read", "prompt", "retry", "send", "tick"}
    BY <1>5 DEF ExecutorStep, LoadCheckpoint, WriteInitial, SkipGroup, EnterGroup, PreFlight,
       PreFlightBlind, BeforeSpawnErrs, SpawnFails, PromptSeen, PromptTimeout, SendCommand,
       SessionCallErrs, GroupSucceeds, RetryGroup, GroupFails, GroupDone, PlanErrs, PlanEnds,
       AttemptFails, Goto
  <2> QED
    BY <2>1
<1>6. CASE Spawn
  BY <1>6 DEF Spawn, Goto
<1> QED
  BY <1>1, <1>2, <1>3, <1>4, <1>5, <1>6

(* gw has read and written nothing.                                        *)
LEMMA InitHandoffInv == Init => HandoffInv
<1> SUFFICES ASSUME Init PROVE HandoffInv
  OBVIOUS
<1>1. PassedInv /\ BudgetInv
  BY InitPassedInv, InitBudgetInv
<1>2. pc = "save"
  BY DEF Init
<1> QED
  BY <1>1, <1>2 DEF HandoffInv

(* With a budget of one session, no arc writes while gw hands over.        *)
LEMMA AloneAtHandoff ==
  ASSUME MaxSessions = 1, BudgetInv, pc = "write", ~blind
  PROVE  Live = {}
<1>1. Cardinality(Live) < 1 /\ Cardinality(Live) \in Nat /\ IsFiniteSet(Live)
  BY LiveIsFinite DEF BudgetInv, Admitted
<1>2. Cardinality(Live) = 0
  BY <1>1
<1> QED
  BY <1>1, <1>2, FS_EmptySet

(* The invariant of the handoff is inductive.                              *)
LEMMA NextHandoffInv ==
  ASSUME MaxSessions = 1, HandoffInv, [Next]_vars
  PROVE  HandoffInv'
<1>1. PassedInv'
  <2>1. OrderInv'
    BY NextOrderInv DEF HandoffInv, PassedInv
  <2> QED
    BY <2>1, StepCases, RunnerKeepsGroups, ExecutorKeepsGroups, WorldKeepsGroups
    DEF HandoffInv, PassedInv
<1>2. BudgetInv'
  BY StepCases, RunnerKeepsBudget, ExecutorKeepsBudget, WorldKeepsBudget DEF HandoffInv
<1>3. CASE RunnerStep \/ ExecutorStep
  <2>1. CASE pc' # "write"
    BY <1>1, <1>2, <2>1 DEF HandoffInv
  <2>2. CASE pc' = "write"
    <3> DEFINE copy == MarkCompletedBefore(cp[exec.plan], First(Phase))
    <3>1. cp' = cp /\ exec' = [exec EXCEPT !.copy = copy]
      BY <1>3, <2>2, HandoffSteps DEF ReadCheckpoint, Goto, world
    <3> HIDE DEF copy
    <3>2. exec'.copy = copy /\ exec'.plan = exec.plan /\ exec'.group = exec.group
      BY <3>1 DEF HandoffInv, PassedInv, OrderInv, RunnerOK, ExecOK
    <3>3. MarkCompletedBefore(cp[exec.plan], First(Phase))' = copy
      BY <3>1, <3>2 DEF MarkCompletedBefore, Phase, copy
    <3> QED
      BY <1>1, <1>2, <3>2, <3>3 DEF HandoffInv
  <2> QED
    BY <2>1, <2>2
<1>4. CASE World \/ UNCHANGED vars
  <2>1. pc' = pc /\ exec' = exec /\ blind' = blind
    BY <1>4, WorldFrame
  <2>2. pc = "write" /\ ~blind => cp' = cp
    <3>1. pc = "write" /\ ~blind => Live = {}
      BY AloneAtHandoff DEF HandoffInv
    <3>2. Live = {} => cp' = cp
      BY <1>4, Zenon DEF World, PaneChanges, vars, world
    <3> QED
      BY <3>1, <3>2
  <2>3. cp' = cp => MarkCompletedBefore(cp[exec.plan], First(Phase))'
                      = MarkCompletedBefore(cp[exec.plan], First(Phase))
    BY <2>1 DEF MarkCompletedBefore, Phase
  <2> QED
    BY <1>1, <1>2, <2>1, <2>2, <2>3 DEF HandoffInv
<1> QED
  BY <1>3, <1>4, StepCases

(* What a rewrite of the checkpoint may change.                            *)
HonestStep ==
    pc = "write" /\ pc' = "spawn" /\ ~blind =>
       \A q \in Rewritten(exec.plan) :
          /\ cp[exec.plan].status[q] # "completed"
          /\ \/ DoneOrWillSkip(cp[exec.plan], q)
             \/ \E g \in GroupIds : q \in Groups[g] /\ SkipIf[g] \in Phases

(* The phases gw marks are those of the groups it is done with.            *)
LEMMA WritingIsHonest ==
  ASSUME GroupsInOrder, HandoffInv, WriteCheckpoint
  PROVE  HonestStep
<1> SUFFICES ASSUME ~blind, NEW q \in Rewritten(exec.plan)
             PROVE  /\ cp[exec.plan].status[q] # "completed"
                    /\ \/ DoneOrWillSkip(cp[exec.plan], q)
                       \/ \E g \in GroupIds : q \in Groups[g] /\ SkipIf[g] \in Phases
  BY DEF HonestStep
<1> DEFINE c == cp[exec.plan]
           target == First(Groups[exec.group])
<1>1. /\ pc = "write" /\ cp' = [cp EXCEPT ![exec.plan] = exec.copy]
      /\ exec.plan \in Plans /\ DOMAIN cp = Plans /\ exec.group \in GroupIds
  BY DEF WriteCheckpoint, HandoffInv, PassedInv, OrderInv, RunnerOK, ExecOK, CheckpointsOK,
     Plans, Executing
<1>2. CheckpointOK(c) /\ DoneBefore(c, exec.group)
  BY <1>1 DEF HandoffInv, PassedInv, GroupsInTurn, Executing
<1>3. cp'[exec.plan] = MarkCompletedBefore(c, target)
  BY <1>1 DEF HandoffInv, Phase
<1>4. q \in Phases /\ c # None /\ MarkCompletedBefore(c, target).status[q] # c.status[q]
  BY <1>3 DEF Rewritten
<1>5. MarkCompletedBefore(c, target).status[q] =
         IF q >= target THEN c.status[q] ELSE IF q \in c.skipMap THEN "skipped" ELSE "completed"
  BY <1>2, <1>4 DEF MarkCompletedBefore, CheckpointOK
<1>6. ~(q >= target)
  BY <1>4, <1>5
<1>7. c.status[q] # "completed"
  BY <1>2, <1>4, <1>5, <1>6 DEF CheckpointOK
<1>8. q < target
  <2>1. Groups[exec.group] \subseteq Phases /\ Phases \subseteq Nat
    BY <1>1, ValidConfig, PhaseAssumption DEF ValidConfig, Phases, PhaseAssumption
  <2>2. target \in Nat /\ q \in Nat
    BY <1>4, <2>1, FirstIsNatural
  <2> HIDE DEF target
  <2> QED
    BY <1>6, <2>2
<1>9. PICK h \in GroupIds : h < exec.group /\ q \in Groups[h]
  BY <1>1, <1>4, <1>8 DEF GroupsInOrder
<1>10. GroupIsDone(c, h)
  BY <1>2, <1>9 DEF DoneBefore
<1> QED
  BY <1>7, <1>9, <1>10 DEF GroupIsDone

(* HandoffIsHonest (mark_phases_completed_before,                          *)
(* src/checkpoint/reader.rs, between two groups): with the default budget  *)
(* of one session, and groups that cover the phases in order, gw takes no  *)
(* phase back that Rune is done with and calls none completed that was     *)
(* never done, but for those of groups skipped by their condition.         *)
THEOREM HandoffKeepsProgress ==
  ASSUME MaxSessions = 1, GroupsInOrder
  PROVE  Spec => HandoffIsHonest
<1>1. Init => HandoffInv
  BY InitHandoffInv
<1>2. HandoffInv /\ [Next]_vars => HandoffInv'
  BY NextHandoffInv
<1>3. HandoffInv /\ [Next]_vars => HonestStep
  <2> SUFFICES ASSUME HandoffInv, [Next]_vars, pc = "write", pc' = "spawn" PROVE HonestStep
    BY DEF HonestStep
  <2>1. ~(World \/ UNCHANGED vars)
    BY WorldFrame
  <2>2. WriteCheckpoint
    BY <2>1, StepCases, HandoffSteps
  <2> QED
    BY <2>2, WritingIsHonest
<1>4. HandoffInv /\ [Next]_vars =>
        [pc = "write" /\ pc' = "spawn" /\ ~blind =>
          \A q \in Rewritten(exec.plan) :
             /\ cp[exec.plan].status[q] # "completed"
             /\ \/ DoneOrWillSkip(cp[exec.plan], q)
                \/ \E g \in GroupIds : q \in Groups[g] /\ SkipIf[g] \in Phases]_vars
  BY <1>3 DEF HonestStep
<1> QED
  BY <1>1, <1>2, <1>4, PTL DEF Spec, HandoffIsHonest
=============================================================================

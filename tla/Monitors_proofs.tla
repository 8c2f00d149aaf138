--------------------------- MODULE Monitors_proofs ---------------------------
(***************************************************************************)
(* Theorems about the two monitors of a session, for any thresholds, any   *)
(* world and any number of changes in it.  Of one DaemonRunMonitor: every  *)
(* step is one of MonitorContract, no session is killed while it showed    *)
(* signs of life, and an outcome has a cause that was read.  Of the        *)
(* foreground loop, in the second half: each of the five kills and every   *)
(* report of a completion has a reason that lasted.                        *)
(*                                                                         *)
(* A tick is a chain of checks, each an operator on the monitor's state.   *)
(* What all of them have in common is the relation Checks, which is        *)
(* transitive; each operator has one lemma that says what else it does.    *)
(***************************************************************************)
EXTENDS RunMonitor, ForegroundMonitor, TLAPS

Fields == {"clock", "phase", "pathKnown", "snapshot", "loopSeen", "hung",
           "accepts", "errorClass", "nudges", "swarm", "pending"}

(* As much of the type of a monitor as the proofs use.                     *)
WellFormed(m) ==
    /\ DOMAIN m = Fields
    /\ m.clock \in [Clocks -> Int]
    /\ m.pending \in [kind : Kinds \cup {"none"}, nudged : BOOLEAN]
    /\ m.pending.kind = "none" => m.pending = NoRequest
    /\ m.pathKnown \in BOOLEAN /\ m.loopSeen \in BOOLEAN
    /\ m.hung \in Int

(* The Instants evaluate_kill_gate looks at.                               *)
LifeClocks == {"pane", "checkpoint", "artifact", "loop"}

(* A request is kept with its Instant, or it is new.                       *)
Requests(m, n) ==
    \/ n.pending = m.pending /\ n.clock["gate"] = m.clock["gate"]
    \/ ~Pending(m) /\ n.pending.kind \in Kinds /\ n.clock["gate"] = 0

(* From m to n by checks that touch nothing but what is in S; an Instant   *)
(* of life they touch is taken anew.                                       *)
Checks(m, n, S) ==
    /\ WellFormed(n)
    /\ \A c \in Clocks \ S : n.clock[c] = m.clock[c]
    /\ \A c \in LifeClocks : n.clock[c] \in {m.clock[c], 0}
    /\ "hung" \notin S => n.hung = m.hung
    /\ "loopSeen" \notin S => n.loopSeen = m.loopSeen
    /\ ReadCheckpoint(n) = ReadCheckpoint(m)
    /\ \/ n.pathKnown = m.pathKnown
       \/ "pathKnown" \in S /\ ReadCheckpoint(m) # "none" /\ n.pathKnown = TRUE
    /\ Requests(m, n)

----------------------------------------------------------------------------
(* The Instants and their horizons.                                        *)
LEMMA HorizonFacts ==
    /\ \A c \in Clocks : Horizon[c] \in Nat
    /\ Clocks = {"run", "monitor", "phase", "pane", "checkpoint", "artifact", "loop",
                 "confirm", "gone", "completion", "transition", "failed", "process", "gate"}
    /\ Horizon["gate"] = Gate
  BY TimesAssumption DEF Horizon, Clocks, Larger

(* One check after another.                                                *)
LEMMA ChecksTransitive ==
  ASSUME NEW l, NEW m, NEW n, NEW S, NEW T, Checks(l, m, S), Checks(m, n, T)
  PROVE  Checks(l, n, S \cup T)
<1>1. Pending(m) => n.pending = m.pending /\ n.clock["gate"] = m.clock["gate"]
  BY DEF Checks, Requests
<1>2. m.pending.kind \in Kinds => Pending(m)
  BY DEF Pending, NoRequest, Kinds
<1>3. Requests(l, n)
  BY <1>1, <1>2 DEF Checks, Requests, Pending
<1> QED
  BY <1>3 DEF Checks

(* A check that returns early touches nothing.                             *)
LEMMA NothingTouched ==
  ASSUME NEW m, WellFormed(m), NEW S PROVE Checks(m, m, S)
  BY DEF Checks, Requests

(* Two states of a monitor that agree in everything the proofs look at.    *)
Alike(m, n) ==
    /\ DOMAIN n = DOMAIN m /\ n.clock = m.clock /\ n.pending = m.pending
    /\ n.pathKnown = m.pathKnown /\ n.loopSeen = m.loopSeen /\ n.hung = m.hung

(* What else a check writes down does not matter.                          *)
LEMMA ChecksAlike ==
  ASSUME NEW l, NEW m, NEW n, NEW S, Checks(l, m, S), Alike(m, n)
  PROVE  Checks(l, n, S)
<1>1. WellFormed(n)
  BY DEF Checks, WellFormed, Alike
<1>2. ReadCheckpoint(n) = ReadCheckpoint(m)
  BY DEF Alike, ReadCheckpoint
<1> QED
  BY <1>1, <1>2 DEF Checks, Requests, Pending, Alike

(* Taking an Instant: the clock starts from 0 and nothing else changes.    *)
LEMMA NowFacts ==
  ASSUME NEW m, WellFormed(m), NEW c \in Clocks \ {"gate"}
  PROVE  Checks(m, Now(m, c), {c}) /\ Now(m, c).clock[c] = 0
  BY HorizonFacts DEF Checks, Requests, Now, Set, Smaller, WellFormed, Fields, LifeClocks,
     ReadCheckpoint

(* Dropping an Instant: the clock is off and nothing else changes.         *)
LEMMA ClearFacts ==
  ASSUME NEW m, WellFormed(m), NEW c \in Clocks \ (LifeClocks \cup {"gate"})
  PROVE  Checks(m, Clear(m, c), {c}) /\ Clear(m, c).clock[c] = Off
  BY HorizonFacts DEF Checks, Requests, Clear, WellFormed, Fields, LifeClocks, Off,
     ReadCheckpoint

(* Option::get_or_insert: a running clock keeps its age.                   *)
LEMMA GetOrInsertFacts ==
  ASSUME NEW m, WellFormed(m), NEW c \in Clocks \ {"gate"}
  PROVE  /\ Checks(m, GetOrInsert(m, c), {c})
         /\ GetOrInsert(m, c).clock[c] = IF m.clock[c] = Off THEN 0 ELSE m.clock[c]
  BY NowFacts, NothingTouched DEF GetOrInsert

(* pending_kill = Some(..), only where it is None.                         *)
LEMMA AskFacts ==
  ASSUME NEW m, WellFormed(m), NEW kind \in Kinds
  PROVE  Checks(m, Ask(m, kind), {"gate"})
  BY HorizonFacts DEF Checks, Requests, Ask, Now, Set, Smaller, WellFormed, Fields,
     LifeClocks, Pending, NoRequest, Kinds, ReadCheckpoint

----------------------------------------------------------------------------
(* The checks of a tick, in their order.                                   *)

(* The completion signal: only it, or an earlier one, leaves the clock     *)
(* set.                                                                    *)
LEMMA SeeCompletionFacts ==
  ASSUME NEW m, WellFormed(m)
  PROVE  /\ Checks(m, SeeCompletion(m), {"completion"})
         /\ IsSet(SeeCompletion(m), "completion") => IsSet(m, "completion") \/ "ended" \in signals
  BY HorizonFacts, GetOrInsertFacts, NothingTouched
  DEF SeeCompletion, CompletionSignalled, IsSet, LifeClocks

(* A permission prompt counts as pane activity, unless a failure stands.   *)
LEMMA SeePermissionFacts ==
  ASSUME NEW m, WellFormed(m)
  PROVE  /\ Checks(m, SeePermission(m), {"pane"})
         /\ "permission" \in signals /\ "stopFailure" \notin signals =>
               SeePermission(m).clock["pane"] = 0
  BY HorizonFacts, NowFacts, NothingTouched DEF SeePermission, LifeClocks

(* check_signals as a whole: completion, failure and permission.           *)
LEMMA CheckSignalsFacts ==
  ASSUME NEW m, WellFormed(m)
  PROVE  /\ Checks(m, CheckSignals(m), {"completion", "gate", "pane"})
         /\ IsSet(CheckSignals(m), "completion") => IsSet(m, "completion") \/ "ended" \in signals
         /\ "permission" \in signals /\ "stopFailure" \notin signals =>
               CheckSignals(m).clock["pane"] = 0
<1> DEFINE a == SeeCompletion(m)
           b == IF "stopFailure" \in signals THEN Ask(a, "error") ELSE a
           c == SeePermission(b)
<1>1. Checks(m, a, {"completion"}) /\ WellFormed(a)
      /\ (IsSet(a, "completion") => IsSet(m, "completion") \/ "ended" \in signals)
  BY SeeCompletionFacts DEF Checks
<1>2. Checks(a, b, {"gate"}) /\ WellFormed(b)
  BY <1>1, AskFacts, NothingTouched DEF Checks, Kinds
<1>3. Checks(b, c, {"pane"})
      /\ ("permission" \in signals /\ "stopFailure" \notin signals => c.clock["pane"] = 0)
  BY <1>2, SeePermissionFacts
<1>4. c.clock["completion"] = a.clock["completion"]
  BY <1>2, <1>3, HorizonFacts DEF Checks
<1>5. Checks(m, c, {"completion", "gate", "pane"})
  <2> HIDE DEF a, b, c
  <2>1. Checks(m, b, {"completion"} \cup {"gate"})
    BY <1>1, <1>2, ChecksTransitive
  <2>2. Checks(m, c, ({"completion"} \cup {"gate"}) \cup {"pane"})
    BY <2>1, <1>3, ChecksTransitive
  <2>3. ({"completion"} \cup {"gate"}) \cup {"pane"} = {"completion", "gate", "pane"}
    OBVIOUS
  <2> QED
    BY <2>2, <2>3
<1>6. CheckSignals(m) = c
  BY DEF CheckSignals
<1> HIDE DEF a, b, c
<1> QED
  BY <1>1, <1>3, <1>4, <1>5, <1>6 DEF IsSet

(* The probe of the session: a count of probes in a row that hung.         *)
LEMMA ProbeFacts ==
  ASSUME NEW m, WellFormed(m)
  PROVE  /\ Checks(m, Probe(m), {"hung"})
         /\ Probe(m).hung = IF world.session = "hung" THEN Smaller(m.hung + 1, HungTicks) ELSE 0
  BY HorizonFacts, TimesAssumption
  DEF Probe, Checks, Requests, WellFormed, Fields, LifeClocks, ReadCheckpoint, Smaller

(* A pane whose hash has changed counts as activity.                       *)
LEMMA PaneActivityFacts ==
  ASSUME NEW m, WellFormed(m)
  PROVE  /\ Checks(m, PaneActivity(m), {"pane"})
         /\ "pane" \in fresh => PaneActivity(m).clock["pane"] = 0
<1> DEFINE a == Now(m, "pane")
           b == [a EXCEPT !.nudges.idle = 0]
<1>1. Checks(m, a, {"pane"}) /\ a.clock["pane"] = 0
  BY HorizonFacts, NowFacts
<1>2. PaneActivity(m) = IF "pane" \in fresh THEN b ELSE m
  BY DEF PaneActivity
<1> HIDE DEF a
<1>3. Alike(a, b)
  BY <1>1 DEF Checks, Alike, WellFormed, Fields
<1>4. Checks(m, b, {"pane"}) /\ b.clock["pane"] = 0
  BY <1>1, <1>3, ChecksAlike DEF Alike
<1> QED
  BY <1>2, <1>4, NothingTouched

(* The pane sets the completion clock only near the end of the arc.        *)
LEMMA CheckPaneCompletionFacts ==
  ASSUME NEW m, WellFormed(m)
  PROVE  /\ Checks(m, CheckPaneCompletion(m), {"completion"})
         /\ IsSet(CheckPaneCompletion(m), "completion") =>
               IsSet(m, "completion") \/ NearCompletion(ReadCheckpoint(m))
  BY HorizonFacts, GetOrInsertFacts, NothingTouched
  DEF CheckPaneCompletion, IsSet, LifeClocks, ReadCheckpoint

(* A confirmation begins or ends, with the class of error it is about.     *)
LEMMA ClassedFacts ==
  ASSUME NEW m, WellFormed(m), NEW class
  PROVE  /\ Checks(m, [Clear(m, "confirm") EXCEPT !.errorClass = class], {"confirm"})
         /\ Checks(m, [Now(m, "confirm") EXCEPT !.errorClass = class], {"confirm"})
<1>1. \A a : WellFormed(a) => Alike(a, [a EXCEPT !.errorClass = class])
  BY DEF Alike, WellFormed, Fields
<1>2. Checks(m, Clear(m, "confirm"), {"confirm"}) /\ Checks(m, Now(m, "confirm"), {"confirm"})
  BY HorizonFacts, ClearFacts, NowFacts DEF LifeClocks
<1>3. WellFormed(Clear(m, "confirm")) /\ WellFormed(Now(m, "confirm"))
  BY <1>2 DEF Checks
<1> QED
  BY <1>1, <1>2, <1>3, ChecksAlike

(* The error evidence: a confirmation under way, or the gate asked for.    *)
LEMMA EvaluateErrorEvidenceFacts ==
  ASSUME NEW m, WellFormed(m)
  PROVE  Checks(m, EvaluateErrorEvidence(m), {"confirm", "gate"})
<1> DEFINE a == [m EXCEPT !.swarm = world.swarm]
<1>1. Checks(m, a, {}) /\ WellFormed(a)
  BY DEF Checks, Requests, WellFormed, Fields, LifeClocks, ReadCheckpoint
<1>2. \A class : Checks(a, [Clear(a, "confirm") EXCEPT !.errorClass = class], {"confirm"})
  BY <1>1, ClassedFacts
<1>3. \A class : Checks(a, [Now(a, "confirm") EXCEPT !.errorClass = class], {"confirm"})
  BY <1>1, ClassedFacts
<1>4. Checks(a, Ask(a, "error"), {"gate"}) /\ Checks(a, a, {})
  BY <1>1, AskFacts, NothingTouched DEF Kinds
<1> DEFINE b == EvaluateErrorEvidence(m)
<1>5. \/ \E class : b = [Clear(a, "confirm") EXCEPT !.errorClass = class]
      \/ \E class : b = [Now(a, "confirm") EXCEPT !.errorClass = class]
      \/ b = Ask(a, "error")
      \/ b = a
  BY DEF EvaluateErrorEvidence
<1> HIDE DEF a, b
<1>6. Checks(a, b, {"confirm"}) \/ Checks(a, b, {"gate"}) \/ Checks(a, b, {})
  BY <1>2, <1>3, <1>4, <1>5
<1>7. Checks(a, b, {"confirm", "gate"})
  BY <1>6 DEF Checks
<1>8. Checks(m, b, {} \cup {"confirm", "gate"})
  BY <1>1, <1>7, ChecksTransitive
<1> QED
  BY <1>8 DEF b

(* Whether the checkpoint can be read does not depend on the caching of    *)
(* its path.                                                               *)
LEMMA DiscoverFacts ==
  ASSUME NEW m, WellFormed(m)
  PROVE  /\ Checks(m, Discover(m), {"pathKnown"})
         /\ ReadCheckpoint(m) # "none" => Discover(m).pathKnown
  BY DEF Discover, Checks, Requests, WellFormed, Fields, LifeClocks, ReadCheckpoint

(* The gaps between phases and the failed phases have clocks of their own. *)
LEMMA TrackGapsFacts ==
  ASSUME NEW m, WellFormed(m), NEW cp, NEW back \in Int
  PROVE  Checks(m, TrackGaps(m, cp, back), {"transition", "failed"})
  BY HorizonFacts
  DEF TrackGaps, Clear, Now, Set, Smaller, Checks, Requests, WellFormed, Fields,
      LifeClocks, ReadCheckpoint, IsSet, Off

(* A checkpoint that is read counts as checkpoint activity.                *)
LEMMA PollCheckpointFacts ==
  ASSUME NEW m, WellFormed(m), NEW back \in Int
  PROVE  /\ Checks(m, PollCheckpoint(m, back), {"checkpoint", "phase", "transition", "failed",
                                               "pathKnown"})
         /\ ReadCheckpoint(m) # "none" => PollCheckpoint(m, back).clock["checkpoint"] = 0
<1> DEFINE cp == ReadCheckpoint(m)
           a == Now(Discover(m), "checkpoint")
           new == EffectivePhase(cp)
           entered == IF new = "none" THEN a ELSE Now(a, "phase")
           tracked == IF new = a.phase THEN a
                      ELSE [entered EXCEPT !.phase = new, !.nudges.idle = 0]
           b == TrackGaps(tracked, cp, back)
<1>0. "checkpoint" \in Clocks \ {"gate"} /\ "phase" \in Clocks \ {"gate"}
  BY HorizonFacts
<1>1. Checks(m, Discover(m), {"pathKnown"}) /\ WellFormed(Discover(m))
  BY DiscoverFacts DEF Checks
<1>2. Checks(Discover(m), a, {"checkpoint"}) /\ a.clock["checkpoint"] = 0
  BY <1>0, <1>1, NowFacts
<1>a. WellFormed(a)
  BY <1>2 DEF Checks
<1>3. Checks(a, entered, {"phase"})
  <2> HIDE DEF a
  <2> QED
    BY <1>0, <1>a, NowFacts, NothingTouched
<1>b. WellFormed(entered)
  BY <1>3 DEF Checks
<1>4. Checks(entered, [entered EXCEPT !.phase = new, !.nudges.idle = 0], {})
  <2> HIDE DEF entered
  <2> QED
    BY <1>b DEF Checks, Requests, WellFormed, Fields, LifeClocks, ReadCheckpoint
<1> HIDE DEF cp, a, new, entered
<1>5. Checks(a, [entered EXCEPT !.phase = new, !.nudges.idle = 0], {"phase"} \cup {})
  BY <1>3, <1>4, ChecksTransitive
<1>6. Checks(a, tracked, {"phase"}) /\ WellFormed(tracked)
  BY <1>a, <1>5, NothingTouched DEF Checks, tracked
<1> HIDE DEF tracked
<1>7. Checks(tracked, b, {"transition", "failed"})
  BY <1>6, TrackGapsFacts
<1> HIDE DEF b
<1>8. Checks(m, b, {"checkpoint", "phase", "transition", "failed", "pathKnown"})
  <2>1. Checks(m, a, {"pathKnown"} \cup {"checkpoint"})
    BY <1>1, <1>2, ChecksTransitive
  <2>2. Checks(m, tracked, ({"pathKnown"} \cup {"checkpoint"}) \cup {"phase"})
    BY <2>1, <1>6, ChecksTransitive
  <2>3. Checks(m, b, (({"pathKnown"} \cup {"checkpoint"}) \cup {"phase"}) \cup {"transition", "failed"})
    BY <2>2, <1>7, ChecksTransitive
  <2>4. (({"pathKnown"} \cup {"checkpoint"}) \cup {"phase"}) \cup {"transition", "failed"}
        = {"checkpoint", "phase", "transition", "failed", "pathKnown"}
    OBVIOUS
  <2> QED
    BY <2>3, <2>4
<1>9. b.clock["checkpoint"] = 0
  BY <1>2, <1>6, <1>7, HorizonFacts DEF Checks
<1>10. PollCheckpoint(m, back) = IF cp = "none" THEN m ELSE b
  BY DEF PollCheckpoint, cp, a, new, entered, tracked, b
<1>11. cp = ReadCheckpoint(m)
  BY DEF cp
<1> QED
  BY <1>8, <1>9, <1>10, <1>11, NothingTouched

(* The loop file: read active it stops the timer of its disappearance, and *)
(* a change of it counts as activity.                                      *)
LEMMA LoopTimersFacts ==
  ASSUME NEW m, WellFormed(m)
  PROVE  /\ Checks(m, LoopTimers(m), {"gone", "loop", "pane", "loopSeen"})
         /\ LoopTimers(m).clock["gone"] \in
               IF world.loop = "active" THEN {Off} ELSE {m.clock["gone"], 0}
         /\ world.loop = "active" /\ ("loop" \in fresh \/ ~m.loopSeen) =>
               LoopTimers(m).clock["loop"] = 0
<1> DEFINE active == [Clear(m, "gone") EXCEPT !.loopSeen = TRUE]
           again == Now(Now(active, "loop"), "pane")
<1>0. /\ "gone" \in Clocks \ (LifeClocks \cup {"gate"})
      /\ "loop" \in Clocks \ {"gate"} /\ "pane" \in Clocks \ {"gate"} /\ "gone" \in Clocks
  BY HorizonFacts DEF LifeClocks
<1>1. Checks(m, active, {"gone", "loopSeen"}) /\ active.clock["gone"] = Off
  <2>1. Checks(m, Clear(m, "gone"), {"gone"}) /\ Clear(m, "gone").clock["gone"] = Off
    BY <1>0, ClearFacts
  <2> QED
    BY <2>1 DEF Checks, Requests, WellFormed, Fields, LifeClocks, ReadCheckpoint
<1>2. WellFormed(active)
  BY <1>1 DEF Checks
<1> HIDE DEF active
<1>3. Checks(active, Now(active, "loop"), {"loop"}) /\ Now(active, "loop").clock["loop"] = 0
  BY <1>0, <1>2, NowFacts
<1>4. WellFormed(Now(active, "loop"))
  BY <1>3 DEF Checks
<1>5. Checks(Now(active, "loop"), again, {"pane"})
  BY <1>0, <1>4, NowFacts
<1> HIDE DEF again
<1>6. Checks(m, again, {"gone", "loop", "pane", "loopSeen"})
  <2>1. Checks(m, Now(active, "loop"), {"gone", "loopSeen"} \cup {"loop"})
    BY <1>1, <1>3, ChecksTransitive
  <2>2. Checks(m, again, ({"gone", "loopSeen"} \cup {"loop"}) \cup {"pane"})
    BY <2>1, <1>5, ChecksTransitive
  <2>3. ({"gone", "loopSeen"} \cup {"loop"}) \cup {"pane"} = {"gone", "loop", "pane", "loopSeen"}
    OBVIOUS
  <2> QED
    BY <2>2, <2>3
<1>7. again.clock["gone"] = Off /\ again.clock["loop"] = 0
  BY <1>0, <1>1, <1>3, <1>5 DEF Checks
<1>8. Checks(m, active, {"gone", "loop", "pane", "loopSeen"})
  BY <1>1 DEF Checks
<1>9. CASE world.loop = "active"
  <2>1. LoopTimers(m) = IF "loop" \in fresh \/ ~m.loopSeen THEN again ELSE active
    BY <1>9 DEF LoopTimers, again, active
  <2> QED
    BY <1>1, <1>6, <1>7, <1>8, <1>9, <2>1
<1>10. CASE world.loop # "active"
  <2>1. LoopTimers(m) = IF m.loopSeen THEN GetOrInsert(m, "gone") ELSE m
    BY <1>10 DEF LoopTimers
  <2>2. /\ Checks(m, GetOrInsert(m, "gone"), {"gone"})
        /\ GetOrInsert(m, "gone").clock["gone"] \in {m.clock["gone"], 0}
    BY <1>0, GetOrInsertFacts
  <2>3. Checks(m, LoopTimers(m), {"gone", "loop", "pane", "loopSeen"})
    BY <2>1, <2>2, NothingTouched DEF Checks
  <2> QED
    BY <1>10, <2>1, <2>2, <2>3
<1> QED
  BY <1>9, <1>10

(* A loop file that went inactive too early is ignored.                    *)
LEMMA RefuseDeactivationFacts ==
  ASSUME NEW m, WellFormed(m)
  PROVE  /\ Checks(m, RefuseDeactivation(m), {"gone"})
         /\ RefuseDeactivation(m).clock["gone"] \in {m.clock["gone"], Off}
  BY HorizonFacts, ClearFacts, NothingTouched DEF RefuseDeactivation, LifeClocks

(* A new artifact counts as activity, once the checkpoint's path is known. *)
LEMMA ScanArtifactsFacts ==
  ASSUME NEW m, WellFormed(m)
  PROVE  /\ Checks(m, ScanArtifacts(m), {"artifact"})
         /\ "artifacts" \in fresh /\ m.pathKnown => ScanArtifacts(m).clock["artifact"] = 0
  BY HorizonFacts
  DEF ScanArtifacts, Now, Set, Smaller, Checks, Requests, WellFormed, Fields,
      LifeClocks, ReadCheckpoint

(* The process clock runs only while no Claude process is seen.            *)
LEMMA ProcessTimerFacts ==
  ASSUME NEW m, WellFormed(m)
  PROVE  /\ Checks(m, ProcessTimer(m), {"process"})
         /\ ProcessTimer(m).clock["process"] \in
               IF world.claude THEN {Off} ELSE {m.clock["process"], 0}
  BY HorizonFacts, ClearFacts, GetOrInsertFacts DEF ProcessTimer, LifeClocks

(* One interval later.                                                     *)
LEMMA AgedFacts ==
  ASSUME NEW m, WellFormed(m)
  PROVE  /\ WellFormed(Aged(m))
         /\ Aged(m).pending = m.pending /\ Aged(m).hung = m.hung
         /\ Aged(m).pathKnown = m.pathKnown /\ Aged(m).loopSeen = m.loopSeen
         /\ \A c \in Clocks : Aged(m).clock[c] =
               IF m.clock[c] = Off THEN Off ELSE Smaller(m.clock[c] + 1, Horizon[c])
  BY HorizonFacts DEF Aged, WellFormed, Fields, Smaller, Off

----------------------------------------------------------------------------
(* The second half of a tick.                                              *)
LEMMA CheckPhaseTimeoutFacts ==
  ASSUME NEW m, WellFormed(m)
  PROVE  Checks(m, CheckPhaseTimeout(m), {"gate"})
  BY AskFacts, NothingTouched DEF CheckPhaseTimeout, Kinds

(* The escalation of a gap: nudges first, then the kill gate.              *)
LEMMA EscalateFacts ==
  ASSUME NEW m, WellFormed(m), NEW c \in Clocks, NEW at, NEW fallback
  PROVE  Checks(m, Escalate(m, c, at, fallback), {"gate"})
<1>1. Checks(m, m, {"gate"}) /\ Checks(m, Ask(m, "stuck"), {"gate"})
  BY AskFacts, NothingTouched DEF Kinds
<1>2. \A k : Checks(m, [m EXCEPT !.nudges[c] = k], {"gate"})
  BY DEF Checks, Requests, WellFormed, Fields, LifeClocks, ReadCheckpoint
<1> QED
  BY <1>1, <1>2 DEF Escalate

(* The idle check: nudges first, then the kill gate.                       *)
LEMMA CheckIdleFacts ==
  ASSUME NEW m, WellFormed(m)
  PROVE  Checks(m, CheckIdle(m), {"gate"})
<1>1. Checks(m, m, {"gate"}) /\ Checks(m, Ask(m, "stuck"), {"gate"})
  BY AskFacts, NothingTouched DEF Kinds
<1>2. Checks(m, [m EXCEPT !.nudges.idle = @ + 1], {"gate"})
  BY DEF Checks, Requests, WellFormed, Fields, LifeClocks, ReadCheckpoint
<1> QED
  BY <1>1, <1>2 DEF CheckIdle

(* The four judgements of a tick touch nothing but the gate.               *)
LEMMA JudgedFacts ==
  ASSUME WellFormed(mon)
  PROVE  Checks(mon, Judged, {"gate"})
<1> DEFINE a == CheckPhaseTimeout(mon)
           b == Escalate(a, "transition", GapAt, TRUE)
           c == Escalate(b, "failed", FailedAt, TRUE)
<1>1. Checks(mon, a, {"gate"}) /\ WellFormed(a)
  BY CheckPhaseTimeoutFacts DEF Checks
<1> HIDE DEF a
<1>0. "transition" \in Clocks /\ "failed" \in Clocks
  BY HorizonFacts
<1>2. Checks(a, b, {"gate"})
  BY <1>0, <1>1, EscalateFacts
<1> HIDE DEF b
<1>a. WellFormed(b)
  BY <1>2 DEF Checks
<1>3. Checks(b, c, {"gate"})
  BY <1>0, <1>a, EscalateFacts
<1> HIDE DEF c
<1>b. WellFormed(c)
  BY <1>3 DEF Checks
<1>4. Checks(c, CheckIdle(c), {"gate"})
  BY <1>b, CheckIdleFacts
<1>5. Checks(mon, b, {"gate"} \cup {"gate"})
  BY <1>1, <1>2, ChecksTransitive
<1>6. Checks(mon, c, ({"gate"} \cup {"gate"}) \cup {"gate"})
  BY <1>5, <1>3, ChecksTransitive
<1>7. Checks(mon, CheckIdle(c), (({"gate"} \cup {"gate"}) \cup {"gate"}) \cup {"gate"})
  BY <1>6, <1>4, ChecksTransitive
<1>8. (({"gate"} \cup {"gate"}) \cup {"gate"}) \cup {"gate"} = {"gate"}
  OBVIOUS
<1>9. Judged = CheckIdle(c)
  BY DEF Judged, a, b, c
<1> QED
  BY <1>7, <1>8, <1>9

(* A recovery, or a refused kill, leaves no request and no other trace.    *)
LEMMA DisarmFacts ==
  ASSUME NEW m, WellFormed(m)
  PROVE  /\ WellFormed(Disarm(m)) /\ ~Pending(Disarm(m))
         /\ Disarm(m).hung = m.hung
         /\ \A c \in Clocks \ {"gate"} : Disarm(m).clock[c] = m.clock[c]
  BY HorizonFacts
  DEF Disarm, Clear, WellFormed, Fields, Pending, NoRequest, Off, Kinds

(* The nudges of the gate keep its request and every clock.                *)
LEMMA GateNudgesFacts ==
  ASSUME NEW m, WellFormed(m)
  PROVE  /\ WellFormed(GateNudges(m)) /\ (Pending(GateNudges(m)) <=> Pending(m))
         /\ GateNudges(m).pending.kind = m.pending.kind
         /\ GateNudges(m).hung = m.hung /\ GateNudges(m).clock = m.clock
  BY DEF GateNudges, WellFormed, Fields, Pending, NoRequest, Kinds

----------------------------------------------------------------------------
(* The first half of a tick.                                               *)
All == Clocks \cup {"hung", "loopSeen", "pathKnown"}

(* What touches nothing outside S touches nothing outside a larger set.    *)
LEMMA Weaken ==
  ASSUME NEW m, NEW n, NEW S, NEW T, Checks(m, n, S), S \subseteq T
  PROVE  Checks(m, n, T)
  BY DEF Checks

(* Up to the probe of the session.                                         *)
LEMMA AtSignalsFacts ==
  ASSUME WellFormed(mon)
  PROVE  /\ WellFormed(AtSignals)
         /\ Checks(Aged(mon), AtSignals, {"completion", "gate", "pane", "hung"})
         /\ AtSignals.hung =
               IF world.session = "hung" THEN Smaller(mon.hung + 1, HungTicks) ELSE 0
         /\ IsSet(AtSignals, "completion") => IsSet(mon, "completion") \/ "ended" \in signals
         /\ "permission" \in signals /\ "stopFailure" \notin signals =>
               AtSignals.clock["pane"] = 0
         /\ ReadCheckpoint(AtSignals) = ReadCheckpoint(mon)
<1> DEFINE a == Aged(mon)
           b == CheckSignals(a)
           S == {"completion", "gate", "pane"}
<1>0. WellFormed(a) /\ a.hung = mon.hung /\ a.pathKnown = mon.pathKnown
      /\ (IsSet(a, "completion") => IsSet(mon, "completion"))
  BY AgedFacts, HorizonFacts DEF IsSet
<1> HIDE DEF a
<1>1. /\ Checks(a, b, S)
      /\ IsSet(b, "completion") => IsSet(a, "completion") \/ "ended" \in signals
      /\ "permission" \in signals /\ "stopFailure" \notin signals => b.clock["pane"] = 0
  BY <1>0, CheckSignalsFacts
<1>2. WellFormed(b) /\ b.hung = a.hung
  BY <1>1 DEF Checks
<1> HIDE DEF b
<1>3. /\ Checks(b, Probe(b), {"hung"})
      /\ Probe(b).hung = IF world.session = "hung" THEN Smaller(b.hung + 1, HungTicks) ELSE 0
  BY <1>2, ProbeFacts
<1>4. WellFormed(Probe(b)) /\ Probe(b).clock["completion"] = b.clock["completion"]
      /\ Probe(b).clock["pane"] = b.clock["pane"]
  BY <1>3, HorizonFacts DEF Checks
<1>5. Checks(a, Probe(b), S \cup {"hung"})
  BY <1>1, <1>3, ChecksTransitive
<1>6. S \cup {"hung"} = {"completion", "gate", "pane", "hung"}
  OBVIOUS
<1>7. ReadCheckpoint(Probe(b)) = ReadCheckpoint(a) /\ ReadCheckpoint(a) = ReadCheckpoint(mon)
  BY <1>0, <1>5 DEF Checks, ReadCheckpoint
<1>8. AtSignals = Probe(b)
  BY DEF AtSignals, a, b
<1> HIDE DEF S
<1> QED
  BY <1>0, <1>1, <1>2, <1>3, <1>4, <1>5, <1>6, <1>7, <1>8 DEF IsSet, a

(* From the probe to the error evidence, when the pane could be captured.  *)
LEMMA AfterPaneFacts ==
  ASSUME WellFormed(AtSignals), NEW captured \in BOOLEAN
  PROVE  /\ Checks(AtSignals, AfterPane(captured), {"pane", "completion", "confirm", "gate"})
         /\ IsSet(AfterPane(captured), "completion") =>
               IsSet(AtSignals, "completion") \/ NearCompletion(ReadCheckpoint(AtSignals))
         /\ captured /\ "pane" \in fresh => AfterPane(captured).clock["pane"] = 0
<1> DEFINE s == AtSignals
           a == PaneActivity(s)
           b == CheckPaneCompletion(a)
           c == EvaluateErrorEvidence(b)
           T == {"pane", "completion", "confirm", "gate"}
<1>1. Checks(s, a, {"pane"}) /\ ("pane" \in fresh => a.clock["pane"] = 0)
  BY PaneActivityFacts
<1>2. WellFormed(a) /\ ReadCheckpoint(a) = ReadCheckpoint(s)
  BY <1>1 DEF Checks
<1> HIDE DEF a
<1>3. /\ Checks(a, b, {"completion"})
      /\ IsSet(b, "completion") =>
            IsSet(a, "completion") \/ NearCompletion(ReadCheckpoint(a))
  BY <1>2, CheckPaneCompletionFacts
<1>4. WellFormed(b)
  BY <1>3 DEF Checks
<1> HIDE DEF b
<1>5. Checks(b, c, {"confirm", "gate"})
  BY <1>4, EvaluateErrorEvidenceFacts
<1> HIDE DEF c
<1>6. Checks(s, b, {"pane"} \cup {"completion"})
  BY <1>1, <1>3, ChecksTransitive
<1>7. Checks(s, c, ({"pane"} \cup {"completion"}) \cup {"confirm", "gate"})
  BY <1>6, <1>5, ChecksTransitive
<1>8. Checks(s, c, T)
  BY <1>7, Weaken
<1>9. /\ a.clock["completion"] = s.clock["completion"]
      /\ c.clock["completion"] = b.clock["completion"]
      /\ a.clock["pane"] = 0 => c.clock["pane"] = 0
  BY <1>1, <1>3, <1>5, HorizonFacts DEF Checks
<1>10. AfterPane(captured) = IF captured THEN c ELSE s
  BY DEF AfterPane, a, b, c
<1>11. Checks(s, s, T)
  BY NothingTouched
<1> HIDE DEF s
<1> QED
  BY <1>1, <1>2, <1>3, <1>8, <1>9, <1>10, <1>11 DEF IsSet, s

----------------------------------------------------------------------------
(* The last state of ObserveFiles, and the one in which it looks at the    *)
(* loop file.                                                              *)
LoopState(m, back) == LoopTimers(PollCheckpoint(m, back))

LastState(m, back) == ProcessTimer(ScanArtifacts(RefuseDeactivation(LoopState(m, back))))

(* The checkpoint and the loop file: what has been read, and their clocks. *)
LEMMA LoopStateFacts ==
  ASSUME NEW m, WellFormed(m), NEW back \in Int
  PROVE  /\ Checks(m, LoopState(m, back),
                   {"checkpoint", "phase", "transition", "failed", "pathKnown", "gone", "loop",
                    "pane", "loopSeen"})
         /\ LoopState(m, back).clock["gone"] \in
               IF world.loop = "active" THEN {Off} ELSE {m.clock["gone"], 0}
         /\ world.loop = "active" /\ ("loop" \in fresh \/ ~m.loopSeen) =>
               LoopState(m, back).clock["loop"] = 0
         /\ ReadCheckpoint(m) # "none" => LoopState(m, back).clock["checkpoint"] = 0
<1> DEFINE b == PollCheckpoint(m, back)
           S == {"checkpoint", "phase", "transition", "failed", "pathKnown"}
<1>1. Checks(m, b, S) /\ (ReadCheckpoint(m) # "none" => b.clock["checkpoint"] = 0)
  BY PollCheckpointFacts
<1>2. WellFormed(b) /\ b.loopSeen = m.loopSeen /\ b.clock["gone"] = m.clock["gone"]
  BY <1>1, HorizonFacts DEF Checks
<1> HIDE DEF b
<1>3. /\ Checks(b, LoopTimers(b), {"gone", "loop", "pane", "loopSeen"})
      /\ LoopTimers(b).clock["gone"] \in
            IF world.loop = "active" THEN {Off} ELSE {b.clock["gone"], 0}
      /\ world.loop = "active" /\ ("loop" \in fresh \/ ~b.loopSeen) =>
            LoopTimers(b).clock["loop"] = 0
  BY <1>2, LoopTimersFacts
<1>4. Checks(m, LoopTimers(b), S \cup {"gone", "loop", "pane", "loopSeen"})
  BY <1>1, <1>3, ChecksTransitive
<1>5. LoopTimers(b).clock["checkpoint"] = b.clock["checkpoint"]
  BY <1>3, HorizonFacts DEF Checks
<1>6. LoopState(m, back) = LoopTimers(b)
  BY DEF LoopState, b
<1>7. S \cup {"gone", "loop", "pane", "loopSeen"}
      = {"checkpoint", "phase", "transition", "failed", "pathKnown", "gone", "loop", "pane",
         "loopSeen"}
  OBVIOUS
<1> HIDE DEF S
<1> QED
  BY <1>1, <1>2, <1>3, <1>4, <1>5, <1>6, <1>7

(* The loop file's refusal, the artifacts and the process, the tick's end. *)
LEMMA LastStateFacts ==
  ASSUME NEW m, WellFormed(m), NEW back \in Int
  PROVE  /\ Checks(LoopState(m, back), LastState(m, back), {"gone", "artifact", "process"})
         /\ LastState(m, back).clock["gone"] \in {LoopState(m, back).clock["gone"], Off}
         /\ "artifacts" \in fresh /\ m.pathKnown => LastState(m, back).clock["artifact"] = 0
         /\ LastState(m, back).clock["process"] \in
               IF world.claude THEN {Off} ELSE {m.clock["process"], 0}
<1> DEFINE l == LoopState(m, back)
           r == RefuseDeactivation(l)
           a == ScanArtifacts(r)
           p == ProcessTimer(a)
<1>1. /\ WellFormed(l) /\ (m.pathKnown => l.pathKnown)
      /\ l.clock["process"] = m.clock["process"]
  <2>1. Checks(m, l, {"checkpoint", "phase", "transition", "failed", "pathKnown", "gone", "loop",
                      "pane", "loopSeen"})
    BY LoopStateFacts
  <2> HIDE DEF l
  <2> QED
    BY <2>1, HorizonFacts DEF Checks
<1> HIDE DEF l
<1>2. Checks(l, r, {"gone"}) /\ r.clock["gone"] \in {l.clock["gone"], Off}
  BY <1>1, RefuseDeactivationFacts
<1>3. WellFormed(r) /\ (l.pathKnown => r.pathKnown)
      /\ r.clock["process"] = l.clock["process"]
  BY <1>2, HorizonFacts DEF Checks
<1> HIDE DEF r
<1>4. Checks(r, a, {"artifact"})
      /\ ("artifacts" \in fresh /\ r.pathKnown => a.clock["artifact"] = 0)
  BY <1>3, ScanArtifactsFacts
<1>5. WellFormed(a) /\ a.clock["process"] = r.clock["process"]
      /\ a.clock["gone"] = r.clock["gone"]
  BY <1>4, HorizonFacts DEF Checks
<1> HIDE DEF a
<1>6. /\ Checks(a, p, {"process"})
      /\ p.clock["process"] \in IF world.claude THEN {Off} ELSE {a.clock["process"], 0}
  BY <1>5, ProcessTimerFacts
<1>7. p.clock["gone"] = a.clock["gone"] /\ p.clock["artifact"] = a.clock["artifact"]
  BY <1>6, HorizonFacts DEF Checks
<1> HIDE DEF p
<1>8. Checks(l, a, {"gone"} \cup {"artifact"})
  BY <1>2, <1>4, ChecksTransitive
<1>9. Checks(l, p, ({"gone"} \cup {"artifact"}) \cup {"process"})
  BY <1>6, <1>8, ChecksTransitive
<1>10. ({"gone"} \cup {"artifact"}) \cup {"process"} = {"gone", "artifact", "process"}
  OBVIOUS
<1>11. LastState(m, back) = p
  BY DEF LastState, l, r, a, p
<1> QED
  BY <1>1, <1>2, <1>3, <1>4, <1>5, <1>6, <1>7, <1>9, <1>10, <1>11 DEF l

----------------------------------------------------------------------------
(* The inductive invariant.                                                *)
SeenType ==
    seen \in [idle : Nat, lost : Nat, dead : Nat, hung : Nat, absent : BOOLEAN,
              skipped : BOOLEAN, finished : BOOLEAN]

(* A request stands exactly as long as its Instant runs.                   *)
GateRuns == Pending(mon) => mon.clock["gate"] \in 0 .. Gate

(* A verdict ends the monitor, and nothing else kills.                     *)
VerdictIsLast ==
    /\ killed \in BOOLEAN
    /\ pc = "judge" => verdict = "none"
    /\ verdict = "none" => ~killed

(* The counters and Instants a verdict is taken from say what was read.    *)
TimersTell ==
    /\ mon.hung = seen.hung
    /\ IsSet(mon, "completion") => seen.finished
    /\ mon.clock["gone"] <= seen.lost \/ seen.lost >= GoneGrace
    /\ mon.clock["process"] <= seen.dead \/ seen.dead >= CompletionGrace

(* A sign of life is in one of the Instants the gate looks at.             *)
LifeShows == seen.idle > Gate \/ \E c \in LifeClocks : mon.clock[c] <= seen.idle

(* A sign of life after the request is one the gate could not act upon     *)
(* yet, or is still in its recovery window.                                *)
SilenceKept ==
    Pending(mon) /\ ~seen.skipped =>
       \/ seen.idle >= mon.clock["gate"]
       \/ mon.clock["gate"] <= Early
       \/ pc = "judge" /\ seen.idle <= Early

IInv ==
    /\ WellFormed(mon) /\ SeenType /\ GateRuns /\ VerdictIsLast /\ VerdictHasCause
    /\ verdict = "none" => TimersTell /\ LifeShows /\ SilenceKept

(* A monitor starts with no request and fresh Instants.                    *)
LEMMA InitIInv == Init => IInv
<1> SUFFICES ASSUME Init PROVE IInv
  OBVIOUS
<1>1. mon = NewMonitor(0)
  BY DEF Init
<1>2. WellFormed(mon) /\ ~Pending(mon) /\ mon.hung = 0
      /\ mon.clock["pane"] = 0 /\ mon.clock["completion"] = Off
      /\ mon.clock["gone"] = Off /\ mon.clock["process"] = Off
  BY <1>1, HorizonFacts
  DEF NewMonitor, WellFormed, Fields, Pending, NoRequest, Off, Kinds
<1>3. SeenType /\ VerdictIsLast /\ VerdictHasCause /\ seen.idle = 0 /\ seen.hung = 0
      /\ seen.lost = 0 /\ seen.dead = 0
  BY DEF Init, SeenType, VerdictIsLast, VerdictHasCause
<1> QED
  BY <1>2, <1>3, TimesAssumption
  DEF IInv, GateRuns, TimersTell, LifeShows, SilenceKept, IsSet, LifeClocks, Off

(* What the history says after a tick.                                     *)
LEMMA ObservedFacts ==
  ASSUME SeenType, NEW m, NEW captured \in BOOLEAN, NEW polled \in BOOLEAN
  PROVE  LET o == Observed(m, captured, polled)
         IN  /\ o \in [idle : Nat, lost : Nat, dead : Nat, hung : Nat, absent : BOOLEAN,
                       skipped : BOOLEAN, finished : BOOLEAN]
             /\ o.idle = IF Life(m, captured, polled) THEN 0 ELSE Smaller(seen.idle + 1, Gate + 1)
             /\ o.lost = IF polled /\ world.loop = "active" THEN 0
                         ELSE Smaller(seen.lost + 1, GoneGrace)
             /\ o.dead = IF polled /\ world.claude THEN 0
                         ELSE Smaller(seen.dead + 1, CompletionGrace)
             /\ o.hung = IF world.session = "hung" THEN Smaller(seen.hung + 1, HungTicks) ELSE 0
             /\ o.absent <=> world.session = "absent"
             /\ o.skipped <=> seen.skipped /\ Pending(mon)
             /\ o.finished <=> \/ seen.finished \/ "ended" \in signals
                               \/ NearCompletion(ReadCheckpoint(m))
<1> DEFINE o == Observed(m, captured, polled)
<1>1. /\ o.idle = IF Life(m, captured, polled) THEN 0 ELSE Smaller(seen.idle + 1, Gate + 1)
      /\ o.lost = IF polled /\ world.loop = "active" THEN 0
                  ELSE Smaller(seen.lost + 1, GoneGrace)
      /\ o.dead = IF polled /\ world.claude THEN 0
                  ELSE Smaller(seen.dead + 1, CompletionGrace)
      /\ o.hung = IF world.session = "hung" THEN Smaller(seen.hung + 1, HungTicks) ELSE 0
  BY DEF Observed
<1>2. /\ o.absent <=> world.session = "absent"
      /\ o.skipped <=> seen.skipped /\ Pending(mon)
      /\ o.finished <=> \/ seen.finished \/ "ended" \in signals
                        \/ NearCompletion(ReadCheckpoint(m))
  BY Zenon DEF Observed
<1>3. o \in [idle : Nat, lost : Nat, dead : Nat, hung : Nat, absent : BOOLEAN,
             skipped : BOOLEAN, finished : BOOLEAN]
  <2> DEFINE absent == world.session = "absent"
             skipped == seen.skipped /\ Pending(mon)
             finished == seen.finished \/ "ended" \in signals \/ NearCompletion(ReadCheckpoint(m))
             life == Life(m, captured, polled)
  <2>1. o = [idle |-> IF life THEN 0 ELSE Smaller(seen.idle + 1, Gate + 1),
             lost |-> IF polled /\ world.loop = "active" THEN 0
                      ELSE Smaller(seen.lost + 1, GoneGrace),
             dead |-> IF polled /\ world.claude THEN 0
                      ELSE Smaller(seen.dead + 1, CompletionGrace),
             hung |-> IF world.session = "hung" THEN Smaller(seen.hung + 1, HungTicks) ELSE 0,
             absent |-> absent, skipped |-> skipped, finished |-> finished]
    BY DEF Observed
  <2>2. absent \in BOOLEAN /\ skipped \in BOOLEAN /\ finished \in BOOLEAN
    BY Zenon
  <2> HIDE DEF absent, skipped, finished, life, o
  <2> QED
    BY <2>1, <2>2, TimesAssumption DEF SeenType, Smaller
<1> QED
  BY <1>1, <1>2, <1>3

----------------------------------------------------------------------------
(* A tick later the gate of a standing request has run on, and a new one   *)
(* begins: at any point n of the tick.                                     *)
LEMMA GateInTick ==
  ASSUME WellFormed(mon), GateRuns, NEW n, NEW S, Checks(Aged(mon), n, S), Pending(n)
  PROVE  /\ n.clock["gate"] \in 0 .. Gate
         /\ \/ n.clock["gate"] = 0
            \/ Pending(mon) /\ n.clock["gate"] = Smaller(mon.clock["gate"] + 1, Gate)
<1>1. Aged(mon).pending = mon.pending
      /\ Aged(mon).clock["gate"] =
            IF mon.clock["gate"] = Off THEN Off ELSE Smaller(mon.clock["gate"] + 1, Gate)
  BY AgedFacts, HorizonFacts
<1>2. \/ n.pending = mon.pending /\ n.clock["gate"] = Aged(mon).clock["gate"]
      \/ ~Pending(mon) /\ n.clock["gate"] = 0
  BY <1>1 DEF Checks, Requests, Pending
<1>3. Pending(mon) => mon.clock["gate"] \in 0 .. Gate /\ mon.clock["gate"] # Off
  BY TimesAssumption DEF GateRuns, Off
<1>4. CASE n.pending = mon.pending /\ n.clock["gate"] = Aged(mon).clock["gate"]
  <2>1. Pending(mon)
    BY <1>4 DEF Pending
  <2> QED
    BY <1>1, <1>3, <1>4, <2>1, TimesAssumption DEF Smaller
<1>5. CASE ~Pending(mon) /\ n.clock["gate"] = 0
  BY <1>5, TimesAssumption
<1> QED
  BY <1>2, <1>4, <1>5

(* The same of the state in which the tick ends.                           *)
LEMMA GateRunsOn ==
  ASSUME WellFormed(mon), GateRuns, NEW S, Checks(Aged(mon), mon', S)
  PROVE  /\ GateRuns'
         /\ Pending(mon') => \/ mon'.clock["gate"] = 0
                             \/ /\ Pending(mon)
                                /\ mon'.clock["gate"] = Smaller(mon.clock["gate"] + 1, Gate)
  BY GateInTick DEF GateRuns

(* What holds of the gate after the first half of a tick.                  *)
LEMMA SilenceAfterObserve ==
  ASSUME WellFormed(mon), GateRuns, SeenType, SilenceKept, pc = "wait", pc' = "judge",
         NEW S, Checks(Aged(mon), mon', S),
         seen'.idle = 0 \/ seen'.idle = Smaller(seen.idle + 1, Gate + 1),
         seen.skipped /\ Pending(mon) => seen'.skipped
  PROVE  SilenceKept'
<1> SUFFICES ASSUME Pending(mon'), ~seen'.skipped
             PROVE  \/ seen'.idle >= mon'.clock["gate"]
                    \/ mon'.clock["gate"] <= Early
                    \/ seen'.idle <= Early
  BY DEF SilenceKept
<1>1. \/ mon'.clock["gate"] = 0
      \/ Pending(mon) /\ mon'.clock["gate"] = Smaller(mon.clock["gate"] + 1, Gate)
  BY GateRunsOn
<1>2. seen.idle \in Nat /\ Early \in Nat /\ Gate \in Nat
  BY TimesAssumption DEF SeenType
<1>3. CASE Pending(mon) /\ mon'.clock["gate"] = Smaller(mon.clock["gate"] + 1, Gate)
  <2>1. mon.clock["gate"] \in 0 .. Gate
    BY <1>3 DEF GateRuns
  <2>2. seen.idle >= mon.clock["gate"] \/ mon.clock["gate"] <= Early
    BY <1>3 DEF SilenceKept
  <2> QED
    BY <1>2, <1>3, <2>1, <2>2 DEF Smaller
<1> QED
  BY <1>1, <1>2, <1>3

(* The end of a tick by check_pipeline_timeout.                            *)
LEMMA PipelineExpiredIInv == IInv /\ PipelineExpired => IInv'
<1> SUFFICES ASSUME IInv, PipelineExpired PROVE IInv'
  OBVIOUS
<1>1. /\ mon' = CheckSignals(Aged(mon)) /\ verdict' = "timeout" /\ pc' = "wait"
      /\ killed' = killed /\ seen' = Observed(mon, FALSE, FALSE)
  BY DEF PipelineExpired, Report
<1>2. Checks(Aged(mon), mon', {"completion", "gate", "pane"})
  BY <1>1, AgedFacts, CheckSignalsFacts DEF IInv
<1>3. WellFormed(mon') /\ GateRuns'
  BY <1>2, GateRunsOn DEF IInv, Checks
<1>4. SeenType'
  BY <1>1, ObservedFacts DEF IInv, SeenType
<1> QED
  BY <1>1, <1>3, <1>4 DEF IInv, VerdictIsLast, VerdictHasCause

(* A session that vanished is completed only on a checkpoint or a signal   *)
(* that said so.                                                           *)
LEMMA SessionVanishedIInv == IInv /\ SessionVanished => IInv'
<1> SUFFICES ASSUME IInv, SessionVanished PROVE IInv'
  OBVIOUS
<1>1. /\ mon' = AtSignals /\ verdict = "none" /\ pc' = "wait" /\ killed' = killed
      /\ seen' = Observed(AtSignals, FALSE, FALSE) /\ Vanished(AtSignals)
      /\ verdict' \in {VanishedVerdict(AtSignals, "none"),
                       VanishedVerdict(AtSignals, ReadCheckpoint(AtSignals))}
  BY DEF SessionVanished, Report, Ready
<1>2. WellFormed(mon) /\ SeenType /\ TimersTell
  BY <1>1 DEF IInv
<1>3. WellFormed(mon') /\ GateRuns'
  BY <1>1, <1>2, AtSignalsFacts, GateRunsOn DEF IInv
<1>4. /\ SeenType'
      /\ seen'.absent <=> world.session = "absent"
      /\ seen'.hung = IF world.session = "hung" THEN Smaller(seen.hung + 1, HungTicks) ELSE 0
      /\ seen'.finished <=> \/ seen.finished \/ "ended" \in signals
                            \/ NearCompletion(ReadCheckpoint(AtSignals))
  BY <1>1, <1>2, ObservedFacts DEF SeenType
<1>5. verdict' \in {"completed", "crashed"}
  BY <1>1 DEF VanishedVerdict
<1>6. verdict' = "completed" => seen'.finished
  <2>1. IsSet(AtSignals, "completion") => seen.finished \/ "ended" \in signals
    BY <1>2, AtSignalsFacts DEF TimersTell
  <2>2. verdict' = "completed" => \/ IsSet(AtSignals, "completion")
                                  \/ NearCompletion(ReadCheckpoint(AtSignals))
    BY <1>1 DEF VanishedVerdict
  <2> QED
    BY <1>4, <2>1, <2>2
<1>7. seen'.absent \/ seen'.hung >= HungTicks
  <2>1. AtSignals.hung = seen'.hung
    BY <1>2, <1>4, AtSignalsFacts DEF TimersTell
  <2> QED
    BY <1>1, <1>4, <2>1 DEF Vanished
<1> QED
  BY <1>1, <1>3, <1>4, <1>5, <1>6, <1>7 DEF IInv, VerdictIsLast, VerdictHasCause

(* An accepted prompt ends the tick before the gate: what it saw is taken  *)
(* down as skipped.                                                        *)
LEMMA PromptAcceptedIInv == IInv /\ PromptAccepted => IInv'
<1> SUFFICES ASSUME IInv, PromptAccepted PROVE IInv'
  OBVIOUS
<1> DEFINE o == Observed(AtSignals, TRUE, FALSE)
           a == PaneActivity(AtSignals)
<1>1. /\ mon' = [a EXCEPT !.accepts = @ + 1] /\ verdict = "none" /\ verdict' = verdict
      /\ pc = "wait" /\ pc' = pc /\ killed' = killed
      /\ seen' = [o EXCEPT !.skipped = Pending(AtSignals)]
  BY DEF PromptAccepted, Watching, Ready
<1>2. WellFormed(mon) /\ SeenType /\ TimersTell /\ LifeShows
  BY <1>1 DEF IInv
<1>3. /\ Checks(Aged(mon), AtSignals, {"completion", "gate", "pane", "hung"})
      /\ WellFormed(AtSignals)
  BY <1>2, AtSignalsFacts
<1>4. Checks(AtSignals, a, {"pane"}) /\ ("pane" \in fresh => a.clock["pane"] = 0)
  BY <1>3, PaneActivityFacts
<1>5. WellFormed(a)
  BY <1>4 DEF Checks
<1>6. /\ o \in [idle : Nat, lost : Nat, dead : Nat, hung : Nat, absent : BOOLEAN,
                skipped : BOOLEAN, finished : BOOLEAN]
      /\ o.idle = IF Life(AtSignals, TRUE, FALSE) THEN 0 ELSE Smaller(seen.idle + 1, Gate + 1)
      /\ o.lost = Smaller(seen.lost + 1, GoneGrace)
      /\ o.dead = Smaller(seen.dead + 1, CompletionGrace)
      /\ o.hung = IF world.session = "hung" THEN Smaller(seen.hung + 1, HungTicks) ELSE 0
      /\ o.finished <=> \/ seen.finished \/ "ended" \in signals
                        \/ NearCompletion(ReadCheckpoint(AtSignals))
  BY <1>2, ObservedFacts
<1> HIDE DEF a, o
<1>7. Checks(a, mon', {})
  BY <1>1, <1>5 DEF Checks, Requests, WellFormed, Fields, LifeClocks, ReadCheckpoint
<1>8. Checks(AtSignals, mon', {"pane"} \cup {})
  BY <1>4, <1>7, ChecksTransitive
<1>9. Checks(Aged(mon), mon', {"completion", "gate", "pane", "hung"} \cup ({"pane"} \cup {}))
  BY <1>3, <1>8, ChecksTransitive
<1>10. /\ WellFormed(mon') /\ GateRuns'
  BY <1>2, <1>9, GateRunsOn DEF IInv, Checks
<1>11. /\ SeenType'
       /\ seen'.idle = o.idle /\ seen'.lost = o.lost /\ seen'.dead = o.dead
       /\ seen'.hung = o.hung /\ seen'.finished = o.finished
       /\ Pending(AtSignals) => seen'.skipped
  <2>1. Pending(AtSignals) \in BOOLEAN
    BY Zenon DEF Pending
  <2> HIDE DEF Pending
  <2> QED
    BY <1>1, <1>6, <2>1 DEF SeenType
<1>12. TimersTell'
  <2>1. mon'.hung = AtSignals.hung /\ mon'.clock["completion"] = AtSignals.clock["completion"]
    BY <1>8, HorizonFacts DEF Checks
  <2>2. mon'.clock["gone"] = Aged(mon).clock["gone"]
        /\ mon'.clock["process"] = Aged(mon).clock["process"]
    BY <1>9, HorizonFacts DEF Checks
  <2>3. /\ mon'.clock["gone"] <= mon.clock["gone"] + 1
        /\ mon'.clock["process"] <= mon.clock["process"] + 1
        /\ mon'.clock["gone"] \in Int /\ mon'.clock["process"] \in Int
        /\ mon.clock["gone"] \in Int /\ mon.clock["process"] \in Int
    BY <1>2, <1>10, <2>2, AgedFacts, HorizonFacts DEF Smaller, Off, WellFormed
  <2>4. mon'.hung = seen'.hung
    BY <1>2, <1>6, <1>11, <2>1, AtSignalsFacts DEF TimersTell
  <2>5. IsSet(mon', "completion") => seen'.finished
    BY <1>2, <1>6, <1>11, <2>1, AtSignalsFacts DEF TimersTell, IsSet
  <2>6. /\ mon'.clock["gone"] <= seen'.lost \/ seen'.lost >= GoneGrace
        /\ mon'.clock["process"] <= seen'.dead \/ seen'.dead >= CompletionGrace
    BY <1>2, <1>6, <1>11, <2>3, TimesAssumption DEF TimersTell, Smaller, SeenType
  <2> QED
    BY <2>4, <2>5, <2>6 DEF TimersTell
<1>13. LifeShows'
  <2>1. CASE Life(AtSignals, TRUE, FALSE)
    <3>1. AtSignals.clock["pane"] = 0 \/ "pane" \in fresh
      BY <1>2, <2>1, AtSignalsFacts DEF Life
    <3>2. mon'.clock["pane"] = 0
      BY <1>4, <1>7, <3>1, HorizonFacts DEF Checks, LifeClocks
    <3> QED
      BY <1>6, <1>11, <2>1, <3>2 DEF LifeShows, LifeClocks
  <2>2. CASE ~Life(AtSignals, TRUE, FALSE)
    <3>1. \A c \in LifeClocks : mon'.clock[c] \in {Aged(mon).clock[c], 0}
      BY <1>9 DEF Checks
    <3>2. \A c \in LifeClocks : mon'.clock[c] <= mon.clock[c] + 1 \/ mon'.clock[c] = 0
      BY <1>2, <3>1, AgedFacts, HorizonFacts DEF Smaller, Off, LifeClocks, WellFormed
    <3> QED
      BY <1>2, <1>6, <1>10, <1>11, <2>2, <3>2, TimesAssumption, HorizonFacts
      DEF LifeShows, LifeClocks, Smaller, SeenType, WellFormed
  <2> QED
    BY <2>1, <2>2
<1>14. SilenceKept'
  <2>1. Pending(mon') => Pending(AtSignals) \/ mon'.clock["gate"] = 0
    BY <1>8 DEF Checks, Requests, Pending
  <2> QED
    BY <1>11, <2>1, TimesAssumption DEF SilenceKept
<1> QED
  BY <1>1, <1>10, <1>11, <1>12, <1>13, <1>14 DEF IInv, VerdictIsLast, VerdictHasCause

(* The checks 4 to 12 with one way through them: m, l and n are the states *)
(* after the pane, after the loop file and after the last check.           *)
LEMMA ObserveFacts ==
  ASSUME WellFormed(mon), SeenType, TimersTell,
         NEW captured \in BOOLEAN, NEW back \in Int
  PROVE  LET m == AfterPane(captured)
             l == LoopState(m, back)
             n == LastState(m, back)
         IN  /\ \A x \in {m, l, n} : /\ Checks(Aged(mon), x, All)
                                     /\ x.hung = AtSignals.hung
                                     /\ ReadCheckpoint(x) = ReadCheckpoint(AtSignals)
             /\ IsSet(m, "completion") \/ IsSet(n, "completion") =>
                   \/ seen.finished \/ "ended" \in signals
                   \/ NearCompletion(ReadCheckpoint(AtSignals))
             /\ l.clock["gone"] \in
                   IF world.loop = "active" THEN {Off} ELSE {Aged(mon).clock["gone"], 0}
             /\ n.clock["gone"] \in {l.clock["gone"], Off}
             /\ n.clock["process"] \in
                   IF world.claude THEN {Off} ELSE {Aged(mon).clock["process"], 0}
             /\ Life(AtSignals, captured, TRUE) => \E c \in LifeClocks : n.clock[c] = 0
<1> DEFINE a == Aged(mon)
           s == AtSignals
           m == AfterPane(captured)
           l == LoopState(m, back)
           n == LastState(m, back)
           S == {"completion", "gate", "pane", "hung"}
           T == {"pane", "completion", "confirm", "gate"}
           U == {"checkpoint", "phase", "transition", "failed", "pathKnown", "gone", "loop",
                 "pane", "loopSeen"}
           V == {"gone", "artifact", "process"}
<1>1. /\ WellFormed(s) /\ Checks(a, s, S)
      /\ IsSet(s, "completion") => seen.finished \/ "ended" \in signals
      /\ "permission" \in signals /\ "stopFailure" \notin signals => s.clock["pane"] = 0
  BY AtSignalsFacts DEF TimersTell
<1>2. /\ Checks(s, m, T)
      /\ IsSet(m, "completion") => IsSet(s, "completion") \/ NearCompletion(ReadCheckpoint(s))
      /\ captured /\ "pane" \in fresh => m.clock["pane"] = 0
  BY <1>1, AfterPaneFacts
<1> HIDE DEF a, s, m
<1>3. WellFormed(m)
  BY <1>2 DEF Checks
<1>4. /\ Checks(m, l, U)
      /\ l.clock["gone"] \in IF world.loop = "active" THEN {Off} ELSE {m.clock["gone"], 0}
      /\ world.loop = "active" /\ ("loop" \in fresh \/ ~m.loopSeen) => l.clock["loop"] = 0
      /\ ReadCheckpoint(m) # "none" => l.clock["checkpoint"] = 0
  BY <1>3, LoopStateFacts
<1>5. /\ Checks(l, n, V)
      /\ n.clock["gone"] \in {l.clock["gone"], Off}
      /\ "artifacts" \in fresh /\ m.pathKnown => n.clock["artifact"] = 0
      /\ n.clock["process"] \in IF world.claude THEN {Off} ELSE {m.clock["process"], 0}
  BY <1>3, LastStateFacts
<1> HIDE DEF l, n
<1>6. /\ Checks(a, m, S \cup T) /\ Checks(s, l, T \cup U) /\ Checks(m, n, U \cup V)
  BY <1>1, <1>2, <1>4, <1>5, ChecksTransitive
<1>7. Checks(a, l, (S \cup T) \cup U) /\ Checks(s, n, T \cup (U \cup V))
  BY <1>2, <1>4, <1>6, ChecksTransitive
<1>8. Checks(a, n, S \cup (T \cup (U \cup V)))
  BY <1>1, <1>7, ChecksTransitive
<1>9. Checks(a, m, All) /\ Checks(a, l, All) /\ Checks(a, n, All)
  <2>1. /\ S \cup T \subseteq All /\ (S \cup T) \cup U \subseteq All
        /\ S \cup (T \cup (U \cup V)) \subseteq All
    BY HorizonFacts DEF All
  <2> HIDE DEF S, T, U, V
  <2> QED
    BY <1>6, <1>7, <1>8, <2>1, Weaken
<1>10. \A x \in {m, l, n} : x.hung = s.hung /\ ReadCheckpoint(x) = ReadCheckpoint(s)
  <2>1. m.hung = s.hung /\ ReadCheckpoint(m) = ReadCheckpoint(s)
    BY <1>2 DEF Checks
  <2>2. l.hung = m.hung /\ ReadCheckpoint(l) = ReadCheckpoint(m)
    BY <1>4 DEF Checks
  <2>3. n.hung = l.hung /\ ReadCheckpoint(n) = ReadCheckpoint(l)
    BY <1>5 DEF Checks
  <2> QED
    BY <2>1, <2>2, <2>3
<1>11. n.clock["completion"] = m.clock["completion"]
  BY <1>6, HorizonFacts DEF Checks
<1>12. m.clock["gone"] = a.clock["gone"] /\ m.clock["process"] = a.clock["process"]
  BY <1>6, HorizonFacts DEF Checks
<1>13. ASSUME Life(s, captured, TRUE) PROVE \E c \in LifeClocks : n.clock[c] = 0
  <2>1. \/ captured /\ "pane" \in fresh
        \/ "permission" \in signals /\ "stopFailure" \notin signals
        \/ ReadCheckpoint(s) # "none"
        \/ "artifacts" \in fresh /\ s.pathKnown
        \/ world.loop = "active" /\ ("loop" \in fresh \/ ~s.loopSeen)
    BY <1>13 DEF Life
  <2>2. \A c \in LifeClocks : /\ s.clock[c] = 0 => m.clock[c] = 0
                              /\ m.clock[c] = 0 => n.clock[c] = 0
                              /\ l.clock[c] = 0 => n.clock[c] = 0
    BY <1>2, <1>5, <1>6 DEF Checks
  <2>3. (s.pathKnown => m.pathKnown) /\ m.loopSeen = s.loopSeen
        /\ ReadCheckpoint(m) = ReadCheckpoint(s)
    BY <1>2 DEF Checks
  <2> QED
    BY <1>1, <1>2, <1>4, <1>5, <2>1, <2>2, <2>3 DEF LifeClocks
<1> QED
  BY <1>1, <1>2, <1>4, <1>5, <1>9, <1>10, <1>11, <1>12, <1>13
  DEF IsSet, a, s, m, l, n

(* An outcome found in the files.                                          *)
LEMMA LoopVerdictFacts ==
  ASSUME NEW m
  PROVE  /\ LoopVerdict(m) \in Verdicts \cup {"none"}
         /\ LoopVerdict(m) = "completed" => NearCompletion(ReadCheckpoint(m))
         /\ LoopVerdict(m) = "crashed" =>
               world.loop # "active" /\ m.clock["gone"] >= GoneGrace
  BY DEF LoopVerdict, Verdicts, Kinds, Elapsed

(* How ObserveFiles ends.                                                  *)
LEMMA ObserveFilesFacts ==
  ASSUME NEW m, NEW back
  PROVE  LET r == ObserveFiles(m, back)
         IN  \/ r.verdict = "completed" /\ r.mon = m /\ GraceOver(m)
             \/ /\ r.verdict = LoopVerdict(LoopState(m, back)) /\ r.verdict # "none"
                /\ r.mon = LoopState(m, back)
             \/ /\ r.verdict = "crashed" /\ ProcessGone(LastState(m, back))
                /\ r.mon = LastState(m, back)
             \/ r.verdict = "none" /\ r.mon = LastState(m, back)
  BY DEF ObserveFiles, LoopState, LastState

(* The first half of a tick.                                               *)
LEMMA ObserveIInv == IInv /\ Observe => IInv'
<1> SUFFICES ASSUME IInv, Observe PROVE IInv'
  OBVIOUS
<1>1. PICK captured \in BOOLEAN, back \in Backdates :
         /\ mon' = ObserveFiles(AfterPane(captured), back).mon
         /\ verdict' = ObserveFiles(AfterPane(captured), back).verdict
         /\ pc' = IF ObserveFiles(AfterPane(captured), back).verdict = "none"
                  THEN "judge" ELSE "wait"
         /\ seen' = Observed(AtSignals, captured, TRUE)
  BY Zenon DEF Observe
<1>2. verdict = "none" /\ pc = "wait" /\ killed' = killed
  BY DEF Observe, Watching, Ready
<1>3. WellFormed(mon) /\ SeenType /\ TimersTell /\ LifeShows /\ SilenceKept /\ GateRuns
      /\ VerdictIsLast
  BY <1>2 DEF IInv
<1> DEFINE m == AfterPane(captured)
           l == LoopState(m, back)
           n == LastState(m, back)
<1>4. back \in Int
  BY TimesAssumption
<1>5. /\ \A x \in {m, l, n} : /\ Checks(Aged(mon), x, All)
                              /\ x.hung = AtSignals.hung
                              /\ ReadCheckpoint(x) = ReadCheckpoint(AtSignals)
      /\ IsSet(m, "completion") \/ IsSet(n, "completion") =>
            \/ seen.finished \/ "ended" \in signals
            \/ NearCompletion(ReadCheckpoint(AtSignals))
      /\ l.clock["gone"] \in
            IF world.loop = "active" THEN {Off} ELSE {Aged(mon).clock["gone"], 0}
      /\ n.clock["gone"] \in {l.clock["gone"], Off}
      /\ n.clock["process"] \in
            IF world.claude THEN {Off} ELSE {Aged(mon).clock["process"], 0}
      /\ Life(AtSignals, captured, TRUE) => \E c \in LifeClocks : n.clock[c] = 0
  BY <1>3, <1>4, ObserveFacts
<1>6. \/ verdict' = "completed" /\ mon' = m /\ GraceOver(m)
      \/ verdict' = LoopVerdict(l) /\ verdict' # "none" /\ mon' = l
      \/ verdict' = "crashed" /\ mon' = n /\ ProcessGone(n)
      \/ verdict' = "none" /\ mon' = n
  BY <1>1, ObserveFilesFacts
<1>7. /\ SeenType'
      /\ seen'.idle = IF Life(AtSignals, captured, TRUE) THEN 0
                      ELSE Smaller(seen.idle + 1, Gate + 1)
      /\ seen'.lost = IF world.loop = "active" THEN 0 ELSE Smaller(seen.lost + 1, GoneGrace)
      /\ seen'.dead = IF world.claude THEN 0 ELSE Smaller(seen.dead + 1, CompletionGrace)
      /\ seen'.hung = IF world.session = "hung" THEN Smaller(seen.hung + 1, HungTicks) ELSE 0
      /\ seen'.skipped <=> seen.skipped /\ Pending(mon)
      /\ seen'.finished <=> \/ seen.finished \/ "ended" \in signals
                            \/ NearCompletion(ReadCheckpoint(AtSignals))
  <2>1. seen' = Observed(AtSignals, captured, TRUE)
    BY <1>1
  <2> DEFINE o == Observed(AtSignals, captured, TRUE)
  <2> HIDE DEF o
  <2>2. /\ o \in [idle : Nat, lost : Nat, dead : Nat, hung : Nat, absent : BOOLEAN,
                  skipped : BOOLEAN, finished : BOOLEAN]
        /\ o.idle = IF Life(AtSignals, captured, TRUE) THEN 0
                    ELSE Smaller(seen.idle + 1, Gate + 1)
        /\ o.lost = IF world.loop = "active" THEN 0 ELSE Smaller(seen.lost + 1, GoneGrace)
        /\ o.dead = IF world.claude THEN 0 ELSE Smaller(seen.dead + 1, CompletionGrace)
        /\ o.hung = IF world.session = "hung" THEN Smaller(seen.hung + 1, HungTicks) ELSE 0
        /\ o.skipped <=> seen.skipped /\ Pending(mon)
        /\ o.finished <=> \/ seen.finished \/ "ended" \in signals
                          \/ NearCompletion(ReadCheckpoint(AtSignals))
    <3>1. /\ o \in [idle : Nat, lost : Nat, dead : Nat, hung : Nat, absent : BOOLEAN,
                    skipped : BOOLEAN, finished : BOOLEAN]
          /\ o.idle = IF Life(AtSignals, captured, TRUE) THEN 0
                      ELSE Smaller(seen.idle + 1, Gate + 1)
          /\ o.lost = IF TRUE /\ world.loop = "active" THEN 0
                      ELSE Smaller(seen.lost + 1, GoneGrace)
          /\ o.dead = IF TRUE /\ world.claude THEN 0
                      ELSE Smaller(seen.dead + 1, CompletionGrace)
          /\ o.hung = IF world.session = "hung" THEN Smaller(seen.hung + 1, HungTicks) ELSE 0
          /\ o.absent <=> world.session = "absent"
          /\ o.skipped <=> seen.skipped /\ Pending(mon)
          /\ o.finished <=> \/ seen.finished \/ "ended" \in signals
                            \/ NearCompletion(ReadCheckpoint(AtSignals))
      BY <1>3, ObservedFacts, Zenon DEF o
    <3> QED
      BY <3>1
  <2>3. seen' = o
    BY <2>1 DEF o
  <2> QED
    BY <2>2, <2>3 DEF SeenType
<1>8. AtSignals.hung =
         IF world.session = "hung" THEN Smaller(mon.hung + 1, HungTicks) ELSE 0
  BY <1>3, AtSignalsFacts
<1> HIDE DEF m, l, n
<1>9. Checks(Aged(mon), mon', All)
  BY <1>5, <1>6
<1>10. WellFormed(mon') /\ GateRuns'
  BY <1>3, <1>9, GateRunsOn DEF Checks
<1>11. /\ Aged(mon).clock["gone"] <= seen'.lost \/ seen'.lost >= GoneGrace
          \/ world.loop = "active"
       /\ Aged(mon).clock["process"] <= seen'.dead \/ seen'.dead >= CompletionGrace
          \/ world.claude
  <2>1. /\ Aged(mon).clock["gone"] <= mon.clock["gone"] + 1
        /\ Aged(mon).clock["process"] <= mon.clock["process"] + 1
        /\ mon.clock["gone"] \in Int /\ mon.clock["process"] \in Int
        /\ Aged(mon).clock["gone"] \in Int /\ Aged(mon).clock["process"] \in Int
    BY <1>3, AgedFacts, HorizonFacts DEF Smaller, Off, WellFormed
  <2> QED
    BY <1>3, <1>7, <2>1, TimesAssumption DEF TimersTell, Smaller, SeenType
<1>12. VerdictIsLast'
  BY <1>1, <1>2, <1>3, <1>6 DEF VerdictIsLast
<1>13. VerdictHasCause'
  <2>1. verdict' = "completed" => seen'.finished
    <3>1. GraceOver(m) => IsSet(m, "completion")
      BY TimesAssumption DEF GraceOver, IsSet, Elapsed, Off
    <3>2. LoopVerdict(l) = "completed" => NearCompletion(ReadCheckpoint(AtSignals))
      BY <1>5, LoopVerdictFacts
    <3> QED
      BY <1>5, <1>6, <1>7, <3>1, <3>2
  <2>2. LoopVerdict(l) = "crashed" => seen'.lost >= GoneGrace
    <3>1. LoopVerdict(l) = "crashed" => world.loop # "active" /\ l.clock["gone"] >= GoneGrace
      BY LoopVerdictFacts
    <3>2. Aged(mon).clock["gone"] \in Int /\ seen'.lost \in Nat
      BY <1>3, <1>7, AgedFacts, HorizonFacts DEF WellFormed, SeenType
    <3> QED
      BY <1>5, <1>11, <3>1, <3>2, TimesAssumption
  <2>3. ProcessGone(n) => seen'.dead >= CompletionGrace
    <3>1. Aged(mon).clock["process"] \in Int /\ seen'.dead \in Nat
      BY <1>3, <1>7, AgedFacts, HorizonFacts DEF WellFormed, SeenType
    <3> QED
      BY <1>5, <1>11, <3>1, TimesAssumption DEF ProcessGone, Elapsed, Off
  <2> QED
    BY <1>6, <2>1, <2>2, <2>3 DEF VerdictHasCause
<1>14. ASSUME verdict' = "none" PROVE TimersTell' /\ LifeShows' /\ SilenceKept'
  <2>1. mon' = n /\ pc' = "judge"
    BY <1>1, <1>6, <1>14
  <2>2. TimersTell'
    <3>1. mon'.hung = seen'.hung
      BY <1>3, <1>5, <1>7, <1>8, <2>1 DEF TimersTell
    <3>2. IsSet(mon', "completion") => seen'.finished
      BY <1>5, <1>7, <2>1
    <3>3. Aged(mon).clock["gone"] \in Int /\ seen'.lost \in Nat
          /\ Aged(mon).clock["process"] \in Int /\ seen'.dead \in Nat
      BY <1>3, <1>7, AgedFacts, HorizonFacts DEF WellFormed, SeenType
    <3>4. mon'.clock["gone"] <= seen'.lost \/ seen'.lost >= GoneGrace
      BY <1>5, <1>11, <2>1, <3>3 DEF Off
    <3>5. mon'.clock["process"] <= seen'.dead \/ seen'.dead >= CompletionGrace
      BY <1>5, <1>11, <2>1, <3>3 DEF Off
    <3> QED
      BY <3>1, <3>2, <3>4, <3>5 DEF TimersTell
  <2>3. LifeShows'
    <3>1. CASE Life(AtSignals, captured, TRUE)
      BY <1>5, <1>7, <2>1, <3>1 DEF LifeShows
    <3>2. CASE ~Life(AtSignals, captured, TRUE)
      <4>1. \A c \in LifeClocks : mon'.clock[c] \in {Aged(mon).clock[c], 0}
        BY <1>9 DEF Checks
      <4>2. \A c \in LifeClocks : mon'.clock[c] <= mon.clock[c] + 1 \/ mon'.clock[c] = 0
        BY <1>3, <4>1, AgedFacts, HorizonFacts DEF Smaller, Off, LifeClocks, WellFormed
      <4> QED
        BY <1>3, <1>7, <1>10, <3>2, <4>2, TimesAssumption, HorizonFacts
        DEF LifeShows, LifeClocks, Smaller, SeenType, WellFormed
    <3> QED
      BY <3>1, <3>2
  <2>4. SilenceKept'
    BY <1>2, <1>3, <1>7, <1>9, <2>1, SilenceAfterObserve
  <2> QED
    BY <2>2, <2>3, <2>4
<1> QED
  BY <1>7, <1>10, <1>12, <1>13, <1>14 DEF IInv

----------------------------------------------------------------------------
(* The state the gate is evaluated in: what was read is what Observe left, *)
(* and a request made just before has its Instant at zero.                 *)
LEMMA JudgedGate ==
  ASSUME IInv, pc = "judge"
  PROVE  /\ WellFormed(Judged) /\ Judged.hung = mon.hung
         /\ \A c \in Clocks \ {"gate"} : Judged.clock[c] = mon.clock[c]
         /\ Requests(mon, Judged)
         /\ Pending(Judged) => Judged.clock["gate"] \in 0 .. Gate
<1>1. WellFormed(mon) /\ GateRuns
  BY DEF IInv
<1>2. Checks(mon, Judged, {"gate"})
  BY <1>1, JudgedFacts
<1> QED
  BY <1>1, <1>2, TimesAssumption DEF Checks, Requests, GateRuns, Pending

(* With a sign of life no older than Early in the files, the gate recovers.*)
LEMMA RecentLifeRecovers ==
  ASSUME IInv, pc = "judge", seen.idle <= Early
  PROVE  HasRecovery(Judged)
<1>1. LifeShows /\ SeenType /\ WellFormed(mon)
  BY DEF IInv, VerdictIsLast
<1>2. PICK c \in LifeClocks : mon.clock[c] <= seen.idle
  BY <1>1, TimesAssumption DEF LifeShows, SeenType
<1>3. Judged.clock[c] = mon.clock[c] /\ mon.clock[c] \in Int
  BY <1>1, <1>2, JudgedGate, HorizonFacts DEF LifeClocks, WellFormed
<1>4. Judged.clock[c] < Window
  BY <1>1, <1>2, <1>3, TimesAssumption DEF SeenType
<1> QED
  BY <1>4 DEF HasRecovery, LifeClocks, Elapsed

(* The gate fires only on a request that stood, in silence.                *)
LEMMA GateFiresInSilence ==
  ASSUME IInv, pc = "judge", GateFires(Judged)
  PROVE  Pending(mon) /\ Judged.pending = mon.pending /\ (seen.idle >= Gate \/ seen.skipped)
<1>1. /\ Pending(Judged) /\ Judged.clock["gate"] >= Gate
      /\ ~(HasRecovery(Judged) /\ Judged.clock["gate"] > Early)
  BY DEF GateFires, GateWithdraws, Elapsed
<1>2. Judged.clock["gate"] = Gate
  BY <1>1, JudgedGate, TimesAssumption
<1>3. Pending(mon) /\ Judged.pending = mon.pending /\ mon.clock["gate"] = Gate
  BY <1>1, <1>2, JudgedGate, TimesAssumption DEF Requests, Pending
<1>4. ~HasRecovery(Judged)
  BY <1>1, <1>2, TimesAssumption
<1>5. SilenceKept /\ SeenType
  BY DEF IInv, VerdictIsLast
<1> QED
  BY <1>3, <1>4, <1>5, RecentLifeRecovers, TimesAssumption DEF SilenceKept, SeenType

(* The second half of a tick that lets the session live.                   *)
LEMMA JudgeIInv == IInv /\ Judge => IInv'
<1> SUFFICES ASSUME IInv, Judge PROVE IInv'
  OBVIOUS
<1>1. /\ pc = "judge" /\ pc' = "wait" /\ verdict' = verdict /\ killed' = killed
      /\ seen' = seen
      /\ ~GateFires(Judged)
      /\ mon' = IF GateWithdraws(Judged) THEN Disarm(Judged) ELSE GateNudges(Judged)
  BY DEF Judge
<1>2. verdict = "none" /\ TimersTell /\ LifeShows /\ SilenceKept /\ SeenType /\ GateRuns
      /\ VerdictIsLast /\ VerdictHasCause
  BY <1>1 DEF IInv, VerdictIsLast
<1>3. /\ WellFormed(Judged) /\ Judged.hung = mon.hung
      /\ \A c \in Clocks \ {"gate"} : Judged.clock[c] = mon.clock[c]
      /\ Requests(mon, Judged)
      /\ Pending(Judged) => Judged.clock["gate"] \in 0 .. Gate
  BY <1>1, JudgedGate
<1> DEFINE j == Judged
<1> HIDE DEF j
<1>4. /\ WellFormed(mon') /\ mon'.hung = mon.hung
      /\ \A c \in Clocks \ {"gate"} : mon'.clock[c] = mon.clock[c]
  <2>1. CASE GateWithdraws(Judged)
    BY <1>1, <1>3, <2>1, DisarmFacts
  <2>2. CASE ~GateWithdraws(Judged)
    BY <1>1, <1>3, <2>2, GateNudgesFacts
  <2> QED
    BY <2>1, <2>2
<1>5. Pending(mon') => /\ Pending(Judged) /\ ~GateWithdraws(Judged)
                       /\ mon'.clock["gate"] = Judged.clock["gate"]
  BY <1>1, <1>3, DisarmFacts, GateNudgesFacts
<1>6. GateRuns'
  BY <1>3, <1>5 DEF GateRuns
<1>7. TimersTell' /\ LifeShows'
  BY <1>1, <1>2, <1>4, HorizonFacts
  DEF TimersTell, LifeShows, LifeClocks, IsSet
<1>8. SilenceKept'
  <2> SUFFICES ASSUME Pending(mon'), ~seen'.skipped
               PROVE  seen'.idle >= mon'.clock["gate"] \/ mon'.clock["gate"] <= Early
    BY DEF SilenceKept
  <2>1. CASE Judged.clock["gate"] = 0
    BY <1>1, <1>2, <1>5, <2>1 DEF SeenType
  <2>2. CASE Judged.clock["gate"] # 0
    <3>1. Pending(mon) /\ Judged.clock["gate"] = mon.clock["gate"]
      BY <1>3, <1>5, <2>2 DEF Requests, Pending
    <3>2. CASE seen.idle <= Early
      <4>1. ~(Judged.clock["gate"] > Early)
        BY <1>1, <1>5, <3>2, RecentLifeRecovers DEF GateWithdraws, Elapsed
      <4> QED
        BY <1>3, <1>5, <4>1, TimesAssumption
    <3> QED
      BY <1>1, <1>2, <1>5, <3>1, <3>2 DEF SilenceKept
  <2> QED
    BY <2>1, <2>2
<1> QED
  BY <1>1, <1>2, <1>4, <1>6, <1>7, <1>8
  DEF IInv, VerdictIsLast, SeenType, VerdictHasCause

(* The gate fires.                                                         *)
LEMMA KillIInv == IInv /\ Kill => IInv'
<1> SUFFICES ASSUME IInv, Kill PROVE IInv'
  OBVIOUS
<1>1. /\ pc = "judge" /\ pc' = "wait" /\ seen' = seen /\ killed' \in BOOLEAN
      /\ GateFires(Judged)
      /\ verdict' = Judged.pending.kind /\ mon' = Disarm(Judged)
  BY DEF Kill
<1>2. WellFormed(Judged)
  BY <1>1, JudgedGate
<1>3. WellFormed(mon') /\ ~Pending(mon')
  BY <1>1, <1>2, DisarmFacts
<1>4. verdict' \in Kinds
  BY <1>1, <1>2 DEF GateFires, WellFormed, Pending
<1> QED
  BY <1>1, <1>3, <1>4
  DEF IInv, SeenType, GateRuns, VerdictIsLast, VerdictHasCause, Kinds

(* Everything else: nothing the invariant speaks of changes.               *)
LEMMA StutterIInv ==
  ASSUME IInv, UNCHANGED <<mon, pc, verdict, killed, seen>> PROVE IInv'
  BY DEF IInv, WellFormed, SeenType, GateRuns, VerdictIsLast, VerdictHasCause, TimersTell,
     LifeShows, SilenceKept, Pending, IsSet

(* What the session, its files and its processes do is not the monitor's.  *)
LEMMA WorldStutters == World => UNCHANGED <<mon, pc, verdict, killed, seen>>
  BY DEF World, SessionChanges, ProcessDies, PaneChanges, CheckpointChanges, LoopChanges,
     QuietChanges, SignalWritten, PermissionExpires, Change

(* A cancelled monitor ends with its state as it stood.                    *)
LEMMA CancelledIInv == IInv /\ Cancelled => IInv'
<1> SUFFICES ASSUME IInv, Cancelled PROVE IInv'
  OBVIOUS
<1>1. /\ verdict' = "cancelled" /\ mon' = mon /\ pc' = "wait" /\ killed' = killed
      /\ seen' = seen
  BY DEF Cancelled, Report
<1> QED
  BY <1>1 DEF IInv, SeenType, GateRuns, VerdictIsLast, VerdictHasCause

(* The invariant is inductive.                                             *)
LEMMA NextIInv == IInv /\ [Next]_vars => IInv'
  BY PipelineExpiredIInv, SessionVanishedIInv, PromptAcceptedIInv, ObserveIInv, JudgeIInv,
     KillIInv, CancelledIInv, WorldStutters, StutterIInv
  DEF Next, Tick, Finished, vars

(* So it holds in every state of every behaviour.                          *)
LEMMA AlwaysIInv == Spec => []IInv
  BY InitIInv, NextIInv, PTL DEF Spec

----------------------------------------------------------------------------
(* An outcome has a cause that was read: completed only after a signal or  *)
(* a checkpoint near its end, crashed only for a session gone, a tmux that *)
(* hung, a loop file or a process missing for the whole grace.             *)
THEOREM VerdictsHaveCauses == Spec => []VerdictHasCause
<1>1. IInv => VerdictHasCause
  BY DEF IInv
<1> QED
  BY <1>1, AlwaysIInv, PTL

(* evaluate_kill_gate "fires only if silence persists for the full         *)
(* window": for any thresholds with the recovery window longer than the    *)
(* first seconds in which a request cannot be withdrawn, and the gate, too.*)
THEOREM GateKillsInSilence == Spec => KillAfterSilence
<1>1. IInv /\ [Next]_vars => [~killed /\ killed' => seen.idle >= Gate \/ seen.skipped]_vars
  <2> SUFFICES ASSUME IInv, Next, ~killed /\ killed'
               PROVE  seen.idle >= Gate \/ seen.skipped
    BY DEF vars
  <2>1. Kill
    BY WorldStutters
    DEF Next, Tick, Finished, vars, Cancelled, PipelineExpired, SessionVanished,
        PromptAccepted, Observe, Judge, Report
  <2> QED
    BY <2>1, GateFiresInSilence DEF Kill
<1> QED
  BY <1>1, AlwaysIInv, PTL DEF Spec, KillAfterSilence

----------------------------------------------------------------------------
(* A request as the contract sees it.                                      *)
LEMMA RequestOrKeep ==
  ASSUME NEW m, NEW n, WellFormed(m), WellFormed(n), Requests(m, n)
  PROVE  \/ n.pending.kind = m.pending.kind
         \/ m.pending.kind = "none" /\ n.pending.kind \in Kinds
  BY DEF Requests, Pending, WellFormed, NoRequest

(* A verdict without a kill: a request that stands is not replaced.        *)
LEMMA Concludes ==
  ASSUME IInv, verdict = "none", verdict' \in Verdicts, killed' = killed,
         WellFormed(mon'),
         \/ mon'.pending.kind = mon.pending.kind
         \/ mon.pending.kind = "none" /\ mon'.pending.kind \in Kinds
  PROVE  Contract!Conclude(verdict')
  BY DEF IInv, VerdictIsLast, WellFormed, Contract!Conclude

(* A step that gives no verdict asks for a kill, or changes no request.    *)
LEMMA AsksOrNothing ==
  ASSUME verdict = "none", verdict' = verdict, killed' = killed,
         \/ mon'.pending.kind = mon.pending.kind
         \/ mon.pending.kind = "none" /\ mon'.pending.kind \in Kinds
  PROVE  \/ \E k \in Kinds : Contract!Request(k)
         \/ UNCHANGED Contract!vars
  BY DEF Contract!Request, Contract!vars

(* From the state before a tick to the one after its first half.           *)
LEMMA TickRequests ==
  ASSUME WellFormed(mon), NEW S, Checks(Aged(mon), mon', S)
  PROVE  \/ mon'.pending.kind = mon.pending.kind
         \/ mon.pending.kind = "none" /\ mon'.pending.kind \in Kinds
<1>1. Aged(mon).pending = mon.pending /\ WellFormed(Aged(mon))
  BY AgedFacts
<1> QED
  BY <1>1, RequestOrKeep DEF Checks

(* The contract's initial state: nothing asked, nothing decided.           *)
LEMMA InitContract == Init => Contract!Init
  BY DEF Init, Contract!Init, NewMonitor, NoRequest

(* Every step of the monitor is one of the contract, or none.              *)
LEMMA NextContract == IInv /\ [Next]_vars => [Contract!Next]_Contract!vars
<1> SUFFICES ASSUME IInv, [Next]_vars PROVE [Contract!Next]_Contract!vars
  OBVIOUS
<1>0. WellFormed(mon)
  BY DEF IInv
<1>1. CASE Cancelled
  <2>1. verdict = "none" /\ verdict' \in Verdicts /\ killed' = killed /\ mon' = mon
    BY <1>1 DEF Cancelled, Report, Ready, Verdicts
  <2> QED
    BY <1>0, <2>1, Concludes DEF Contract!Next
<1>2. CASE PipelineExpired
  <2>1. /\ verdict = "none" /\ verdict' \in Verdicts /\ killed' = killed
        /\ mon' = CheckSignals(Aged(mon))
    BY <1>2 DEF PipelineExpired, Report, Ready, Verdicts, Kinds
  <2>2. Checks(Aged(mon), mon', {"completion", "gate", "pane"})
    BY <1>0, <2>1, AgedFacts, CheckSignalsFacts
  <2>3. WellFormed(mon')
    BY <2>2 DEF Checks
  <2> QED
    BY <1>0, <2>1, <2>2, <2>3, TickRequests, Concludes DEF Contract!Next
<1>3. CASE SessionVanished
  <2>1. /\ verdict = "none" /\ verdict' \in Verdicts /\ killed' = killed
        /\ mon' = AtSignals
    BY <1>3 DEF SessionVanished, Report, Ready, Verdicts, VanishedVerdict
  <2>2. Checks(Aged(mon), mon', {"completion", "gate", "pane", "hung"}) /\ WellFormed(mon')
    BY <1>0, <2>1, AtSignalsFacts
  <2> QED
    BY <1>0, <2>1, <2>2, TickRequests, Concludes DEF Contract!Next
<1>4. CASE PromptAccepted
  <2>1. /\ verdict = "none" /\ verdict' = verdict /\ killed' = killed
        /\ mon' = [PaneActivity(AtSignals) EXCEPT !.accepts = @ + 1]
    BY <1>4 DEF PromptAccepted, Watching, Ready
  <2>2. Checks(Aged(mon), AtSignals, {"completion", "gate", "pane", "hung"}) /\ WellFormed(AtSignals)
    BY <1>0, AtSignalsFacts
  <2>3. Checks(AtSignals, PaneActivity(AtSignals), {"pane"})
    BY <2>2, PaneActivityFacts
  <2>4. Checks(Aged(mon), PaneActivity(AtSignals),
               {"completion", "gate", "pane", "hung"} \cup {"pane"})
    BY <2>2, <2>3, ChecksTransitive
  <2>5. mon'.pending = PaneActivity(AtSignals).pending
    BY <2>1, <2>3 DEF Checks, WellFormed, Fields
  <2>6. \/ mon'.pending.kind = mon.pending.kind
        \/ mon.pending.kind = "none" /\ mon'.pending.kind \in Kinds
    <3>1. Aged(mon).pending = mon.pending /\ WellFormed(Aged(mon))
      BY <1>0, AgedFacts
    <3> QED
      BY <2>4, <2>5, <3>1, RequestOrKeep DEF Checks
  <2> QED
    BY <2>1, <2>6, AsksOrNothing DEF Contract!Next
<1>5. CASE Observe
  <2>1. PICK captured \in BOOLEAN, back \in Backdates :
           /\ mon' = ObserveFiles(AfterPane(captured), back).mon
           /\ verdict' = ObserveFiles(AfterPane(captured), back).verdict
    BY <1>5, Zenon DEF Observe
  <2>2. verdict = "none" /\ killed' = killed
    BY <1>5 DEF Observe, Watching, Ready
  <2>3. SeenType /\ TimersTell
    BY <2>2 DEF IInv
  <2>4. back \in Int
    BY TimesAssumption
  <2>5. \A x \in {AfterPane(captured), LoopState(AfterPane(captured), back),
                  LastState(AfterPane(captured), back)} : Checks(Aged(mon), x, All)
    BY <1>0, <2>3, <2>4, ObserveFacts
  <2>6. /\ mon' \in {AfterPane(captured), LoopState(AfterPane(captured), back),
                     LastState(AfterPane(captured), back)}
        /\ verdict' \in Verdicts \cup {"none"}
    BY <2>1, ObserveFilesFacts, LoopVerdictFacts DEF Verdicts
  <2>7. Checks(Aged(mon), mon', All)
    BY <2>5, <2>6
  <2>8. WellFormed(mon')
    BY <2>7 DEF Checks
  <2>9. \/ mon'.pending.kind = mon.pending.kind
        \/ mon.pending.kind = "none" /\ mon'.pending.kind \in Kinds
    BY <1>0, <2>7, TickRequests
  <2>10. CASE verdict' = "none"
    BY <2>2, <2>9, <2>10, AsksOrNothing DEF Contract!Next
  <2>11. CASE verdict' # "none"
    BY <2>2, <2>6, <2>8, <2>9, <2>11, Concludes DEF Contract!Next
  <2> QED
    BY <2>10, <2>11
<1>6. CASE Judge
  <2>1. /\ pc = "judge" /\ verdict' = verdict /\ killed' = killed
        /\ mon' = IF GateWithdraws(Judged) THEN Disarm(Judged) ELSE GateNudges(Judged)
    BY <1>6 DEF Judge
  <2>2. verdict = "none"
    BY <2>1 DEF IInv, VerdictIsLast
  <2>3. WellFormed(Judged) /\ Requests(mon, Judged)
    BY <2>1, JudgedGate
  <2>4. CASE GateWithdraws(Judged)
    <3>1. mon'.pending.kind = "none"
      <4>1. WellFormed(mon') /\ ~Pending(mon')
        BY <2>1, <2>3, <2>4, DisarmFacts
      <4> QED
        BY <4>1 DEF Pending, NoRequest
    <3> QED
      BY <2>1, <2>2, <3>1 DEF Contract!Next, Contract!Withdraw, Contract!vars
  <2>5. CASE ~GateWithdraws(Judged)
    <3>1. mon'.pending.kind = Judged.pending.kind
      BY <2>1, <2>3, <2>5, GateNudgesFacts
    <3> QED
      BY <1>0, <2>1, <2>2, <2>3, <3>1, RequestOrKeep, AsksOrNothing DEF Contract!Next
  <2> QED
    BY <2>4, <2>5
<1>7. CASE Kill
  <2>1. /\ pc = "judge" /\ GateFires(Judged) /\ killed' \in BOOLEAN
        /\ verdict' = Judged.pending.kind /\ mon' = Disarm(Judged)
    BY <1>7 DEF Kill
  <2>2. verdict = "none"
    BY <2>1 DEF IInv, VerdictIsLast
  <2>3. Pending(mon) /\ Judged.pending = mon.pending
    BY <2>1, GateFiresInSilence
  <2>4. mon.pending.kind # "none"
    BY <1>0, <2>3 DEF WellFormed, Pending
  <2>5. mon'.pending.kind = "none"
    <3>1. WellFormed(mon') /\ ~Pending(mon')
      BY <2>1, JudgedGate, DisarmFacts
    <3> QED
      BY <3>1 DEF Pending, NoRequest
  <2> QED
    BY <2>1, <2>2, <2>3, <2>4, <2>5 DEF Contract!Next, Contract!Execute
<1>8. CASE World \/ Finished \/ UNCHANGED vars
  <2>1. UNCHANGED <<mon, verdict, killed>>
    BY <1>8, WorldStutters DEF Finished, vars
  <2> QED
    BY <2>1 DEF Contract!vars
<1> QED
  BY <1>1, <1>2, <1>3, <1>4, <1>5, <1>6, <1>7, <1>8 DEF Next, Tick

(* The monitor implements its contract with the heartbeat: one verdict, a  *)
(* kill only on a request that stood, no request replaced.                 *)
THEOREM MonitorImplementsContract == Spec => ImplementsContract
<1>1. Spec => Contract!Init
  BY InitContract DEF Spec
<1>2. Spec => [][Contract!Next]_Contract!vars
  BY NextContract, AlwaysIInv, PTL DEF Spec
<1> QED
  BY <1>1, <1>2, PTL DEF ImplementsContract, Contract!Spec

----------------------------------------------------------------------------
(* The foreground monitor.  What may set the completion Instant, and what  *)
(* it has to be for that.                                                  *)
Completes(m, n, why) ==
    \/ n.clock["completion"] = m.clock["completion"]
    \/ ~IsSet(m, "completion") /\ n.clock["completion"] = 0 /\ why

(* One check after another, each with reasons of its own.                  *)
LEMMA CompletesTransitive ==
  ASSUME NEW l, NEW m, NEW n, NEW P, NEW Q, Completes(l, m, P), Completes(m, n, Q)
  PROVE  Completes(l, n, P \/ Q)
  BY DEF Completes, IsSet, Off

(* The completion signal is taken down once.                               *)
LEMMA SignalCompletes ==
  ASSUME NEW m, WellFormed(m)
  PROVE  Completes(m, SeeCompletion(m), CompletionSignalled)
<1>1. "completion" \in Clocks \ {"gate"}
  BY HorizonFacts
<1>2. GetOrInsert(m, "completion").clock["completion"]
         = IF m.clock["completion"] = Off THEN 0 ELSE m.clock["completion"]
  BY <1>1, GetOrInsertFacts
<1> QED
  BY <1>2 DEF SeeCompletion, Completes, IsSet

(* Up to the probe of the session.                                         *)
LEMMA AtProbeFacts ==
  ASSUME WellFormed(mon), NEW own
  PROVE  /\ Checks(Aged(mon), AtProbe(own), {"completion", "gate", "pane", "hung"})
         /\ Completes(Aged(mon), AtProbe(own), CompletionSignalled)
         /\ "permission" \in signals /\ "stopFailure" \notin signals =>
               AtProbe(own).clock["pane"] = 0
<1> DEFINE a == Aged(mon)
           b == SeeCompletion(a)
           c == IF "stopFailure" \in signals /\ own THEN Ask(b, "error") ELSE b
           d == SeePermission(c)
           e == IF Elapsed(d, "run") >= PipelineTimeout THEN Ask(d, "timeout") ELSE d
           f == Probe(e)
           S == {"completion", "gate", "pane", "hung"}
<1>0. AtProbe(own) = f
  BY DEF AtProbe
<1>1. WellFormed(a)
  BY AgedFacts
<1> HIDE DEF a
<1>2. Checks(a, b, {"completion"}) /\ Completes(a, b, CompletionSignalled)
  BY <1>1, SeeCompletionFacts, SignalCompletes
<1>a. WellFormed(b)
  BY <1>2 DEF Checks
<1> HIDE DEF b
<1>3. Checks(b, c, {"gate"})
  BY <1>a, AskFacts, NothingTouched DEF Kinds
<1>b. WellFormed(c)
  BY <1>3 DEF Checks
<1> HIDE DEF c
<1>4. /\ Checks(c, d, {"pane"})
      /\ "permission" \in signals /\ "stopFailure" \notin signals => d.clock["pane"] = 0
  BY <1>b, SeePermissionFacts
<1>c. WellFormed(d)
  BY <1>4 DEF Checks
<1> HIDE DEF d
<1>5. Checks(d, e, {"gate"})
  BY <1>c, AskFacts, NothingTouched DEF Kinds
<1>d. WellFormed(e)
  BY <1>5 DEF Checks
<1> HIDE DEF e
<1>6. Checks(e, f, {"hung"})
  BY <1>d, ProbeFacts
<1> HIDE DEF f
<1>7. Checks(a, c, {"completion"} \cup {"gate"})
  BY <1>2, <1>3, ChecksTransitive
<1>8. Checks(a, d, ({"completion"} \cup {"gate"}) \cup {"pane"})
  BY <1>7, <1>4, ChecksTransitive
<1>9. Checks(a, e, (({"completion"} \cup {"gate"}) \cup {"pane"}) \cup {"gate"})
  BY <1>8, <1>5, ChecksTransitive
<1>10. Checks(a, f, ((({"completion"} \cup {"gate"}) \cup {"pane"}) \cup {"gate"}) \cup {"hung"})
  BY <1>9, <1>6, ChecksTransitive
<1>11. Checks(a, f, S)
  BY <1>10, Weaken
<1>12. f.clock["completion"] = b.clock["completion"] /\ f.clock["pane"] = d.clock["pane"]
  BY <1>3, <1>4, <1>5, <1>6, HorizonFacts DEF Checks
<1> QED
  BY <1>0, <1>2, <1>4, <1>11, <1>12 DEF Completes, a

(* And with the pane, when it could be captured.                           *)
LEMMA AtPaneFacts ==
  ASSUME WellFormed(mon), NEW own
  PROVE  /\ Checks(Aged(mon), AtPane(own), {"completion", "gate", "pane", "hung"})
         /\ Completes(Aged(mon), AtPane(own), CompletionSignalled)
         /\ \/ "permission" \in signals /\ "stopFailure" \notin signals
            \/ "pane" \in fresh
            => AtPane(own).clock["pane"] = 0
<1> DEFINE p == AtProbe(own)
           q == PaneActivity(p)
<1>1. /\ Checks(Aged(mon), p, {"completion", "gate", "pane", "hung"})
      /\ Completes(Aged(mon), p, CompletionSignalled)
      /\ "permission" \in signals /\ "stopFailure" \notin signals => p.clock["pane"] = 0
  BY AtProbeFacts
<1>2. AtPane(own) = q
  BY DEF AtPane
<1> HIDE DEF p
<1>3. WellFormed(p)
  BY <1>1 DEF Checks
<1>4. Checks(p, q, {"pane"}) /\ ("pane" \in fresh => q.clock["pane"] = 0)
  BY <1>3, PaneActivityFacts
<1> HIDE DEF q
<1>5. q.clock["completion"] = p.clock["completion"] /\ (p.clock["pane"] = 0 => q.clock["pane"] = 0)
  BY <1>4, HorizonFacts DEF Checks, LifeClocks
<1>6. Checks(Aged(mon), q, {"completion", "gate", "pane", "hung"} \cup {"pane"})
  BY <1>1, <1>4, ChecksTransitive
<1>7. Checks(Aged(mon), q, {"completion", "gate", "pane", "hung"})
  BY <1>6, Weaken
<1> QED
  BY <1>1, <1>2, <1>4, <1>5, <1>7 DEF Completes

(* Where the completion Instant is taken on a condition.                   *)
LEMMA InsertFacts ==
  ASSUME NEW m, WellFormed(m)
  PROVE  /\ Checks(m, GetOrInsert(m, "completion"), {"completion"})
         /\ Completes(m, GetOrInsert(m, "completion"), TRUE)
         /\ Checks(m, m, {"completion"}) /\ Completes(m, m, FALSE)
<1>1. "completion" \in Clocks \ {"gate"}
  BY HorizonFacts
<1>2. /\ Checks(m, GetOrInsert(m, "completion"), {"completion"})
      /\ GetOrInsert(m, "completion").clock["completion"]
         = IF m.clock["completion"] = Off THEN 0 ELSE m.clock["completion"]
  BY <1>1, GetOrInsertFacts
<1> QED
  BY <1>2, NothingTouched DEF Completes, IsSet

(* The checkpoint: a changed position counts as activity, one near the end *)
(* of the arc as its completion, and its path is known from now on.        *)
LEMMA FgPollCheckpointFacts ==
  ASSUME NEW m, WellFormed(m)
  PROVE  /\ Checks(m, FgPollCheckpoint(m), {"pathKnown", "completion", "checkpoint", "phase",
                                            "transition", "failed"})
         /\ Completes(m, FgPollCheckpoint(m), NearCompletion(ReadCheckpoint(m)))
         /\ "checkpoint" \in fresh /\ ReadCheckpoint(m) # "none" =>
               FgPollCheckpoint(m).clock["checkpoint"] = 0
         /\ ReadCheckpoint(m) # "none" => FgPollCheckpoint(m).pathKnown
<1> DEFINE cp == ReadCheckpoint(m)
           new == EffectivePhase(cp)
           a == Discover(m)
           b == IF Done(cp) THEN GetOrInsert(a, "completion") ELSE a
           c == IF "checkpoint" \in fresh THEN Now(b, "checkpoint") ELSE b
           d == IF new \notin {"none", m.phase}
                THEN Clear(Now(c, "phase"), "transition") ELSE c
           e == [d EXCEPT !.phase = new]
           f == TrackGaps(e, cp, 0)
           S == {"pathKnown", "completion", "checkpoint", "phase", "transition", "failed"}
<1>0. FgPollCheckpoint(m) = IF cp = "none" THEN m ELSE f
  BY DEF FgPollCheckpoint
<1>1. Checks(m, a, {"pathKnown"}) /\ (cp # "none" => a.pathKnown)
  BY DiscoverFacts
<1>a. a.clock = m.clock
  BY DEF Discover
<1> HIDE DEF a, new, cp
<1>2. WellFormed(a)
  BY <1>1 DEF Checks
<1>3. Checks(a, b, {"completion"}) /\ Completes(a, b, NearCompletion(cp))
  <2>1. Done(cp) => NearCompletion(cp)
    BY DEF Done
  <2> QED
    BY <1>2, <2>1, InsertFacts DEF Completes
<1>b. WellFormed(b)
  BY <1>3 DEF Checks
<1> HIDE DEF b
<1>4. Checks(b, c, {"checkpoint"}) /\ ("checkpoint" \in fresh => c.clock["checkpoint"] = 0)
  BY <1>b, HorizonFacts, NowFacts, NothingTouched
<1>c. WellFormed(c)
  BY <1>4 DEF Checks
<1> HIDE DEF c
<1>5. Checks(c, d, {"phase", "transition"})
  <2>1. Checks(c, Now(c, "phase"), {"phase"})
    BY <1>c, HorizonFacts, NowFacts
  <2>2. WellFormed(Now(c, "phase"))
    BY <2>1 DEF Checks
  <2> DEFINE n == Now(c, "phase")
  <2> HIDE DEF n
  <2>3. Checks(n, Clear(n, "transition"), {"transition"})
    BY <2>2, HorizonFacts, ClearFacts DEF n, LifeClocks
  <2>4. Checks(c, Clear(n, "transition"), {"phase"} \cup {"transition"})
    BY <2>1, <2>3, ChecksTransitive DEF n
  <2>5. Checks(c, Clear(n, "transition"), {"phase", "transition"})
    BY <2>4, Weaken
  <2> QED
    BY <1>c, <2>5, NothingTouched DEF n
<1>d. WellFormed(d)
  BY <1>5 DEF Checks
<1> HIDE DEF d
<1>6. Alike(d, e)
  BY <1>d DEF Alike, WellFormed, Fields
<1>7. Checks(c, e, {"phase", "transition"})
  BY <1>5, <1>6, ChecksAlike
<1>e. WellFormed(e)
  BY <1>7 DEF Checks
<1> HIDE DEF e
<1>8. Checks(e, f, {"transition", "failed"})
  BY <1>e, TrackGapsFacts
<1> HIDE DEF f
<1>9. Checks(m, f, S)
  <2>1. Checks(m, b, {"pathKnown"} \cup {"completion"})
    BY <1>1, <1>3, ChecksTransitive
  <2>2. Checks(m, c, ({"pathKnown"} \cup {"completion"}) \cup {"checkpoint"})
    BY <2>1, <1>4, ChecksTransitive
  <2>3. Checks(m, e, (({"pathKnown"} \cup {"completion"}) \cup {"checkpoint"})
                     \cup {"phase", "transition"})
    BY <2>2, <1>7, ChecksTransitive
  <2>4. Checks(m, f, ((({"pathKnown"} \cup {"completion"}) \cup {"checkpoint"})
                      \cup {"phase", "transition"}) \cup {"transition", "failed"})
    BY <2>3, <1>8, ChecksTransitive
  <2> QED
    BY <2>4, Weaken
<1>10. /\ f.clock["completion"] = b.clock["completion"]
       /\ c.clock["checkpoint"] = 0 => f.clock["checkpoint"] = 0
       /\ cp # "none" => f.pathKnown
  BY <1>1, <1>3, <1>4, <1>7, <1>8, HorizonFacts DEF Checks
<1>11. Completes(m, f, NearCompletion(cp))
  BY <1>a, <1>3, <1>10 DEF Completes, IsSet
<1>12. Checks(m, m, S) /\ Completes(m, m, NearCompletion(cp))
  BY NothingTouched DEF Completes
<1> HIDE DEF S
<1>13. CASE cp = "none"
  BY <1>0, <1>12, <1>13 DEF S, cp
<1>14. CASE cp # "none"
  BY <1>0, <1>4, <1>9, <1>10, <1>11, <1>14 DEF S, cp
<1> QED
  BY <1>13, <1>14

(* The loop file: what was lost, what was seen, and a change of it.        *)
LEMMA TrackLoopFacts ==
  ASSUME NEW m, WellFormed(m)
  PROVE  /\ Checks(m, TrackLoop(m), {"gone", "loop", "pane", "loopSeen"})
         /\ TrackLoop(m).clock["gone"] \in
               IF world.loop = "active" THEN {Off} ELSE {m.clock["gone"], 0}
         /\ TrackLoop(m).loopSeen = IF world.loop = "active" THEN TRUE ELSE m.loopSeen
         /\ world.loop = "active" /\ HasSnapshot(m) /\ "loop" \in fresh =>
               TrackLoop(m).clock["loop"] = 0
<1> DEFINE active == Clear([m EXCEPT !.loopSeen = TRUE], "gone")
           again == Now(Now(active, "loop"), "pane")
<1>0. /\ "gone" \in Clocks \ (LifeClocks \cup {"gate"})
      /\ "loop" \in Clocks \ {"gate"} /\ "pane" \in Clocks \ {"gate"} /\ "gone" \in Clocks
  BY HorizonFacts DEF LifeClocks
<1>1. Checks(m, active, {"gone", "loopSeen"}) /\ active.clock["gone"] = Off /\ active.loopSeen = TRUE
  <2> DEFINE a == [m EXCEPT !.loopSeen = TRUE]
  <2>1. Checks(m, a, {"loopSeen"}) /\ a.loopSeen = TRUE
    BY DEF Checks, Requests, WellFormed, Fields, LifeClocks, ReadCheckpoint
  <2>2. active = Clear(a, "gone")
    OBVIOUS
  <2> HIDE DEF a
  <2>3. WellFormed(a)
    BY <2>1 DEF Checks
  <2>4. Checks(a, Clear(a, "gone"), {"gone"}) /\ Clear(a, "gone").clock["gone"] = Off
    BY <1>0, <2>3, ClearFacts
  <2>5. Checks(m, Clear(a, "gone"), {"loopSeen"} \cup {"gone"})
    BY <2>1, <2>4, ChecksTransitive
  <2>6. Checks(m, Clear(a, "gone"), {"gone", "loopSeen"})
    BY <2>5, Weaken
  <2>7. Clear(a, "gone").loopSeen = a.loopSeen
    BY <2>4 DEF Checks
  <2> QED
    BY <2>1, <2>2, <2>4, <2>6, <2>7
<1>2. WellFormed(active)
  BY <1>1 DEF Checks
<1> HIDE DEF active
<1>3. Checks(active, Now(active, "loop"), {"loop"}) /\ Now(active, "loop").clock["loop"] = 0
  BY <1>0, <1>2, NowFacts
<1>4. WellFormed(Now(active, "loop"))
  BY <1>3 DEF Checks
<1>5. Checks(Now(active, "loop"), again, {"pane"})
  BY <1>0, <1>4, NowFacts
<1> HIDE DEF again
<1>6. Checks(m, again, {"gone", "loop", "pane", "loopSeen"})
  <2>1. Checks(m, Now(active, "loop"), {"gone", "loopSeen"} \cup {"loop"})
    BY <1>1, <1>3, ChecksTransitive
  <2>2. Checks(m, again, ({"gone", "loopSeen"} \cup {"loop"}) \cup {"pane"})
    BY <2>1, <1>5, ChecksTransitive
  <2> QED
    BY <2>2, Weaken
<1>7. again.clock["gone"] = Off /\ again.clock["loop"] = 0 /\ again.loopSeen = TRUE
  BY <1>0, <1>1, <1>3, <1>5 DEF Checks
<1>8. Checks(m, active, {"gone", "loop", "pane", "loopSeen"})
  BY <1>1, Weaken
<1>9. CASE world.loop = "active"
  <2>1. TrackLoop(m) = IF HasSnapshot(m) /\ "loop" \in fresh THEN again ELSE active
    BY <1>9 DEF TrackLoop, again, active
  <2> QED
    BY <1>1, <1>6, <1>7, <1>8, <1>9, <2>1
<1>10. CASE world.loop # "active"
  <2>1. TrackLoop(m) = IF m.loopSeen THEN GetOrInsert(m, "gone") ELSE m
    BY <1>10 DEF TrackLoop
  <2>2. /\ Checks(m, GetOrInsert(m, "gone"), {"gone"})
        /\ GetOrInsert(m, "gone").clock["gone"] \in {m.clock["gone"], 0}
    BY <1>0, GetOrInsertFacts
  <2>3. Checks(m, TrackLoop(m), {"gone"})
    BY <2>1, <2>2, NothingTouched
  <2>4. Checks(m, TrackLoop(m), {"gone", "loop", "pane", "loopSeen"})
    BY <2>3, Weaken
  <2>5. TrackLoop(m).loopSeen = m.loopSeen
    BY <2>3 DEF Checks
  <2> QED
    BY <1>10, <2>1, <2>2, <2>4, <2>5
<1> QED
  BY <1>9, <1>10

(* The loop file lost for the whole grace: the arc has ended.              *)
LEMMA LoopEndedFacts ==
  ASSUME NEW m, WellFormed(m)
  PROVE  Checks(m, LoopEnded(m), {"completion"}) /\ Completes(m, LoopEnded(m), LoopGone(m))
  BY InsertFacts DEF LoopEnded, Completes

(* The pane that says so, of a checkpoint near its end.                    *)
LEMMA PaneCompletionFacts ==
  ASSUME NEW m, WellFormed(m)
  PROVE  /\ Checks(m, PaneCompletion(m), {"pathKnown", "completion"})
         /\ Completes(m, PaneCompletion(m), NearCompletion(ReadCheckpoint(m)))
<1> DEFINE a == Discover(m)
           b == GetOrInsert(a, "completion")
           why == NearCompletion(ReadCheckpoint(m))
<1>1. Checks(m, a, {"pathKnown"})
  BY DiscoverFacts
<1>2. a.clock = m.clock
  BY DEF Discover
<1>3. (PaneCompletion(m) = b /\ why) \/ PaneCompletion(m) = m
  BY DEF PaneCompletion
<1> HIDE DEF a, why
<1>4. WellFormed(a)
  BY <1>1 DEF Checks
<1>5. Checks(a, b, {"completion"}) /\ Completes(a, b, TRUE)
  BY <1>4, InsertFacts
<1> HIDE DEF b
<1>6. Checks(m, b, {"pathKnown"} \cup {"completion"}) /\ Completes(m, b, TRUE)
  BY <1>1, <1>2, <1>5, ChecksTransitive DEF Completes, IsSet
<1>7. Checks(m, b, {"pathKnown", "completion"})
  BY <1>6, Weaken
<1>8. Checks(m, m, {"pathKnown", "completion"}) /\ Completes(m, m, why)
  BY NothingTouched DEF Completes
<1>9. CASE PaneCompletion(m) = b /\ why
  BY <1>6, <1>7, <1>9 DEF Completes, why
<1>10. CASE PaneCompletion(m) = m
  BY <1>8, <1>10 DEF why
<1> QED
  BY <1>3, <1>9, <1>10

(* A class of error is confirmed, or the gate is asked for.                *)
LEMMA ConfirmFacts ==
  ASSUME NEW m, WellFormed(m)
  PROVE  Checks(m, Confirm(m), {"confirm", "gate"})
<1> DEFINE none == [Clear(m, "confirm") EXCEPT !.errorClass = "none"]
           again == [Now(m, "confirm") EXCEPT !.errorClass = Class(m)]
           T == {"confirm", "gate"}
<1>1. Confirm(m) \in {none, Ask(again, "error"), again, Ask(m, "error"), m}
  <2> DEFINE k == Class(m)
  <2>2. Confirm(m) = CASE k = "none" -> none
                       [] ClassChanged(m) -> IF k = "fatal" THEN Ask(again, "error") ELSE again
                       [] k # "none" /\ m.errorClass = "none" -> again
                       [] OTHER -> IF Elapsed(m, "confirm") >= Confirmation(m)
                                   THEN Ask(m, "error") ELSE m
    BY DEF Confirm
  <2> HIDE DEF k, none, again
  <2> QED
    BY <2>2
<1>2. Checks(m, none, {"confirm"}) /\ Checks(m, again, {"confirm"})
  BY ClassedFacts
<1> HIDE DEF none, again
<1>3. WellFormed(again)
  BY <1>2 DEF Checks
<1>4. Checks(again, Ask(again, "error"), {"gate"}) /\ Checks(m, Ask(m, "error"), {"gate"})
  BY <1>3, AskFacts DEF Kinds
<1>5. Checks(m, Ask(again, "error"), {"confirm"} \cup {"gate"})
  BY <1>2, <1>4, ChecksTransitive
<1>6. /\ Checks(m, none, T) /\ Checks(m, again, T) /\ Checks(m, Ask(m, "error"), T)
      /\ Checks(m, Ask(again, "error"), T) /\ Checks(m, m, T)
  BY <1>2, <1>4, <1>5, Weaken, NothingTouched
<1> HIDE DEF T
<1> QED
  BY <1>1, <1>6 DEF T

(* The phase budget, the gaps and the idleness touch the gate alone.       *)
LEMMA FgJudgedFacts ==
  ASSUME NEW m, WellFormed(m)
  PROVE  Checks(m, FgJudged(m), {"gate"})
<1> DEFINE a == IF IsSet(m, "phase") /\ Elapsed(m, "phase") >= PhaseBudget
                THEN Ask(m, "stuck") ELSE m
           b == Escalate(a, "transition", GapAt, FALSE)
           c == Escalate(b, "failed", FailedAt, FALSE)
           idle == Elapsed(c, "pane")
           d == IF idle > IdleKill THEN Ask(c, "stuck") ELSE c
           e == IF idle > IdleNudge * (d.nudges.idle + 1) /\ d.nudges.idle < 3
                THEN [d EXCEPT !.nudges.idle = @ + 1] ELSE d
<1>0. FgJudged(m) = e /\ "transition" \in Clocks /\ "failed" \in Clocks
  BY HorizonFacts DEF FgJudged
<1>1. Checks(m, a, {"gate"})
  BY AskFacts, NothingTouched DEF Kinds
<1>a. WellFormed(a)
  BY <1>1 DEF Checks
<1> HIDE DEF a
<1>2. Checks(a, b, {"gate"})
  BY <1>0, <1>a, EscalateFacts
<1>b. WellFormed(b)
  BY <1>2 DEF Checks
<1> HIDE DEF b
<1>3. Checks(b, c, {"gate"})
  BY <1>0, <1>b, EscalateFacts
<1>c. WellFormed(c)
  BY <1>3 DEF Checks
<1> HIDE DEF c, idle
<1>4. Checks(c, d, {"gate"})
  BY <1>c, AskFacts, NothingTouched DEF Kinds
<1>d. WellFormed(d)
  BY <1>4 DEF Checks
<1> HIDE DEF d
<1>5. Alike(d, [d EXCEPT !.nudges.idle = @ + 1]) /\ Alike(d, d)
  BY <1>d DEF Alike, WellFormed, Fields
<1>6. Checks(c, e, {"gate"})
  BY <1>4, <1>5, ChecksAlike
<1> HIDE DEF e
<1>7. Checks(m, b, {"gate"} \cup {"gate"})
  BY <1>1, <1>2, ChecksTransitive
<1>8. Checks(m, c, ({"gate"} \cup {"gate"}) \cup {"gate"})
  BY <1>7, <1>3, ChecksTransitive
<1>9. Checks(m, e, (({"gate"} \cup {"gate"}) \cup {"gate"}) \cup {"gate"})
  BY <1>8, <1>6, ChecksTransitive
<1> QED
  BY <1>0, <1>9, Weaken

----------------------------------------------------------------------------
(* A tick of the foreground monitor, as far as it has come: `polled' once  *)
(* it has read the files.                                                  *)
Active(polled) == polled /\ world.loop = "active"

(* What the history says at the end of such a tick.                        *)
FgLost(polled) == IF Active(polled) THEN 0 ELSE Smaller(seen.lost + 1, GoneGrace)

FgIdle(captured, polled) ==
    IF FgLife(mon, captured, polled) THEN 0
    ELSE Smaller(seen.idle + 1, Larger(Gate, Warmup) + 2)

FgEnds(polled) ==
    \/ CompletionSignalled
    \/ NearCompletion(ReadCheckpoint(mon))
    \/ (mon.loopSeen \/ Active(polled)) /\ FgLost(polled) >= GoneGrace

FgEnded(polled) ==
    IF seen.ended # Off THEN Smaller(seen.ended + 1, CompletionGrace)
    ELSE IF FgEnds(polled) THEN 0 ELSE Off

(* From the last tick to the state n of this one.                          *)
Ticks(n, polled) ==
    /\ Checks(Aged(mon), n, All)
    /\ Completes(Aged(mon), n, FgEnds(polled))
    /\ n.loopSeen = IF Active(polled) THEN TRUE ELSE mon.loopSeen
    /\ n.clock["gone"] \in IF Active(polled) THEN {Off} ELSE {Aged(mon).clock["gone"], 0}
    /\ n.pathKnown => n.loopSeen

(* A sign of life that was read is in an Instant the gate looks at; and it *)
(* is the pane's as long as there was no loop file to read.                *)
Lives(n, captured, polled) ==
    FgLife(mon, captured, polled) => \E c \in LifeClocks : n.clock[c] = 0

PaneLives(n, captured, polled) ==
    FgLife(mon, captured, polled) /\ ~n.loopSeen => n.clock["pane"] = 0

----------------------------------------------------------------------------
(* The inductive invariant of the foreground monitor.                      *)
FgSeenType ==
    /\ DOMAIN seen = {"idle", "lost", "ended", "skipped"}
    /\ seen.idle \in Nat /\ seen.lost \in Nat /\ seen.ended \in Nat \cup {Off}
    /\ seen.skipped \in BOOLEAN

(* The Instants a verdict is taken from are no older than what was read.   *)
FgTells(m, ended, lost) ==
    /\ IsSet(m, "completion") => ended # Off /\ m.clock["completion"] <= ended
    /\ m.clock["gone"] <= lost \/ lost >= GoneGrace
    /\ Off <= m.clock["gone"]
    /\ m.pathKnown => m.loopSeen

(* The last sign of life is in an Instant the gate looks at, and before    *)
(* there is a loop file in that of the pane.                               *)
FgLifeShows(m, idle) ==
    /\ idle > Gate \/ \E c \in LifeClocks : m.clock[c] <= idle
    /\ ~m.loopSeen => idle > Larger(Gate, Warmup) \/ m.clock["pane"] <= idle

(* A sign of life after the request is one the gate could not act upon yet.*)
FgSilence ==
    Pending(mon) /\ ~seen.skipped =>
       seen.idle >= mon.clock["gate"] \/ mon.clock["gate"] <= Early

FgInv ==
    verdict = "none" =>
       /\ WellFormed(mon) /\ FgSeenType /\ GateRuns /\ FgSilence
       /\ FgTells(mon, seen.ended, seen.lost) /\ FgLifeShows(mon, seen.idle)

----------------------------------------------------------------------------
(* The states of a tick.                                                   *)

(* A check that touches neither the loop file's Instants nor completion.   *)
LEMMA TicksOn ==
  ASSUME NEW polled, NEW m, NEW n, NEW S, Ticks(m, polled), Checks(m, n, S),
         S \subseteq All \ {"loopSeen", "gone", "pathKnown"},
         Completes(m, n, FgEnds(polled))
  PROVE  Ticks(n, polled)
<1>1. Checks(Aged(mon), n, All \cup S)
  BY ChecksTransitive DEF Ticks
<1>2. Checks(Aged(mon), n, All)
  BY <1>1, Weaken
<1>3. n.loopSeen = m.loopSeen /\ n.pathKnown = m.pathKnown /\ n.clock["gone"] = m.clock["gone"]
  BY HorizonFacts DEF Checks
<1>4. Completes(Aged(mon), n, FgEnds(polled))
  BY DEF Completes, Ticks, IsSet, Off
<1> QED
  BY <1>2, <1>3, <1>4 DEF Ticks

(* A sign of life stays in its Instant.                                    *)
LEMMA LivesOn ==
  ASSUME NEW captured, NEW polled, NEW m, NEW n, NEW S, Checks(m, n, S)
  PROVE  /\ Lives(m, captured, polled) => Lives(n, captured, polled)
         /\ n.loopSeen = m.loopSeen /\ PaneLives(m, captured, polled) =>
               PaneLives(n, captured, polled)
  BY DEF Checks, Lives, PaneLives, LifeClocks

(* What the tick reads does not depend on how far it has come.             *)
LEMMA SameReading ==
  ASSUME WellFormed(mon), NEW n, Checks(Aged(mon), n, All)
  PROVE  /\ ReadCheckpoint(n) = ReadCheckpoint(mon)
         /\ Discover(n).pathKnown <=> Discover(mon).pathKnown
         /\ \A captured, polled : FgLife(n, captured, polled) <=> FgLife(mon, captured, polled)
<1>1. Aged(mon).pathKnown = mon.pathKnown
  BY AgedFacts
<1>2. ReadCheckpoint(Aged(mon)) = ReadCheckpoint(mon)
  BY <1>1 DEF ReadCheckpoint
<1>3. ReadCheckpoint(n) = ReadCheckpoint(mon)
  BY <1>2 DEF Checks
<1>4. \A m : WellFormed(m) =>
         (Discover(m).pathKnown <=> m.pathKnown \/ ReadCheckpoint(m) # "none")
  BY DEF Discover, WellFormed, Fields
<1>5. Discover(n).pathKnown <=> Discover(mon).pathKnown
  BY <1>1, <1>2, <1>3, <1>4 DEF Checks
<1> QED
  BY <1>3, <1>5 DEF FgLife

(* Before the files are read, a tick is no more than its signals.          *)
LEMMA TicksBeforePoll ==
  ASSUME WellFormed(mon), mon.pathKnown => mon.loopSeen, NEW n, NEW S,
         Checks(Aged(mon), n, S), S \subseteq All \ {"loopSeen", "gone", "pathKnown"},
         Completes(Aged(mon), n, CompletionSignalled)
  PROVE  Ticks(n, FALSE)
<1>1. Checks(Aged(mon), n, All)
  BY Weaken
<1>2. Aged(mon).loopSeen = mon.loopSeen /\ Aged(mon).pathKnown = mon.pathKnown
  BY AgedFacts
<1>3. n.loopSeen = mon.loopSeen /\ n.pathKnown = mon.pathKnown
      /\ n.clock["gone"] = Aged(mon).clock["gone"]
  BY <1>2, HorizonFacts DEF Checks
<1>4. Completes(Aged(mon), n, FgEnds(FALSE))
  BY DEF Completes, FgEnds
<1> QED
  BY <1>1, <1>3, <1>4 DEF Ticks, Active

(* The tick at the probe of the session.                                   *)
LEMMA TickAtProbe ==
  ASSUME WellFormed(mon), mon.pathKnown => mon.loopSeen, NEW own
  PROVE  /\ Ticks(AtProbe(own), FALSE)
         /\ Lives(AtProbe(own), FALSE, FALSE) /\ PaneLives(AtProbe(own), FALSE, FALSE)
<1>1. {"completion", "gate", "pane", "hung"} \subseteq All \ {"loopSeen", "gone", "pathKnown"}
  BY HorizonFacts DEF All
<1>2. Ticks(AtProbe(own), FALSE)
  BY <1>1, AtProbeFacts, TicksBeforePoll
<1>3. FgLife(mon, FALSE, FALSE) => "permission" \in signals /\ "stopFailure" \notin signals
  BY DEF FgLife
<1> QED
  BY <1>2, <1>3, AtProbeFacts DEF Lives, PaneLives, LifeClocks

(* The tick at the pane.                                                   *)
LEMMA TickAtPane ==
  ASSUME WellFormed(mon), mon.pathKnown => mon.loopSeen, NEW own
  PROVE  /\ Ticks(AtPane(own), FALSE)
         /\ Lives(AtPane(own), TRUE, FALSE) /\ PaneLives(AtPane(own), TRUE, FALSE)
<1>1. {"completion", "gate", "pane", "hung"} \subseteq All \ {"loopSeen", "gone", "pathKnown"}
  BY HorizonFacts DEF All
<1>2. Ticks(AtPane(own), FALSE)
  BY <1>1, AtPaneFacts, TicksBeforePoll
<1>3. FgLife(mon, TRUE, FALSE) => \/ "permission" \in signals /\ "stopFailure" \notin signals
                                  \/ "pane" \in fresh
  BY DEF FgLife
<1> QED
  BY <1>2, <1>3, AtPaneFacts DEF Lives, PaneLives, LifeClocks

(* The tick in which a prompt is accepted.                                 *)
LEMMA TickAtPrompt ==
  ASSUME WellFormed(mon), mon.pathKnown => mon.loopSeen, NEW own
  PROVE  LET n == [Now(AtProbe(own), "pane") EXCEPT !.accepts = @ + 1]
         IN  Ticks(n, FALSE) /\ Lives(n, TRUE, FALSE) /\ PaneLives(n, TRUE, FALSE)
<1> DEFINE p == AtProbe(own)
           q == Now(p, "pane")
           n == [q EXCEPT !.accepts = @ + 1]
           S == {"completion", "gate", "pane", "hung"}
<1>1. Checks(Aged(mon), p, S) /\ Completes(Aged(mon), p, CompletionSignalled)
  BY AtProbeFacts
<1> HIDE DEF p
<1>2. WellFormed(p)
  BY <1>1 DEF Checks
<1>3. Checks(p, q, {"pane"}) /\ q.clock["pane"] = 0
  BY <1>2, HorizonFacts, NowFacts
<1> HIDE DEF q
<1>4. Alike(q, n)
  BY <1>3 DEF Checks, Alike, WellFormed, Fields
<1>5. Checks(p, n, {"pane"}) /\ n.clock["pane"] = 0
  BY <1>3, <1>4, ChecksAlike DEF Alike
<1> HIDE DEF n
<1>6. n.clock["completion"] = p.clock["completion"]
  BY <1>5, HorizonFacts DEF Checks
<1>7. Completes(Aged(mon), n, CompletionSignalled)
  BY <1>1, <1>6 DEF Completes
<1>8. Checks(Aged(mon), n, S \cup {"pane"})
  BY <1>1, <1>5, ChecksTransitive
<1>9. S \cup {"pane"} \subseteq All \ {"loopSeen", "gone", "pathKnown"}
  BY HorizonFacts DEF All
<1> HIDE DEF S
<1>10. Ticks(n, FALSE)
  BY <1>7, <1>8, <1>9, TicksBeforePoll
<1>11. Lives(n, TRUE, FALSE) /\ PaneLives(n, TRUE, FALSE)
  BY <1>5 DEF Lives, PaneLives, LifeClocks
<1> QED
  BY <1>10, <1>11 DEF n, q, p

(* The tick once the checkpoint and the loop file have been read: a sign   *)
(* of life is taken down, but for the artifacts, which are scanned later.  *)
LEMMA TickAtLoop ==
  ASSUME WellFormed(mon), mon.pathKnown => mon.loopSeen, Off <= mon.clock["gone"],
         NEW own
  PROVE  /\ Ticks(AtLoop(own), TRUE)
         /\ PaneLives(AtLoop(own), TRUE, TRUE)
         /\ FgLife(mon, TRUE, TRUE) =>
               \/ \E c \in LifeClocks : AtLoop(own).clock[c] = 0
               \/ "artifacts" \in fresh /\ AtLoop(own).pathKnown
<1> DEFINE p == AtPane(own)
           q == FgPollCheckpoint(p)
           n == TrackLoop(q)
           S == {"pathKnown", "completion", "checkpoint", "phase", "transition", "failed"}
           T == {"gone", "loop", "pane", "loopSeen"}
           a == Aged(mon)
<1>0. AtLoop(own) = n
  BY DEF AtLoop
<1>1. /\ Checks(a, p, {"completion", "gate", "pane", "hung"})
      /\ Completes(a, p, CompletionSignalled)
      /\ \/ "permission" \in signals /\ "stopFailure" \notin signals
         \/ "pane" \in fresh
         => p.clock["pane"] = 0
  BY AtPaneFacts
<1>2. /\ a.loopSeen = mon.loopSeen /\ a.pathKnown = mon.pathKnown
      /\ IsSet(a, "gone") <=> IsSet(mon, "gone")
  <2>1. "gone" \in Clocks /\ mon.clock["gone"] \in Int /\ Horizon["gone"] \in Nat
    BY HorizonFacts DEF WellFormed
  <2>2. a.clock["gone"] = Off <=> mon.clock["gone"] = Off
    BY <2>1, AgedFacts DEF Smaller, Off
  <2> QED
    BY <2>2, AgedFacts DEF IsSet
<1> HIDE DEF a, p
<1>3. Checks(a, p, All)
  <2>1. {"completion", "gate", "pane", "hung"} \subseteq All
    BY HorizonFacts DEF All
  <2> QED
    BY <1>1, <2>1, Weaken
<1>4. WellFormed(p) /\ p.loopSeen = mon.loopSeen /\ p.pathKnown = mon.pathKnown
      /\ p.clock["gone"] = a.clock["gone"]
  BY <1>1, <1>2, HorizonFacts DEF Checks
<1>5. /\ ReadCheckpoint(p) = ReadCheckpoint(mon)
      /\ Discover(p).pathKnown <=> Discover(mon).pathKnown
  BY <1>3, SameReading DEF a
<1>6. /\ Checks(p, q, S)
      /\ Completes(p, q, NearCompletion(ReadCheckpoint(p)))
      /\ "checkpoint" \in fresh /\ ReadCheckpoint(p) # "none" => q.clock["checkpoint"] = 0
      /\ ReadCheckpoint(p) # "none" => q.pathKnown
  BY <1>4, FgPollCheckpointFacts
<1> HIDE DEF q
<1>7. WellFormed(q) /\ q.loopSeen = p.loopSeen /\ q.clock["gone"] = p.clock["gone"]
  BY <1>6, HorizonFacts DEF Checks
<1>8. /\ Checks(q, n, T)
      /\ n.clock["gone"] \in IF world.loop = "active" THEN {Off} ELSE {q.clock["gone"], 0}
      /\ n.loopSeen = IF world.loop = "active" THEN TRUE ELSE q.loopSeen
      /\ world.loop = "active" /\ HasSnapshot(q) /\ "loop" \in fresh => n.clock["loop"] = 0
  BY <1>7, TrackLoopFacts
<1> HIDE DEF n
<1>9. n.pathKnown = q.pathKnown /\ n.clock["completion"] = q.clock["completion"]
  BY <1>8, HorizonFacts DEF Checks
<1>10. Checks(a, n, All)
  <2>1. Checks(p, n, S \cup T)
    BY <1>6, <1>8, ChecksTransitive
  <2>2. Checks(a, n, All \cup (S \cup T))
    BY <1>3, <2>1, ChecksTransitive
  <2>3. All \cup (S \cup T) \subseteq All
    BY HorizonFacts DEF All
  <2> HIDE DEF S, T
  <2> QED
    BY <2>2, <2>3, Weaken
<1>11. Completes(a, n, FgEnds(TRUE))
  BY <1>1, <1>5, <1>6, <1>9 DEF Completes, IsSet, Off, FgEnds
<1>12. q.pathKnown => p.pathKnown \/ (ReadCheckpoint(p) # "none")
  BY <1>6 DEF Checks
<1>13. ReadCheckpoint(p) # "none" => p.pathKnown \/ world.loop = "active"
  BY DEF ReadCheckpoint
<1>14. n.pathKnown => n.loopSeen
  BY <1>4, <1>7, <1>8, <1>9, <1>12, <1>13
<1>15. Ticks(n, TRUE)
  BY <1>4, <1>7, <1>8, <1>10, <1>11, <1>14 DEF Ticks, Active, a
<1>16. \A c \in LifeClocks : /\ p.clock[c] = 0 => n.clock[c] = 0
                             /\ q.clock[c] = 0 => n.clock[c] = 0
  BY <1>6, <1>8 DEF Checks
<1>17. Discover(p).pathKnown <=> p.pathKnown \/ ReadCheckpoint(p) # "none"
  BY <1>4 DEF Discover, WellFormed, Fields
<1>18. Discover(p).pathKnown => q.pathKnown
  BY <1>4, <1>6, <1>17 DEF Checks, WellFormed
<1>19. PaneLives(n, TRUE, TRUE)
  <2> SUFFICES ASSUME FgLife(mon, TRUE, TRUE), ~n.loopSeen PROVE n.clock["pane"] = 0
    BY DEF PaneLives
  <2>1. world.loop # "active" /\ ~p.loopSeen /\ ~p.pathKnown
    BY <1>4, <1>7, <1>8
  <2>2. ReadCheckpoint(p) = "none"
    BY <2>1 DEF ReadCheckpoint
  <2>3. ~Discover(mon).pathKnown /\ ReadCheckpoint(mon) = "none"
    BY <1>5, <1>17, <2>1, <2>2
  <2>4. \/ "pane" \in fresh
        \/ "permission" \in signals /\ "stopFailure" \notin signals
    BY <2>1, <2>3 DEF FgLife
  <2> QED
    BY <1>1, <1>16, <2>4 DEF LifeClocks
<1>20. ASSUME FgLife(mon, TRUE, TRUE)
       PROVE  \/ \E c \in LifeClocks : n.clock[c] = 0
              \/ "artifacts" \in fresh /\ n.pathKnown
  <2>1. CASE \/ "pane" \in fresh
             \/ "permission" \in signals /\ "stopFailure" \notin signals
    BY <1>1, <1>16, <2>1 DEF LifeClocks
  <2>2. CASE "checkpoint" \in fresh /\ ReadCheckpoint(mon) # "none"
    BY <1>5, <1>6, <1>16, <2>2 DEF LifeClocks
  <2>3. CASE "artifacts" \in fresh /\ Discover(mon).pathKnown
    BY <1>5, <1>9, <1>18, <2>3
  <2>4. CASE world.loop = "active" /\ HasSnapshot(mon) /\ "loop" \in fresh
    <3>1. q.loopSeen = mon.loopSeen /\ q.clock["gone"] = a.clock["gone"]
      BY <1>4, <1>7
    <3>2. mon.loopSeen /\ ~IsSet(a, "gone")
      BY <1>2, <2>4 DEF HasSnapshot
    <3>3. HasSnapshot(q)
      BY <3>1, <3>2 DEF HasSnapshot, IsSet
    <3> QED
      BY <1>8, <2>4, <3>3 DEF LifeClocks
  <2> QED
    BY <1>20, <2>1, <2>2, <2>3, <2>4 DEF FgLife
<1> QED
  BY <1>0, <1>15, <1>19, <1>20

(* The grace of a lost loop file is over when the history says so.         *)
LEMMA GoneTells ==
  ASSUME WellFormed(mon), FgSeenType, FgTells(mon, seen.ended, seen.lost),
         NEW polled \in BOOLEAN, NEW n, Ticks(n, polled)
  PROVE  /\ FgLost(polled) \in Nat
         /\ n.clock["gone"] <= FgLost(polled) \/ FgLost(polled) >= GoneGrace
         /\ Off <= n.clock["gone"]
         /\ LoopGone(n) => FgEnds(polled) /\ FgLost(polled) >= GoneGrace
<1>1. "gone" \in Clocks /\ mon.clock["gone"] \in Int /\ Horizon["gone"] \in Nat
  BY HorizonFacts DEF WellFormed
<1>2. Aged(mon).clock["gone"] = IF mon.clock["gone"] = Off THEN Off
                                ELSE Smaller(mon.clock["gone"] + 1, Horizon["gone"])
  BY <1>1, AgedFacts
<1>3. seen.lost \in Nat /\ GoneGrace \in Nat
  BY TimesAssumption DEF FgSeenType
<1>4. FgLost(polled) \in Nat
  BY <1>3 DEF FgLost, Smaller
<1>5. /\ mon.clock["gone"] <= seen.lost \/ seen.lost >= GoneGrace
      /\ Off <= mon.clock["gone"]
  BY DEF FgTells
<1>6. n.clock["gone"] \in IF Active(polled) THEN {Off} ELSE {Aged(mon).clock["gone"], 0}
  BY DEF Ticks
<1>7. /\ n.clock["gone"] <= FgLost(polled) \/ FgLost(polled) >= GoneGrace
      /\ Off <= n.clock["gone"] /\ n.clock["gone"] \in Int
  BY <1>1, <1>2, <1>3, <1>5, <1>6 DEF FgLost, Smaller, Off
<1>8. ASSUME LoopGone(n) PROVE FgEnds(polled) /\ FgLost(polled) >= GoneGrace
  <2>1. world.loop # "active" /\ n.loopSeen /\ n.clock["gone"] >= GoneGrace
    BY <1>8 DEF LoopGone, Elapsed
  <2>2. mon.loopSeen
    BY <2>1 DEF Ticks, Active
  <2>3. FgLost(polled) >= GoneGrace
    BY <1>3, <1>4, <1>7, <2>1
  <2> QED
    BY <2>2, <2>3 DEF FgEnds
<1> QED
  BY <1>4, <1>7, <1>8

(* The tick once the evidence is complete.                                 *)
LEMMA TickAtEvidence ==
  ASSUME WellFormed(mon), FgSeenType, FgTells(mon, seen.ended, seen.lost), NEW own
  PROVE  /\ Ticks(AtEvidence(own), TRUE)
         /\ Lives(AtEvidence(own), TRUE, TRUE) /\ PaneLives(AtEvidence(own), TRUE, TRUE)
<1> DEFINE l == AtLoop(own)
           a == LoopEnded(l)
           b == ScanArtifacts(a)
           c == PaneCompletion(b)
           d == [c EXCEPT !.swarm = world.swarm]
<1>0. AtEvidence(own) = d
  BY DEF AtEvidence
<1>1. /\ Ticks(l, TRUE) /\ PaneLives(l, TRUE, TRUE)
      /\ FgLife(mon, TRUE, TRUE) => \/ \E k \in LifeClocks : l.clock[k] = 0
                                    \/ "artifacts" \in fresh /\ l.pathKnown
  BY TickAtLoop DEF FgTells
<1> HIDE DEF l
<1>2. WellFormed(l)
  BY <1>1 DEF Ticks, Checks
<1>3. Checks(l, a, {"completion"}) /\ Completes(l, a, LoopGone(l))
  BY <1>2, LoopEndedFacts
<1> HIDE DEF a
<1>4. Completes(l, a, FgEnds(TRUE))
  BY <1>1, <1>3, GoneTells DEF Completes
<1>5. Ticks(a, TRUE)
  BY <1>1, <1>3, <1>4, TicksOn, HorizonFacts DEF All
<1>6. WellFormed(a)
  BY <1>3 DEF Checks
<1>7. Checks(a, b, {"artifact"}) /\ ("artifacts" \in fresh /\ a.pathKnown => b.clock["artifact"] = 0)
  BY <1>6, ScanArtifactsFacts
<1> HIDE DEF b
<1>8. b.clock["completion"] = a.clock["completion"]
  BY <1>7, HorizonFacts DEF Checks
<1>9. Ticks(b, TRUE)
  BY <1>5, <1>7, <1>8, TicksOn, HorizonFacts DEF All, Completes
<1>10. WellFormed(b)
  BY <1>7 DEF Checks
<1>11. /\ Checks(b, c, {"pathKnown", "completion"})
       /\ Completes(b, c, NearCompletion(ReadCheckpoint(b)))
  BY <1>10, PaneCompletionFacts
<1> HIDE DEF c
<1>12. ReadCheckpoint(b) = ReadCheckpoint(mon)
  BY <1>9, SameReading DEF Ticks
<1>13. c.loopSeen = b.loopSeen /\ c.clock["gone"] = b.clock["gone"]
  BY <1>11, HorizonFacts DEF Checks
<1>14. c.pathKnown => b.pathKnown \/ world.loop = "active"
  BY <1>11 DEF Checks, ReadCheckpoint
<1>15. Ticks(c, TRUE)
  <2>1. Checks(Aged(mon), c, All \cup {"pathKnown", "completion"})
    BY <1>9, <1>11, ChecksTransitive DEF Ticks
  <2>2. All \cup {"pathKnown", "completion"} \subseteq All
    BY HorizonFacts DEF All
  <2>3. Checks(Aged(mon), c, All)
    BY <2>1, <2>2, Weaken
  <2>4. Completes(Aged(mon), c, FgEnds(TRUE))
    BY <1>9, <1>11, <1>12 DEF Ticks, Completes, FgEnds, IsSet, Off
  <2>5. c.pathKnown => c.loopSeen
    BY <1>9, <1>13, <1>14 DEF Ticks, Active
  <2> QED
    BY <1>9, <1>13, <2>3, <2>4, <2>5 DEF Ticks
<1>16. WellFormed(c)
  BY <1>11 DEF Checks
<1>17. Alike(c, d)
  BY <1>16 DEF Alike, WellFormed, Fields
<1>18. Checks(c, d, {}) /\ Completes(c, d, FgEnds(TRUE))
  BY <1>16, <1>17, NothingTouched, ChecksAlike DEF Alike, Completes
<1> HIDE DEF d
<1>19. Ticks(d, TRUE)
  BY <1>15, <1>18, TicksOn DEF All
<1>20. \A k \in LifeClocks : /\ l.clock[k] = 0 => a.clock[k] = 0
                             /\ a.clock[k] = 0 => b.clock[k] = 0
                             /\ b.clock[k] = 0 => c.clock[k] = 0
                             /\ c.clock[k] = 0 => d.clock[k] = 0
  BY <1>3, <1>7, <1>11, <1>18 DEF Checks
<1>21. l.pathKnown = a.pathKnown
  BY <1>3 DEF Checks
<1>22. Lives(d, TRUE, TRUE)
  BY <1>1, <1>7, <1>20, <1>21 DEF Lives, LifeClocks
<1>23. d.loopSeen = l.loopSeen
  BY <1>3, <1>7, <1>13, <1>18 DEF Checks
<1>24. PaneLives(d, TRUE, TRUE)
  BY <1>1, <1>20, <1>23 DEF PaneLives, LifeClocks
<1> QED
  BY <1>0, <1>19, <1>22, <1>24

(* The tick when the errors have been weighed, and when it reaches the     *)
(* gate.                                                                   *)
LEMMA TickAtGate ==
  ASSUME WellFormed(mon), FgSeenType, FgTells(mon, seen.ended, seen.lost), NEW own
  PROVE  \A n \in {Confirm(AtEvidence(own)), AtGate(own)} :
            Ticks(n, TRUE) /\ Lives(n, TRUE, TRUE) /\ PaneLives(n, TRUE, TRUE)
<1> DEFINE e == AtEvidence(own)
           c == Confirm(e)
           g == FgJudged(c)
<1>0. AtGate(own) = g
  BY DEF AtGate
<1>1. Ticks(e, TRUE) /\ Lives(e, TRUE, TRUE) /\ PaneLives(e, TRUE, TRUE)
  BY TickAtEvidence
<1> HIDE DEF e
<1>2. WellFormed(e)
  BY <1>1 DEF Ticks, Checks
<1>3. Checks(e, c, {"confirm", "gate"})
  BY <1>2, ConfirmFacts
<1> HIDE DEF c
<1>4. c.clock["completion"] = e.clock["completion"] /\ c.loopSeen = e.loopSeen /\ WellFormed(c)
  BY <1>3, HorizonFacts DEF Checks
<1>5. Ticks(c, TRUE)
  BY <1>1, <1>3, <1>4, TicksOn, HorizonFacts DEF All, Completes
<1>6. Lives(c, TRUE, TRUE) /\ PaneLives(c, TRUE, TRUE)
  BY <1>1, <1>3, <1>4, LivesOn
<1>7. Checks(c, g, {"gate"})
  BY <1>4, FgJudgedFacts
<1> HIDE DEF g
<1>8. g.clock["completion"] = c.clock["completion"] /\ g.loopSeen = c.loopSeen
  BY <1>7, HorizonFacts DEF Checks
<1>9. Ticks(g, TRUE)
  BY <1>5, <1>7, <1>8, TicksOn, HorizonFacts DEF All, Completes
<1>10. Lives(g, TRUE, TRUE) /\ PaneLives(g, TRUE, TRUE)
  BY <1>6, <1>7, <1>8, LivesOn
<1> QED
  BY <1>0, <1>5, <1>6, <1>9, <1>10 DEF c, e

----------------------------------------------------------------------------
(* What the history says after a tick.                                     *)
LEMMA FgObservedFacts ==
  ASSUME WellFormed(mon), FgSeenType, NEW captured \in BOOLEAN, NEW polled \in BOOLEAN,
         NEW skips, NEW m, Ticks(m, polled)
  PROVE  LET o == FgObserved(m, captured, polled, skips)
         IN  /\ DOMAIN o = {"idle", "lost", "ended", "skipped"}
             /\ o.idle = FgIdle(captured, polled) /\ o.lost = FgLost(polled)
             /\ o.ended = FgEnded(polled)
             /\ o.skipped <=> (seen.skipped \/ skips) /\ Pending(m)
             /\ o.skipped \in BOOLEAN
<1> DEFINE o == FgObserved(m, captured, polled, skips)
           lost == IF polled /\ world.loop = "active" THEN 0
                   ELSE Smaller(seen.lost + 1, GoneGrace)
           life == FgLife(m, captured, polled)
           ends == SaysEnded(m, lost)
           skip == (seen.skipped \/ skips) /\ Pending(m)
<1>1. /\ ReadCheckpoint(m) = ReadCheckpoint(mon)
      /\ life <=> FgLife(mon, captured, polled)
  BY SameReading DEF Ticks
<1>2. lost = FgLost(polled)
  BY DEF FgLost, Active
<1>3. ends <=> FgEnds(polled)
  <2>1. m.loopSeen <=> mon.loopSeen \/ Active(polled)
    BY DEF Ticks, WellFormed
  <2> QED
    BY <1>1, <1>2, <2>1 DEF SaysEnded, FgEnds
<1>4. o = [idle |-> IF life THEN 0 ELSE Smaller(seen.idle + 1, Larger(Gate, Warmup) + 2),
           lost |-> lost,
           ended |-> IF seen.ended # Off THEN Smaller(seen.ended + 1, CompletionGrace)
                     ELSE IF ends THEN 0 ELSE Off,
           skipped |-> skip]
  BY DEF FgObserved
<1>5. skip \in BOOLEAN
  BY Zenon
<1> HIDE DEF o, lost, life, ends, skip
<1>6. /\ DOMAIN o = {"idle", "lost", "ended", "skipped"}
      /\ o.idle = FgIdle(captured, polled) /\ o.lost = FgLost(polled)
      /\ o.ended = FgEnded(polled) /\ o.skipped = skip
  BY <1>1, <1>2, <1>3, <1>4 DEF FgIdle, FgEnded
<1>7. (o.skipped <=> skip) /\ o.skipped \in BOOLEAN
  BY <1>5, <1>6
<1> QED
  BY <1>6, <1>7, Zenon DEF o, skip

(* The history is of its type again.                                       *)
LEMMA FgHistoryType ==
  ASSUME FgSeenType, NEW captured, NEW polled
  PROVE  /\ FgIdle(captured, polled) \in Nat /\ FgLost(polled) \in Nat
         /\ FgEnded(polled) \in Nat \cup {Off}
  BY TimesAssumption DEF FgSeenType, FgIdle, FgLost, FgEnded, Smaller, Larger

(* What the Instants tell at the end of a tick was read.                   *)
LEMMA TickTells ==
  ASSUME WellFormed(mon), FgSeenType, FgTells(mon, seen.ended, seen.lost),
         NEW polled \in BOOLEAN, NEW n, Ticks(n, polled)
  PROVE  FgTells(n, FgEnded(polled), FgLost(polled))
<1>1. /\ "completion" \in Clocks /\ Horizon["completion"] = CompletionGrace
      /\ mon.clock["completion"] \in Int
  BY HorizonFacts DEF WellFormed, Horizon
<1>2. Aged(mon).clock["completion"] =
         IF mon.clock["completion"] = Off THEN Off
         ELSE Smaller(mon.clock["completion"] + 1, CompletionGrace)
  BY <1>1, AgedFacts
<1>3. IsSet(mon, "completion") => seen.ended # Off /\ mon.clock["completion"] <= seen.ended
  BY DEF FgTells
<1>4. seen.ended \in Nat \cup {Off} /\ CompletionGrace \in Nat
  BY TimesAssumption DEF FgSeenType
<1>5. ASSUME IsSet(n, "completion")
      PROVE  FgEnded(polled) # Off /\ n.clock["completion"] <= FgEnded(polled)
  <2>1. CASE n.clock["completion"] = Aged(mon).clock["completion"]
    <3>1. mon.clock["completion"] # Off
      BY <1>2, <1>5, <2>1 DEF IsSet
    <3>2. seen.ended \in Nat /\ mon.clock["completion"] <= seen.ended
      BY <1>3, <1>4, <3>1 DEF IsSet
    <3>3. FgEnded(polled) = Smaller(seen.ended + 1, CompletionGrace)
      BY <3>2 DEF FgEnded, Off
    <3> QED
      BY <1>1, <1>2, <1>4, <2>1, <3>1, <3>2, <3>3 DEF Smaller, Off
  <2>2. CASE n.clock["completion"] = 0 /\ FgEnds(polled)
    BY <1>4, <2>2 DEF FgEnded, Smaller, Off
  <2> QED
    BY <2>1, <2>2 DEF Ticks, Completes
<1>6. n.pathKnown => n.loopSeen
  BY DEF Ticks
<1> QED
  BY <1>5, <1>6, GoneTells DEF FgTells

(* A sign of life read in a tick shows at its end.                         *)
LEMMA TickShows ==
  ASSUME WellFormed(mon), FgSeenType, FgLifeShows(mon, seen.idle),
         NEW captured, NEW polled, NEW n, Ticks(n, polled), PaneLives(n, captured, polled)
  PROVE  /\ ~n.loopSeen => \/ FgIdle(captured, polled) > Larger(Gate, Warmup)
                           \/ n.clock["pane"] <= FgIdle(captured, polled)
         /\ Lives(n, captured, polled) => FgLifeShows(n, FgIdle(captured, polled))
<1> DEFINE idle == FgIdle(captured, polled)
           most == Larger(Gate, Warmup)
<1>1. \A c \in LifeClocks : n.clock[c] <= mon.clock[c] + 1 \/ n.clock[c] = 0 \/ n.clock[c] = Off
  <2>1. \A c \in LifeClocks : n.clock[c] \in {Aged(mon).clock[c], 0}
    BY DEF Ticks, Checks
  <2> QED
    BY <2>1, AgedFacts, HorizonFacts DEF Smaller, Off, LifeClocks, WellFormed
<1>2. \A c \in LifeClocks : n.clock[c] \in Int /\ mon.clock[c] \in Int
  BY HorizonFacts DEF Ticks, Checks, WellFormed, LifeClocks
<1>3. /\ Gate \in Nat /\ most \in Nat /\ most >= Gate /\ seen.idle \in Nat
      /\ idle \in Nat
  BY TimesAssumption, FgHistoryType DEF FgSeenType, Larger
<1>4. "pane" \in LifeClocks
  BY DEF LifeClocks
<1>5. ~n.loopSeen => ~mon.loopSeen
  BY DEF Ticks
<1>6. CASE FgLife(mon, captured, polled)
  <2>1. idle = 0
    BY <1>6 DEF FgIdle
  <2> HIDE DEF idle, most
  <2> QED
    BY <1>3, <1>6, <2>1 DEF Lives, PaneLives, FgLifeShows, idle, most
<1>7. CASE ~FgLife(mon, captured, polled)
  <2>1. idle = Smaller(seen.idle + 1, most + 2)
    BY <1>7 DEF FgIdle
  <2>2. /\ seen.idle > Gate \/ \E c \in LifeClocks : mon.clock[c] <= seen.idle
        /\ ~mon.loopSeen => seen.idle > most \/ mon.clock["pane"] <= seen.idle
    BY DEF FgLifeShows
  <2> HIDE DEF idle, most
  <2>3. ~n.loopSeen => idle > most \/ n.clock["pane"] <= idle
    BY <1>1, <1>2, <1>3, <1>4, <1>5, <2>1, <2>2 DEF Smaller, Off
  <2>4. idle > Gate \/ \E c \in LifeClocks : n.clock[c] <= idle
    <3>1. CASE seen.idle > Gate
      BY <1>3, <2>1, <3>1 DEF Smaller
    <3>2. ASSUME NEW c \in LifeClocks, mon.clock[c] <= seen.idle
          PROVE  idle > Gate \/ n.clock[c] <= idle
      BY <1>1, <1>2, <1>3, <2>1, <3>2 DEF Smaller, Off
    <3> QED
      BY <2>2, <3>1, <3>2
  <2> QED
    BY <2>3, <2>4 DEF FgLifeShows, idle, most
<1> QED
  BY <1>6, <1>7

(* A tick that ends before the gate keeps the invariant: if a request      *)
(* stands, the history says that it was passed over.                       *)
LEMMA SkipFgInv ==
  ASSUME FgInv, verdict = "none",
         NEW captured \in BOOLEAN, NEW polled \in BOOLEAN, NEW n,
         Ticks(n, polled), Lives(n, captured, polled), PaneLives(n, captured, polled),
         mon' = n, seen' = FgObserved(n, captured, polled, TRUE)
  PROVE  FgInv'
<1>1. /\ WellFormed(mon) /\ FgSeenType /\ GateRuns
      /\ FgTells(mon, seen.ended, seen.lost) /\ FgLifeShows(mon, seen.idle)
  BY DEF FgInv
<1> DEFINE o == FgObserved(n, captured, polled, TRUE)
<1>a. \A skips :
         LET r == FgObserved(n, captured, polled, skips)
         IN  /\ DOMAIN r = {"idle", "lost", "ended", "skipped"}
             /\ r.idle = FgIdle(captured, polled) /\ r.lost = FgLost(polled)
             /\ r.ended = FgEnded(polled)
             /\ r.skipped <=> (seen.skipped \/ skips) /\ Pending(n)
             /\ r.skipped \in BOOLEAN
  BY <1>1, FgObservedFacts
<1>b. /\ DOMAIN o = {"idle", "lost", "ended", "skipped"}
      /\ o.idle = FgIdle(captured, polled) /\ o.lost = FgLost(polled)
      /\ o.ended = FgEnded(polled)
      /\ o.skipped <=> (seen.skipped \/ TRUE) /\ Pending(n)
      /\ o.skipped \in BOOLEAN
  BY <1>a, Zenon
<1>c. seen' = o
  OBVIOUS
<1> HIDE DEF o
<1>2. /\ DOMAIN seen' = {"idle", "lost", "ended", "skipped"}
      /\ seen'.idle = FgIdle(captured, polled) /\ seen'.lost = FgLost(polled)
      /\ seen'.ended = FgEnded(polled)
      /\ seen'.skipped <=> Pending(n)
      /\ seen'.skipped \in BOOLEAN
  BY <1>b, <1>c
<1>3. FgSeenType'
  BY <1>1, <1>2, FgHistoryType DEF FgSeenType
<1>4. WellFormed(mon') /\ GateRuns'
  BY <1>1, GateRunsOn DEF Ticks, Checks
<1>5. FgSilence'
  BY <1>2 DEF FgSilence, Pending
<1>6. FgTells(mon', seen'.ended, seen'.lost)
  BY <1>1, <1>2, TickTells
<1>7. FgLifeShows(mon', seen'.idle)
  BY <1>1, <1>2, TickShows
<1> QED
  BY <1>3, <1>4, <1>5, <1>6, <1>7 DEF FgInv

(* At the gate: a request that is not withdrawn stands in silence, or is   *)
(* younger than the first seconds, or a tick has passed it over.           *)
LEMMA GateInSilence ==
  ASSUME FgInv, verdict = "none", NEW captured, NEW polled, NEW g,
         Ticks(g, polled), Lives(g, captured, polled),
         Pending(g), ~FgGateWithdraws(g), ~seen.skipped
  PROVE  FgIdle(captured, polled) >= g.clock["gate"] \/ g.clock["gate"] <= Early
<1>1. /\ WellFormed(mon) /\ FgSeenType /\ GateRuns /\ FgSilence
      /\ FgLifeShows(mon, seen.idle)
  BY DEF FgInv
<1>2. /\ g.clock["gate"] \in 0 .. Gate
      /\ \/ g.clock["gate"] = 0
         \/ Pending(mon) /\ g.clock["gate"] = Smaller(mon.clock["gate"] + 1, Gate)
  BY <1>1, GateInTick DEF Ticks
<1>3. Early \in Nat /\ Window \in Nat /\ Gate \in Nat /\ Early < Window /\ Early < Gate
      /\ Larger(Gate, Warmup) \in Nat /\ Larger(Gate, Warmup) >= Gate /\ seen.idle \in Nat
  BY <1>1, TimesAssumption DEF FgSeenType, Larger
<1>4. \A c \in LifeClocks : g.clock[c] \in Int /\ mon.clock[c] \in Int
  BY <1>1, HorizonFacts DEF Ticks, Checks, WellFormed, LifeClocks
<1> SUFFICES ASSUME g.clock["gate"] > Early
             PROVE  FgIdle(captured, polled) >= g.clock["gate"]
  BY <1>2, <1>3
<1>5. ~FgHasRecovery(g)
  BY DEF FgGateWithdraws, Elapsed
<1>6. \A c \in LifeClocks : g.clock[c] >= Window
  BY <1>3, <1>4, <1>5 DEF FgHasRecovery, LifeClocks, Elapsed
<1>7. ~FgLife(mon, captured, polled)
  BY <1>3, <1>6 DEF Lives
<1>8. FgIdle(captured, polled) = Smaller(seen.idle + 1, Larger(Gate, Warmup) + 2)
  BY <1>7 DEF FgIdle
<1>9. /\ Pending(mon) /\ mon.clock["gate"] \in 0 .. Gate
      /\ g.clock["gate"] = Smaller(mon.clock["gate"] + 1, Gate)
      /\ seen.idle >= mon.clock["gate"] \/ mon.clock["gate"] <= Early
  BY <1>1, <1>2, <1>3 DEF GateRuns, FgSilence
<1>10. seen.idle > Gate \/ seen.idle + 1 >= Window
  <2>2. ASSUME NEW c \in LifeClocks, mon.clock[c] <= seen.idle PROVE seen.idle + 1 >= Window
    <3>1. g.clock[c] \in {Aged(mon).clock[c], 0}
      BY DEF Ticks, Checks
    <3>2. g.clock[c] = Aged(mon).clock[c]
      BY <1>3, <1>6, <3>1
    <3>3. Aged(mon).clock[c] <= mon.clock[c] + 1 \/ Aged(mon).clock[c] = Off
      BY <1>1, <1>4, AgedFacts, HorizonFacts DEF LifeClocks, Smaller
    <3> QED
      BY <1>3, <1>4, <1>6, <2>2, <3>2, <3>3 DEF Off
  <2> QED
    BY <1>1, <2>2 DEF FgLifeShows
<1> QED
  BY <1>3, <1>8, <1>9, <1>10 DEF Smaller

----------------------------------------------------------------------------
(* The ticks that end before the gate.                                     *)

(* What the lemmas about the states of a tick assume of the last one.      *)
LEMMA FgInvFacts ==
  ASSUME FgInv, verdict = "none"
  PROVE  /\ WellFormed(mon) /\ FgSeenType /\ GateRuns /\ FgSilence
         /\ FgTells(mon, seen.ended, seen.lost) /\ FgLifeShows(mon, seen.idle)
         /\ mon.pathKnown => mon.loopSeen
         /\ Off <= mon.clock["gone"]
  BY DEF FgInv, FgTells

(* Before the pane is captured: tmux hangs, or refuses.                    *)
LEMMA BlindTickFgInv == FgInv /\ (TmuxHangs \/ CaptureFails) => FgInv'
<1> SUFFICES ASSUME FgInv, TmuxHangs \/ CaptureFails PROVE FgInv'
  OBVIOUS
<1>1. PICK own : /\ mon' = AtProbe(own)
                 /\ seen' = FgObserved(AtProbe(own), FALSE, FALSE, TRUE)
  BY Zenon DEF TmuxHangs, CaptureFails, Skip
<1>2. verdict = "none"
  BY DEF TmuxHangs, CaptureFails, FgWatching
<1>3. /\ Ticks(AtProbe(own), FALSE)
      /\ Lives(AtProbe(own), FALSE, FALSE) /\ PaneLives(AtProbe(own), FALSE, FALSE)
  BY <1>2, FgInvFacts, TickAtProbe, Zenon
<1> QED
  BY <1>1, <1>2, <1>3, SkipFgInv, Zenon

(* At the pane: a prompt accepted, or the completion grace.                *)
LEMMA PaneTickFgInv == FgInv /\ (FgPromptAccepted \/ WaitsInGrace) => FgInv'
<1> SUFFICES ASSUME FgInv, FgPromptAccepted \/ WaitsInGrace PROVE FgInv'
  OBVIOUS
<1>2. verdict = "none"
  BY DEF FgPromptAccepted, WaitsInGrace, FgWatching
<1>3. CASE FgPromptAccepted
  <2>1. PICK own : Skip([Now(AtProbe(own), "pane") EXCEPT !.accepts = @ + 1], TRUE, FALSE)
    BY <1>3, Zenon DEF FgPromptAccepted
  <2> DEFINE n == [Now(AtProbe(own), "pane") EXCEPT !.accepts = @ + 1]
  <2>2. Ticks(n, FALSE) /\ Lives(n, TRUE, FALSE) /\ PaneLives(n, TRUE, FALSE)
    BY <1>2, FgInvFacts, TickAtPrompt, Zenon
  <2>3. mon' = n /\ seen' = FgObserved(n, TRUE, FALSE, TRUE)
    BY <2>1, Zenon DEF Skip
  <2> HIDE DEF n
  <2> QED
    BY <1>2, <2>2, <2>3, SkipFgInv, Zenon
<1>4. CASE WaitsInGrace
  <2>1. PICK own : Skip(AtPane(own), TRUE, FALSE)
    BY <1>4, Zenon DEF WaitsInGrace
  <2>2. /\ Ticks(AtPane(own), FALSE)
        /\ Lives(AtPane(own), TRUE, FALSE) /\ PaneLives(AtPane(own), TRUE, FALSE)
    BY <1>2, FgInvFacts, TickAtPane, Zenon
  <2>3. mon' = AtPane(own) /\ seen' = FgObserved(AtPane(own), TRUE, FALSE, TRUE)
    BY <2>1, Zenon DEF Skip
  <2> QED
    BY <1>2, <2>2, <2>3, SkipFgInv, Zenon
<1> QED
  BY <1>3, <1>4

(* With the evidence: a new class of error, or a process that is gone.     *)
LEMMA EvidenceTickFgInv == FgInv /\ EvidenceSkips => FgInv'
<1> SUFFICES ASSUME FgInv, EvidenceSkips PROVE FgInv'
  OBVIOUS
<1>1. PICK own : Going(own) /\ Skip(Confirm(AtEvidence(own)), TRUE, TRUE)
  BY Zenon DEF EvidenceSkips
<1>2. verdict = "none"
  BY <1>1 DEF Going, Polling, FgWatching
<1> DEFINE n == Confirm(AtEvidence(own))
<1>3. Ticks(n, TRUE) /\ Lives(n, TRUE, TRUE) /\ PaneLives(n, TRUE, TRUE)
  BY <1>2, FgInvFacts, TickAtGate, Zenon
<1>4. mon' = n /\ seen' = FgObserved(n, TRUE, TRUE, TRUE)
  BY <1>1, Zenon DEF Skip
<1> HIDE DEF n
<1> QED
  BY <1>2, <1>3, <1>4, SkipFgInv, Zenon

----------------------------------------------------------------------------
(* The tick that goes all the way.                                         *)
LEMMA WatchFgInv == FgInv /\ Watch => FgInv'
<1> SUFFICES ASSUME FgInv, Watch PROVE FgInv'
  OBVIOUS
<1>1. PICK own : /\ Reaching(own)
                 /\ ~FgGateFires(AtGate(own))
                 /\ mon' = AfterGate(AtGate(own))
                 /\ seen' = [FgObserved(AtLoop(own), TRUE, TRUE, FALSE) EXCEPT
                               !.skipped = seen.skipped /\ Pending(mon')]
  BY Zenon DEF Watch
<1>2. verdict = "none"
  BY <1>1 DEF Reaching, Going, Polling, FgWatching
<1>3. /\ WellFormed(mon) /\ FgSeenType /\ GateRuns /\ FgSilence
      /\ FgTells(mon, seen.ended, seen.lost) /\ FgLifeShows(mon, seen.idle)
      /\ mon.pathKnown => mon.loopSeen
      /\ Off <= mon.clock["gone"]
  BY <1>2, FgInvFacts
<1> DEFINE g == AtGate(own)
           l == AtLoop(own)
           o == FgObserved(l, TRUE, TRUE, FALSE)
           skip == seen.skipped /\ Pending(mon')
<1>4. Ticks(g, TRUE) /\ Lives(g, TRUE, TRUE) /\ PaneLives(g, TRUE, TRUE)
  BY <1>3, TickAtGate, Zenon
<1>5. Ticks(l, TRUE)
  BY <1>3, TickAtLoop, Zenon
<1>6. PICK captured \in BOOLEAN, polled \in BOOLEAN : captured = TRUE /\ polled = TRUE
  BY Zenon
<1>7. /\ Ticks(g, polled) /\ Lives(g, captured, polled) /\ PaneLives(g, captured, polled)
      /\ Ticks(l, polled)
  BY <1>4, <1>5, <1>6, Zenon
<1> HIDE DEF g, l
<1>8. /\ DOMAIN o = {"idle", "lost", "ended", "skipped"}
      /\ o.idle = FgIdle(captured, polled) /\ o.lost = FgLost(polled)
      /\ o.ended = FgEnded(polled)
  <2>1. \A skips :
         LET r == FgObserved(l, captured, polled, skips)
         IN  /\ DOMAIN r = {"idle", "lost", "ended", "skipped"}
             /\ r.idle = FgIdle(captured, polled) /\ r.lost = FgLost(polled)
             /\ r.ended = FgEnded(polled)
    BY <1>3, <1>7, FgObservedFacts
  <2> QED
    BY <1>6, <2>1, Zenon
<1>9. seen' = [o EXCEPT !.skipped = skip]
  BY <1>1 DEF l
<1>10. skip \in BOOLEAN
  BY Zenon
<1> HIDE DEF o, skip
<1>11. /\ DOMAIN seen' = {"idle", "lost", "ended", "skipped"}
       /\ seen'.idle = FgIdle(captured, polled) /\ seen'.lost = FgLost(polled)
       /\ seen'.ended = FgEnded(polled) /\ seen'.skipped = skip
  BY <1>8, <1>9
<1>12. FgSeenType'
  BY <1>3, <1>10, <1>11, FgHistoryType DEF FgSeenType
<1>13. /\ WellFormed(g)
       /\ mon' = IF FgGateWithdraws(g) THEN Disarm(g) ELSE GateNudges(g)
  BY <1>1, <1>7 DEF Ticks, Checks, AfterGate, g
<1>14. /\ WellFormed(mon') /\ mon'.pathKnown = g.pathKnown /\ mon'.loopSeen = g.loopSeen
       /\ \A c \in Clocks \ {"gate"} : mon'.clock[c] = g.clock[c]
       /\ Pending(mon') => /\ Pending(g) /\ ~FgGateWithdraws(g)
                           /\ mon'.clock["gate"] = g.clock["gate"]
  <2>1. /\ Disarm(g).pathKnown = g.pathKnown /\ Disarm(g).loopSeen = g.loopSeen
        /\ GateNudges(g).pathKnown = g.pathKnown /\ GateNudges(g).loopSeen = g.loopSeen
    BY <1>13 DEF Disarm, Clear, GateNudges, WellFormed, Fields
  <2>2. CASE FgGateWithdraws(g)
    BY <1>13, <2>1, <2>2, DisarmFacts
  <2>3. CASE ~FgGateWithdraws(g)
    BY <1>13, <2>1, <2>3, GateNudgesFacts
  <2> QED
    BY <2>2, <2>3
<1>15. GateRuns'
  BY <1>3, <1>7, <1>14, GateInTick DEF Ticks, GateRuns
<1>16. FgSilence'
  <2> SUFFICES ASSUME Pending(mon'), ~seen'.skipped
               PROVE  seen'.idle >= mon'.clock["gate"] \/ mon'.clock["gate"] <= Early
    BY DEF FgSilence
  <2>1. ~seen.skipped
    BY <1>11 DEF skip
  <2> QED
    BY <1>2, <1>7, <1>11, <1>14, <2>1, GateInSilence
<1>17. FgTells(mon', seen'.ended, seen'.lost)
  <2>1. FgTells(g, FgEnded(polled), FgLost(polled))
    BY <1>3, <1>7, TickTells
  <2> QED
    BY <1>11, <1>14, <2>1, HorizonFacts DEF FgTells, IsSet
<1>18. FgLifeShows(mon', seen'.idle)
  <2>1. FgLifeShows(g, FgIdle(captured, polled))
    BY <1>3, <1>7, TickShows
  <2> QED
    BY <1>11, <1>14, <2>1, HorizonFacts DEF FgLifeShows, LifeClocks
<1> QED
  BY <1>12, <1>14, <1>15, <1>16, <1>17, <1>18 DEF FgInv

----------------------------------------------------------------------------
(* The returns.  What the history says when the loop returns.              *)
LEMMA ReturnTells ==
  ASSUME FgInv, verdict = "none", NEW m, NEW captured \in BOOLEAN, NEW polled \in BOOLEAN,
         NEW skips, Ticks(m, polled), seen' = FgObserved(m, captured, polled, skips)
  PROVE  /\ seen'.idle = FgIdle(captured, polled)
         /\ seen'.lost = FgLost(polled) /\ seen'.ended = FgEnded(polled)
         /\ FgTells(m, seen'.ended, seen'.lost)
         /\ FgEnds(polled) => seen'.ended # Off
<1>1. WellFormed(mon) /\ FgSeenType /\ FgTells(mon, seen.ended, seen.lost)
  BY FgInvFacts
<1>2. /\ seen'.idle = FgIdle(captured, polled)
      /\ seen'.lost = FgLost(polled) /\ seen'.ended = FgEnded(polled)
  BY <1>1, FgObservedFacts
<1>3. FgTells(m, FgEnded(polled), FgLost(polled))
  BY <1>1, TickTells
<1>4. FgEnds(polled) => FgEnded(polled) # Off
  BY <1>1, TimesAssumption DEF FgEnded, FgSeenType, Smaller, Off
<1> QED
  BY <1>2, <1>3, <1>4

(* A session that vanished kills nothing, and is completed only on a       *)
(* checkpoint near its end.                                                *)
LEMMA FgSessionVanishedEnds ==
  FgInv /\ FgSessionVanished => EndCause /\ verdict' # "none"
<1> SUFFICES ASSUME FgInv, FgSessionVanished PROVE EndCause /\ verdict' # "none"
  OBVIOUS
<1>1. PICK own : Return(FgVanishedVerdict(AtProbe(own)), AtProbe(own), FALSE, FALSE)
  BY Zenon DEF FgSessionVanished
<1>2. verdict = "none"
  BY DEF FgSessionVanished, FgWatching
<1> DEFINE m == AtProbe(own)
<1>3. verdict' = FgVanishedVerdict(m) /\ ~killed' /\ seen' = FgObserved(m, FALSE, FALSE, FALSE)
  BY <1>1, Zenon DEF Return
<1>4. Ticks(m, FALSE)
  BY <1>2, FgInvFacts, TickAtProbe, Zenon
<1> HIDE DEF m
<1>5. FgEnds(FALSE) => seen'.ended # Off
  BY <1>2, <1>3, <1>4, ReturnTells, Zenon
<1>6. verdict' = "completed" => NearCompletion(ReadCheckpoint(m))
  BY <1>3 DEF FgVanishedVerdict, Done
<1>7. ReadCheckpoint(m) = ReadCheckpoint(mon)
  BY <1>2, <1>4, FgInvFacts, SameReading DEF Ticks
<1>8. NearCompletion(ReadCheckpoint(mon)) => FgEnds(FALSE)
  BY Zenon DEF FgEnds
<1>9. verdict' \in {"completed", "crashed"}
  BY <1>3 DEF FgVanishedVerdict
<1> QED
  BY <1>3, <1>5, <1>6, <1>7, <1>8, <1>9 DEF EndCause

(* The completion grace ends after a whole grace, or with the session.     *)
LEMMA CompletionEnds ==
  FgInv /\ (CompletionGraceOver \/ SessionExitsInGrace) => EndCause /\ verdict' # "none"
<1> SUFFICES ASSUME FgInv, CompletionGraceOver \/ SessionExitsInGrace
             PROVE  EndCause /\ verdict' # "none"
  OBVIOUS
<1>1. verdict = "none"
  BY DEF CompletionGraceOver, SessionExitsInGrace, FgWatching
<1>2. CASE CompletionGraceOver
  <2>1. PICK own : /\ Elapsed(AtPane(own), "completion") >= CompletionGrace
                   /\ Return("completed", AtPane(own), FALSE, TRUE)
    BY <1>2, Zenon DEF CompletionGraceOver
  <2> DEFINE m == AtPane(own)
  <2>2. verdict' = "completed" /\ seen' = FgObserved(m, FALSE, FALSE, FALSE)
    BY <2>1, Zenon DEF Return
  <2>3. Ticks(m, FALSE)
    BY <1>1, FgInvFacts, TickAtPane, Zenon
  <2>4. m.clock["completion"] >= CompletionGrace
    BY <2>1 DEF Elapsed
  <2> HIDE DEF m
  <2>5. FgTells(m, seen'.ended, seen'.lost)
    BY <1>1, <2>2, <2>3, ReturnTells, Zenon
  <2>6. m.clock["completion"] \in Int /\ CompletionGrace \in Nat
    BY <2>3, HorizonFacts, TimesAssumption DEF Ticks, Checks, WellFormed
  <2>7. IsSet(m, "completion")
    BY <2>4, <2>6 DEF IsSet, Off
  <2>8. seen'.ended = FgEnded(FALSE)
    BY <1>1, <2>2, <2>3, ReturnTells, Zenon
  <2>9. FgEnded(FALSE) \in Nat \cup {Off}
    BY <1>1, FgInvFacts, FgHistoryType, Zenon
  <2>10. seen'.ended # Off /\ seen'.ended >= CompletionGrace
    <3>1. seen'.ended \in Nat
      BY <2>5, <2>7, <2>8, <2>9 DEF FgTells
    <3> QED
      BY <2>4, <2>5, <2>6, <2>7, <3>1 DEF FgTells
  <2> QED
    BY <2>2, <2>10 DEF EndCause, Kinds
<1>3. CASE SessionExitsInGrace
  <2> DEFINE m == AtPane(TRUE)
  <2>1. /\ verdict' = "completed" /\ killed' = killed /\ InGrace(m)
        /\ seen' = FgObserved(m, TRUE, FALSE, FALSE)
    BY <1>3, Zenon DEF SessionExitsInGrace
  <2>2. Ticks(m, FALSE)
    BY <1>1, FgInvFacts, TickAtPane, Zenon
  <2> HIDE DEF m
  <2>3. FgTells(m, seen'.ended, seen'.lost)
    BY <1>1, <2>1, <2>2, ReturnTells, Zenon
  <2>4. seen'.ended # Off
    BY <2>1, <2>3 DEF InGrace, FgTells
  <2> QED
    BY <2>1, <2>4 DEF EndCause
<1> QED
  BY <1>2, <1>3

(* A loop file deleted in mid-pipeline was lost for the whole grace.       *)
LEMMA LoopFileDeletedEnds ==
  FgInv /\ LoopFileDeleted => EndCause /\ verdict' # "none"
<1> SUFFICES ASSUME FgInv, LoopFileDeleted PROVE EndCause /\ verdict' # "none"
  OBVIOUS
<1>1. PICK own : /\ Polling(own) /\ LoopDeleted(AtLoop(own))
                 /\ Return("crashed", AtLoop(own), TRUE, TRUE)
  BY Zenon DEF LoopFileDeleted
<1>2. verdict = "none"
  BY <1>1 DEF Polling, FgWatching
<1> DEFINE m == AtLoop(own)
<1>3. verdict' = "crashed" /\ seen' = FgObserved(m, TRUE, TRUE, FALSE) /\ LoopGone(m)
  BY <1>1, Zenon DEF Return, LoopDeleted
<1>4. Ticks(m, TRUE)
  BY <1>2, FgInvFacts, TickAtLoop, Zenon
<1> HIDE DEF m
<1>5. seen'.lost = FgLost(TRUE)
  BY <1>2, <1>3, <1>4, ReturnTells, Zenon
<1>6. FgLost(TRUE) >= GoneGrace
  BY <1>2, <1>3, <1>4, FgInvFacts, GoneTells, Zenon
<1> QED
  BY <1>3, <1>5, <1>6 DEF EndCause, Kinds

(* An arc that never started showed no life since the warmup.              *)
LEMMA BootstrapFailedEnds ==
  FgInv /\ BootstrapFailed => EndCause /\ verdict' # "none"
<1> SUFFICES ASSUME FgInv, BootstrapFailed PROVE EndCause /\ verdict' # "none"
  OBVIOUS
<1>1. PICK own : /\ Polling(own) /\ NeverStarted(AtLoop(own))
                 /\ Return("failed", AtLoop(own), TRUE, TRUE)
  BY Zenon DEF BootstrapFailed
<1>2. verdict = "none"
  BY <1>1 DEF Polling, FgWatching
<1> DEFINE m == AtLoop(own)
<1>3. verdict' = "failed" /\ seen' = FgObserved(m, TRUE, TRUE, FALSE)
  BY <1>1, Zenon DEF Return
<1>4. world.loop # "active" /\ ~m.loopSeen /\ m.clock["pane"] >= Warmup
  BY <1>1 DEF NeverStarted, Elapsed
<1>5. Ticks(m, TRUE) /\ PaneLives(m, TRUE, TRUE)
  BY <1>2, FgInvFacts, TickAtLoop, Zenon
<1> HIDE DEF m
<1>6. PICK captured, polled : captured = TRUE /\ polled = TRUE
  OBVIOUS
<1>7. Ticks(m, polled) /\ PaneLives(m, captured, polled)
  BY <1>5, <1>6, Zenon
<1>8. /\ FgIdle(captured, polled) > Larger(Gate, Warmup)
         \/ m.clock["pane"] <= FgIdle(captured, polled)
      /\ FgIdle(captured, polled) \in Nat
  BY <1>2, <1>4, <1>7, FgInvFacts, TickShows, FgHistoryType
<1>9. m.clock["pane"] \in Int /\ Warmup \in Nat /\ Gate \in Nat
  BY <1>7, HorizonFacts, TimesAssumption DEF Ticks, Checks, WellFormed
<1>10. FgIdle(captured, polled) >= Warmup
  BY <1>4, <1>8, <1>9 DEF Larger
<1>11. seen'.idle = FgIdle(TRUE, TRUE)
  BY <1>2, <1>3, <1>5, ReturnTells, Zenon
<1>12. seen'.idle >= Warmup
  BY <1>6, <1>10, <1>11, Zenon
<1>13. ~mon.loopSeen
  BY <1>4, <1>7 DEF Ticks
<1> QED
  BY <1>3, <1>12, <1>13 DEF EndCause, Kinds

(* The gate fires in silence, or behind a tick that ended before it.       *)
LEMMA FgKillEnds ==
  FgInv /\ FgKill => EndCause /\ verdict' # "none"
<1> SUFFICES ASSUME FgInv, FgKill PROVE EndCause /\ verdict' # "none"
  OBVIOUS
<1>1. PICK own : /\ Reaching(own) /\ FgGateFires(AtGate(own))
                 /\ Return(AtGate(own).pending.kind, AtGate(own), TRUE, TRUE)
  BY Zenon DEF FgKill
<1>2. verdict = "none"
  BY <1>1 DEF Reaching, Going, Polling, FgWatching
<1> DEFINE g == AtGate(own)
<1>3. verdict' = g.pending.kind /\ seen' = FgObserved(g, TRUE, TRUE, FALSE)
  BY <1>1, Zenon DEF Return
<1>4. Pending(g) /\ ~FgGateWithdraws(g) /\ g.clock["gate"] >= Gate
  BY <1>1 DEF FgGateFires, Elapsed
<1>5. Ticks(g, TRUE) /\ Lives(g, TRUE, TRUE)
  BY <1>2, FgInvFacts, TickAtGate, Zenon
<1> HIDE DEF g
<1>6. PICK captured, polled : captured = TRUE /\ polled = TRUE
  OBVIOUS
<1>7. Ticks(g, polled) /\ Lives(g, captured, polled)
  BY <1>5, <1>6, Zenon
<1>8. verdict' \in Kinds
  BY <1>3, <1>4, <1>7 DEF Ticks, Checks, WellFormed, Pending
<1>9. g.clock["gate"] \in 0 .. Gate
  BY <1>2, <1>4, <1>7, FgInvFacts, GateInTick DEF Ticks
<1>10. ~seen.skipped => FgIdle(captured, polled) >= Gate
  <2>1. ~seen.skipped =>
           FgIdle(captured, polled) >= g.clock["gate"] \/ g.clock["gate"] <= Early
    BY <1>2, <1>4, <1>7, GateInSilence
  <2>2. g.clock["gate"] = Gate /\ Early < Gate /\ Early \in Nat /\ Gate \in Nat
    BY <1>4, <1>9, TimesAssumption
  <2> QED
    BY <2>1, <2>2
<1>11. seen'.idle = FgIdle(TRUE, TRUE)
  BY <1>2, <1>3, <1>5, ReturnTells, Zenon
<1>12. ~seen.skipped => seen'.idle >= Gate
  BY <1>6, <1>10, <1>11, Zenon
<1> QED
  BY <1>8, <1>12 DEF EndCause, Kinds

----------------------------------------------------------------------------
(* A monitor starts with fresh Instants and nothing asked.                 *)
LEMMA InitFgInv == FgInit => FgInv
<1> SUFFICES ASSUME FgInit PROVE FgInv
  OBVIOUS
<1>1. mon = NewMonitor(0) /\ seen = [idle |-> 0, lost |-> 0, ended |-> Off, skipped |-> FALSE]
  BY DEF FgInit
<1>2. WellFormed(mon) /\ ~Pending(mon) /\ ~mon.pathKnown
      /\ mon.clock["pane"] = 0 /\ mon.clock["completion"] = Off /\ mon.clock["gone"] = Off
  BY <1>1, HorizonFacts
  DEF NewMonitor, WellFormed, Fields, Pending, NoRequest, Off, Kinds
<1>3. FgSeenType /\ seen.idle = 0 /\ seen.lost = 0
  BY <1>1 DEF FgSeenType
<1> QED
  BY <1>2, <1>3, TimesAssumption
  DEF FgInv, GateRuns, FgSilence, FgTells, FgLifeShows, IsSet, LifeClocks, Off

(* What the world does, and what follows a verdict, is not the monitor's.  *)
LEMMA FgStutters ==
  ASSUME FgInv, UNCHANGED <<mon, verdict, seen>> PROVE FgInv'
  BY DEF FgInv, WellFormed, FgSeenType, GateRuns, FgSilence, FgTells, FgLifeShows,
     Pending, IsSet

(* The invariant is inductive, and every verdict has its cause.            *)
LEMMA NextFgInv == FgInv /\ [FgNext]_vars => FgInv' /\ [EndCause]_vars
<1> SUFFICES ASSUME FgInv, [FgNext]_vars PROVE FgInv' /\ [EndCause]_vars
  OBVIOUS
<1>1. CASE TmuxHangs \/ CaptureFails \/ FgPromptAccepted \/ WaitsInGrace \/ EvidenceSkips
  <2>1. FgInv'
    BY <1>1, BlindTickFgInv, PaneTickFgInv, EvidenceTickFgInv
  <2>2. verdict' = verdict /\ killed' = killed /\ verdict = "none"
    BY <1>1, Zenon DEF TmuxHangs, CaptureFails, FgPromptAccepted, WaitsInGrace, EvidenceSkips,
       Skip, FgWatching, Going, Polling
  <2> QED
    BY <2>1, <2>2 DEF EndCause
<1>2. CASE Watch
  <2>1. verdict' = verdict /\ killed' = killed /\ verdict = "none"
    BY <1>2, Zenon DEF Watch, FgWatching, Reaching, Going, Polling
  <2> QED
    BY <1>2, <2>1, WatchFgInv DEF EndCause
<1>3. CASE \/ FgSessionVanished \/ CompletionGraceOver \/ SessionExitsInGrace
           \/ LoopFileDeleted \/ BootstrapFailed \/ FgKill
  <2>1. EndCause /\ verdict' # "none"
    BY <1>3, FgSessionVanishedEnds, CompletionEnds, LoopFileDeletedEnds, BootstrapFailedEnds,
       FgKillEnds
  <2> QED
    BY <2>1 DEF FgInv
<1>4. CASE World
  <2>1. UNCHANGED <<mon, pc, verdict, killed, seen>> /\ verdict = "none"
    BY <1>4, WorldStutters
    DEF World, SessionChanges, ProcessDies, PaneChanges, CheckpointChanges, LoopChanges,
        QuietChanges, SignalWritten, PermissionExpires, Change
  <2> QED
    BY <2>1, FgStutters DEF EndCause
<1>5. CASE SignOfLife
  <2>1. UNCHANGED <<mon, verdict, killed, seen>> /\ verdict = "none"
    BY <1>5 DEF SignOfLife, FgWatching
  <2> QED
    BY <2>1, FgStutters DEF EndCause
<1>6. CASE FgFinished \/ UNCHANGED vars
  BY <1>6, FgStutters DEF FgFinished, vars
<1> QED
  BY <1>1, <1>2, <1>3, <1>4, <1>5, <1>6 DEF FgNext, FgTick

(* "GW must NEVER kill a session instantly": for any thresholds, any world *)
(* and any number of changes, each of the five kills of the foreground     *)
(* loop, and each report of a completion, has a reason that lasted.        *)
THEOREM ForegroundEndsHaveCause == FgSpec => EndHasCause
<1>1. FgSpec => []FgInv
  BY InitFgInv, NextFgInv, PTL DEF FgSpec
<1>2. FgInv /\ [FgNext]_vars => [EndCause]_vars
  BY NextFgInv
<1> QED
  BY <1>1, <1>2, PTL DEF FgSpec, EndHasCause
=============================================================================

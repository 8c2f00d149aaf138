----------------------------- MODULE ForegroundRun -----------------------------
(***************************************************************************)
(* `gw run' without a daemon, in one repository: processes that queue on   *)
(* .gw/gw.lock (src/batch/lock.rs), adopt or kill the session a dead gw    *)
(* left (src/monitor/session_owner.rs), and spawn, watch and restart one   *)
(* session per plan (src/engine/single_session/orchestrator.rs).  What the *)
(* monitor loop returns is a verdict of ForegroundMonitor.                 *)
(*                                                                         *)
(* A session is <<gw, index of the plan in its batch>>, as its name holds  *)
(* the plan and the time the gw began with it.                             *)
(***************************************************************************)
EXTENDS Checkpoint, CrashLoop, FiniteSets

CONSTANTS
    Gws,            \* processes, numbered from 1
    Plans,
    Batches,        \* what plans the gws may be given: a set of functions
    None,           \* no file, no session
    AutoMerge,      \* FALSE: Rune's checkpoint has its last phase skipped
    Durations,      \* lengths of an attempt
    MaxRetries,     \* max_retries() of the retryable error
    MaxFaults       \* bound on deaths of a gw and failed system calls

Sessions == Gws \X (1 .. Cardinality(Plans))

OwnerFile == [gw : Gws, session : Sessions, plan : Plans]

LoopFile == [plan : Plans, active : BOOLEAN]

ASSUME GwAssumption ==
    /\ Gws \subseteq Nat \ {0} /\ IsFiniteSet(Plans) /\ Durations \subseteq Nat
    /\ Batches \subseteq [Gws -> UNION {[1 .. n -> Plans] : n \in 0 .. Cardinality(Plans)}]
    /\ None \notin Plans \cup Sessions \cup OwnerFile \cup LoopFile \cup Checkpoints

VARIABLES
    batch,          \* the plans each gw was given, in order
    pc,             \* where each gw is in acquire_run_lock, run_single_session, Drop
    gw,             \* its local variables
    lockFile,       \* inode of .gw/gw.lock, named by its creator; 0: no file
    session,        \* tmux: what runs in each session
    owner,          \* .gw/session-owner.json
    loop,           \* .rune/arc-phase-loop.local.md
    cp,             \* checkpoint.json of the last arc of each plan
    history,        \* .gw/crash-history.json
    faults,         \* deaths and failed calls so far
    strays,         \* history: sessions whose owner record was lost
    restarts        \* history: ages of the restarts each gw made

world == <<session, loop, cp>>
vars == <<batch, pc, gw, lockFile, session, owner, loop, cp, history, faults, strays, restarts>>

Live == {"idle", "fresh", "resume", "working"}

Gone == {"ended", "dead"}

(* From the return of flock to the close of the file.                      *)
Holding == {"start", "decide", "spawn", "own", "dispatch", "watch", "cooldown", "backoff",
            "unlink", "close"}

Driving == {"decide", "spawn", "own", "dispatch", "watch", "cooldown", "backoff"}

PlanOf(s) == batch[s[1]][s[2]]

Own(g) == <<g, gw[g].index>>

Plan(g) == batch[g][gw[g].index]

Locals == [inode |-> 0, index |-> 1, done |-> 0, first |-> TRUE, adopts |-> None,
           command |-> "fresh", reads |-> None, det |-> NewDetector]

Watched(g) == IF gw[g].adopts = None THEN Own(g) ELSE gw[g].adopts

(* A system call fails, or a process dies.                                 *)
Fault == faults < MaxFaults /\ faults' = faults + 1

NoFault == faults' = faults

Goto(g, next) == pc' = [pc EXCEPT ![g] = next]

----------------------------------------------------------------------------
(* acquire_run_lock and InstanceLock.                                      *)

(* The same plan is refused while its gw lives; otherwise queue.           *)
CheckOwner(g) ==
    /\ pc[g] = "check"
    /\ Goto(g, IF owner # None /\ pc[owner.gw] \notin Gone /\ owner.plan = batch[g][1]
               THEN "ended" ELSE "open")
    /\ UNCHANGED <<batch, gw, lockFile, world, owner, history, faults, strays, restarts>>

(* File::create opens the file that is there, or makes one.                *)
OpenLock(g) ==
    /\ pc[g] = "open"
    /\ lockFile' = IF lockFile = 0 THEN g ELSE lockFile
    /\ gw' = [gw EXCEPT ![g].inode = lockFile']
    /\ Goto(g, "lock")
    /\ UNCHANGED <<batch, world, owner, history, faults, strays, restarts>>

Held(inode) == \E h \in Gws : pc[h] \in Holding /\ gw[h].inode = inode

(* lock_exclusive: on the open file, whatever the path names by now.       *)
Flock(g) ==
    /\ pc[g] = "lock" /\ ~Held(gw[g].inode)
    /\ Goto(g, "start")
    /\ UNCHANGED <<batch, gw, lockFile, world, owner, history, faults, strays, restarts>>

(* Drop: the path is removed, then the file is closed.                     *)
UnlinkLock(g) ==
    /\ pc[g] = "unlink"
    /\ lockFile' = 0
    /\ Goto(g, "close")
    /\ UNCHANGED <<batch, gw, world, owner, history, faults, strays, restarts>>

CloseLock(g) ==
    /\ pc[g] = "close"
    /\ Goto(g, "ended")
    /\ gw' = [gw EXCEPT ![g] = Locals]
    /\ UNCHANGED <<batch, lockFile, world, owner, history, faults, strays, restarts>>

(* The kernel closes the files of a gw that dies; sessions live on.        *)
GwDies(g) ==
    /\ pc[g] \in Driving /\ Fault
    /\ Goto(g, "dead")
    /\ gw' = [gw EXCEPT ![g] = Locals]
    /\ restarts' = [restarts EXCEPT ![g] = <<>>]
    /\ strays' = IF pc[g] = "own" THEN strays \cup {Own(g)} ELSE strays
    /\ UNCHANGED <<batch, lockFile, world, owner, history>>

----------------------------------------------------------------------------
(* run_single_session, up to its loop.                                     *)

(* is_session_stale depends on a session's age and a guess at its pid.     *)
Cleaned(sess, swept) == [s \in Sessions |-> IF s \in swept THEN "absent" ELSE sess[s]]

Sweeps == SUBSET {s \in Sessions : session[s] = "stale"}

ActivePlan == IF loop # None /\ loop.active THEN loop.plan ELSE None

(* No owner file, or one whose session is gone, which is removed.          *)
StartClean(g, sess) ==
    /\ owner # None => sess[owner.session] = "absent"
    /\ session' = sess
    /\ owner' = None
    /\ strays' = strays
    /\ NoFault

Adoptable(g, sess) == sess[owner.session] \in Live /\ owner.plan = Plan(g)

(* Mutant: the session of another plan loses its owner file only.          *)
StartKilling_FileOnly(g, sess) ==
    /\ owner # None /\ sess[owner.session] # "absent" /\ ~Adoptable(g, sess)
    /\ owner' = None
    /\ session' = sess /\ NoFault /\ strays' = strays

(* An orphan that cannot be adopted: kill_session, whose error is ignored, *)
(* and remove the file.                                                    *)
StartKilling(g, sess) ==
    /\ owner # None /\ sess[owner.session] # "absent" /\ ~Adoptable(g, sess)
    /\ owner' = None
    /\ \/ session' = [sess EXCEPT ![owner.session] = "absent"] /\ NoFault /\ strays' = strays
       \/ session' = sess /\ Fault /\ strays' = strays \cup {owner.session}

(* Mutant: the crash history of an earlier gw is not loaded.               *)
Loaded_Never(file) == NewDetector

Loaded(file) == Load(file)

Begin(g, adopts) ==
    /\ gw' = [gw EXCEPT ![g].first = TRUE, ![g].adopts = adopts, ![g].command = "fresh",
                        ![g].det = Loaded(history)]
    /\ loop' = IF adopts = None /\ ActivePlan \notin {None, Plan(g)}
               THEN None ELSE loop
    /\ restarts' = [restarts EXCEPT ![g] = <<>>]
    /\ Goto(g, "decide")
    /\ UNCHANGED <<batch, lockFile, cp, history>>

Start(g) ==
    /\ pc[g] = "start"
    /\ \E swept \in Sweeps :
          LET sess == Cleaned(session, swept)
          IN  \/ (StartClean(g, sess) \/ StartKilling(g, sess)) /\ Begin(g, None)
              \/ /\ owner # None /\ Adoptable(g, sess)
                 /\ Begin(g, owner.session)
                 /\ session' = sess
                 /\ NoFault /\ UNCHANGED <<owner, strays>>

(* No plan file, no disk space, no tmux: an error before the loop.         *)
StartFails(g) ==
    /\ pc[g] = "start" /\ Fault
    /\ Goto(g, "unlink")
    /\ UNCHANGED <<batch, gw, lockFile, world, owner, history, strays, restarts>>

----------------------------------------------------------------------------
(* The loop.                                                               *)

(* The locals of run_single_session go when it returns.                    *)
Left(g) == [Locals EXCEPT !.inode = gw[g].inode, !.index = gw[g].index, !.done = gw[g].done]

(* The plan has failed, or gw itself: the batch stops.                     *)
Fail(g) ==
    /\ Goto(g, "unlink")
    /\ gw' = [gw EXCEPT ![g] = Left(g)]
    /\ restarts' = [restarts EXCEPT ![g] = <<>>]

(* The plan has succeeded: on to the next of the batch.                    *)
Succeed(g) ==
    /\ owner' = None
    /\ history' = <<>>
    /\ restarts' = [restarts EXCEPT ![g] = <<>>]
    /\ IF gw[g].index = Len(batch[g])
       THEN Goto(g, "unlink") /\ gw' = [gw EXCEPT ![g] = [Left(g) EXCEPT !.done = @ + 1]]
       ELSE /\ Goto(g, "start")
            /\ gw' = [gw EXCEPT ![g] = [Left(g) EXCEPT !.done = @ + 1, !.index = @ + 1]]

(* The adopted session is watched at once; its owner file is rewritten.    *)
Adopt(g) ==
    /\ pc[g] = "decide" /\ gw[g].adopts # None
    /\ Goto(g, "watch")
    /\ gw' = [gw EXCEPT ![g].reads = ActivePlan]
    /\ \/ owner' = [gw |-> g, session |-> gw[g].adopts, plan |-> Plan(g)] /\ NoFault
       \/ Fault /\ owner' = owner
    /\ UNCHANGED <<batch, lockFile, world, history, strays, restarts>>

(* The checkpoint the loop file points at: active, or inactive of any plan.*)
Target == IF loop = None THEN None ELSE cp[loop.plan]

Done(c) == IsComplete(c) \/ IsTerminalPhaseCompleted(c)

(* resolve_restart_command; no recovery strategy is a fresh start.         *)
RestartCommand == IF Target # None /\ HasProgress(Target) THEN "resume" ELSE "fresh"

AlreadyDone == Target # None /\ HasProgress(Target) /\ Done(Target)

Decide(g) ==
    /\ pc[g] = "decide" /\ gw[g].adopts = None
    /\ gw[g].first \/ ~AlreadyDone
    /\ Goto(g, "spawn")
    /\ gw' = [gw EXCEPT ![g].command = IF gw[g].first THEN "fresh" ELSE RestartCommand]
    /\ UNCHANGED <<batch, lockFile, world, owner, history, faults, strays, restarts>>

(* The session may live still, if tmux did not answer or obey.             *)
FindDone(g) ==
    /\ pc[g] = "decide" /\ gw[g].adopts = None
    /\ ~gw[g].first /\ AlreadyDone
    /\ Succeed(g)
    /\ strays' = IF session[Own(g)] \in Live THEN strays \cup {Own(g)} ELSE strays
    /\ UNCHANGED <<batch, lockFile, world, faults>>

(* The pipeline timeout, at the head of the loop.                          *)
TimeIsUp(g) ==
    /\ pc[g] = "decide" /\ ~gw[g].first
    /\ Fail(g)
    /\ UNCHANGED <<batch, lockFile, world, owner, history, faults, strays>>

(* run_session_attempt: an old session of the name goes first.             *)
Spawn(g) ==
    /\ pc[g] = "spawn"
    /\ \E swept \in Sweeps : session' = [Cleaned(session, swept) EXCEPT ![Own(g)] = "idle"]
    /\ Goto(g, "own")
    /\ UNCHANGED <<batch, gw, lockFile, owner, loop, cp, history, faults, strays, restarts>>

(* The sessions cannot be listed: `?' returns from everything.             *)
SpawnAborts(g) ==
    /\ pc[g] = "spawn" /\ Fault
    /\ Fail(g)
    /\ UNCHANGED <<batch, lockFile, world, owner, history, strays>>

WriteOwner(g) ==
    /\ pc[g] = "own"
    /\ Goto(g, "dispatch")
    /\ \/ owner' = [gw |-> g, session |-> Own(g), plan |-> Plan(g)] /\ NoFault
          /\ strays' = strays \ {Own(g)}
       \/ Fault /\ owner' = owner /\ strays' = strays \cup {Own(g)}
    /\ UNCHANGED <<batch, gw, lockFile, world, history, restarts>>

(* The keys reach a session that has gone in the meantime, too, as far as  *)
(* gw is told; the path of the checkpoint is found while watching.         *)
Dispatch(g) ==
    /\ pc[g] = "dispatch"
    /\ Goto(g, "watch")
    /\ session' = [session EXCEPT ![Own(g)] = IF @ = "idle" THEN gw[g].command ELSE @]
    /\ gw' = [gw EXCEPT ![g].reads = ActivePlan]
    /\ UNCHANGED <<batch, lockFile, owner, loop, cp, history, faults, strays, restarts>>

----------------------------------------------------------------------------
(* What comes back, after d.                                               *)

Aged(file, d) == IF file = <<>> THEN file ELSE <<Elapse(file[1], d)>>

(* An attempt as long as the stability period is a healthy tick.           *)
Ticked(g, d) ==
    LET det == Elapse(gw[g].det, d) IN IF d >= Stability THEN HealthyTick(det) ELSE det

(* The next turn of the loop, with the restart counted.                    *)
Restart(g, det, d, next) ==
    /\ Goto(g, next)
    /\ gw' = [gw EXCEPT ![g].det = det, ![g].first = FALSE, ![g].adopts = None,
                        ![g].reads = None]
    /\ restarts' = [restarts EXCEPT ![g] = Append(Within(Later(@, d), Window), 0)]

(* Crashed or Stuck.  Only a crash that stops the loop forgets the history;*)
(* an adopted session's is put down to the phase of its checkpoint.        *)
AfterCrash(g, v, d) ==
    LET adopted == gw[g].adopts # None
        phase == IF adopted /\ ActivePlan # None /\ Target # None
                 THEN EffectivePhase(Target) ELSE 0
        det == Recorded(Ticked(g, d), phase)
    IN  /\ IF Stops(det, phase) THEN Fail(g) ELSE Restart(g, det, d, "cooldown")
        /\ history' = IF Stops(det, phase) /\ v = "crashed" /\ ~adopted
                      THEN <<>> ELSE Aged(history, d)
        /\ owner' = owner

Saved(det, d, lost) == IF lost THEN Aged(history, d) ELSE Persist(det)

(* A retryable error.                                                      *)
AfterError(g, d, lost) ==
    LET det == Recorded(Ticked(g, d), 0)
    IN  /\ IF Stops(det, 0) \/ det.total >= MaxRetries
           THEN Fail(g) /\ history' = Aged(history, d)
           ELSE Restart(g, det, d, "backoff") /\ history' = Saved(det, d, lost)
        /\ owner' = owner

After(g, v, d, lost) ==
    CASE v = "completed" -> Succeed(g)
      [] v = "failed" -> Fail(g) /\ history' = Aged(history, d) /\ UNCHANGED owner
      [] v = "error" /\ gw[g].adopts = None -> AfterError(g, d, lost)
      [] OTHER -> AfterCrash(g, v, d)

ReadCp(g) == IF gw[g].reads = None THEN None ELSE cp[gw[g].reads]

(* Mutant: the loop file need not have been seen active.                   *)
Ended_NotSeen(g) ==
    \/ ReadCp(g) # None /\ IsNearCompletion(ReadCp(g))
    \/ loop # None /\ ~loop.active
    \/ loop = None /\ ReadCp(g) = None

(* What a Completed of ForegroundMonitor rests on: a checkpoint near its   *)
(* end, or a loop file that was active and is not, unless it was deleted   *)
(* in mid-pipeline.                                                        *)
Ended(g) ==
    \/ ReadCp(g) # None /\ IsNearCompletion(ReadCp(g))
    \/ gw[g].reads # None /\ loop # None /\ ~loop.active
    \/ gw[g].reads # None /\ loop = None /\ ReadCp(g) = None

(* The verdicts the monitor may reach: "failed" stands for the fatal ones, *)
(* the timeout and an arc that never started.                              *)
Verdict(g, v) ==
    LET here == session[Watched(g)]
    IN  \/ v = "completed" /\ Ended(g)
        \/ v = "crashed" /\ here = "absent"
        \/ v = "crashed" /\ gw[g].reads # None /\ loop = None
        \/ v \in {"failed", "stuck", "error"} /\ here \in Live
        \/ v = "failed" /\ here = "stale" /\ gw[g].reads = None /\ ActivePlan = None

(* With `spared' tmux did not answer, or refused to kill the session: it   *)
(* stays, and is on nobody's record once gw forgets it.                    *)
Return(g) ==
    /\ pc[g] = "watch"
    /\ \E v \in {"completed", "crashed", "failed", "stuck", "error"},
          d \in Durations, spared, lost \in BOOLEAN :
          /\ Verdict(g, v) \/ (v = "crashed" /\ spared)
          /\ spared => session[Watched(g)] # "absent"
          /\ lost => v = "error"
          /\ faults' = faults + (IF spared THEN 1 ELSE 0) + (IF lost THEN 1 ELSE 0)
          /\ faults' <= MaxFaults
          /\ session' = [session EXCEPT ![Watched(g)] = IF spared THEN @ ELSE "absent"]
          /\ strays' = IF spared /\ (v = "completed" \/ gw[g].adopts # None)
                       THEN strays \cup {Watched(g)} ELSE strays
          /\ After(g, v, d, lost)
    /\ UNCHANGED <<batch, lockFile, loop, cp>>

(* An attempt that crashed: spawn_claude_session fails, the session made or*)
(* not, or send_keys fails and the session is killed.                      *)
SpawnFails(g) ==
    /\ pc[g] \in {"spawn", "dispatch"} /\ Fault
    /\ \E left \in {"absent", "idle"} :
          /\ session' = [session EXCEPT ![Own(g)] = left]
          /\ strays' = IF left = "idle" THEN strays \cup {Own(g)} ELSE strays
    /\ AfterCrash(g, "crashed", 0)
    /\ UNCHANGED <<batch, lockFile, loop, cp>>

(* The cooldown or the backoff is over.                                    *)
Wake(g) ==
    /\ pc[g] \in {"cooldown", "backoff"}
    /\ Goto(g, "decide")
    /\ UNCHANGED <<batch, gw, lockFile, world, owner, history, faults, strays, restarts>>

----------------------------------------------------------------------------
(* Rune and the user's machine.                                            *)

NewArc ==
    [status |-> [p \in Phases |-> IF p = PhaseCount /\ ~AutoMerge THEN "skipped" ELSE "pending"],
     finished |-> FALSE,
     skipMap |-> IF AutoMerge THEN {} ELSE {PhaseCount}]

WorldOnly == UNCHANGED <<batch, pc, lockFile, owner, history, faults, strays, restarts>>

(* A monitor sees an active loop file at its next poll.                    *)
Noticed ==
    gw' = [g \in Gws |->
             IF pc[g] = "watch" /\ gw[g].reads = None /\ loop' # None /\ loop'.active
             THEN [gw[g] EXCEPT !.reads = loop'.plan] ELSE gw[g]]

(* A new arc names its checkpoint in the loop file before it writes it; a  *)
(* resumed one takes the old checkpoint up, if there is one.               *)
ArcBegins(s) ==
    /\ \/ session[s] = "fresh" /\ cp' = [cp EXCEPT ![PlanOf(s)] = None]
       \/ session[s] = "resume" /\ cp[PlanOf(s)] # None /\ cp' = cp
    /\ session' = [session EXCEPT ![s] = "working"]
    /\ loop' = [plan |-> PlanOf(s), active |-> TRUE]
    /\ Noticed /\ WorldOnly

(* The next status of an arc; a phase that failed is tried again at once.  *)
ArcStep(c) ==
    LET running == First(With(c, "in_progress"))
        next == First(Actionable(c))
    IN  CASE running # 0 -> [c EXCEPT !.status[running] = "completed"]
          [] running = 0 /\ next # 0 -> [c EXCEPT !.status[next] = "in_progress"]
          [] OTHER -> [c EXCEPT !.finished = TRUE]

ArcAdvances(s) ==
    /\ session[s] = "working"
    /\ cp[PlanOf(s)] # None => ~cp[PlanOf(s)].finished
    /\ cp' = [cp EXCEPT ![PlanOf(s)] = IF @ = None THEN NewArc ELSE ArcStep(@)]
    /\ UNCHANGED <<gw, session, loop>> /\ WorldOnly

(* In or after its last phase the arc closes or removes its loop file.     *)
ArcEnds(s) ==
    /\ session[s] = "working" /\ loop # None /\ loop.active /\ loop.plan = PlanOf(s)
    /\ cp[PlanOf(s)] # None
    /\ With(cp[PlanOf(s)], "pending") = {}
    /\ loop' \in {None, [loop EXCEPT !.active = FALSE]}
    /\ loop' = None => cp[PlanOf(s)].finished
    /\ UNCHANGED <<gw, session, cp>> /\ WorldOnly

(* Claude exits, and its session with it, unless a teammate's pane is left.*)
SessionDies(s) ==
    /\ session[s] \in Live \cup {"stale"}
    /\ \E left \in {"stale", "absent"} \ {session[s]} :
          session' = [session EXCEPT ![s] = left]
    /\ UNCHANGED <<gw, loop, cp>> /\ WorldOnly

----------------------------------------------------------------------------
Init ==
    /\ batch \in Batches
    /\ pc = [g \in Gws |-> IF batch[g] = <<>> THEN "ended" ELSE "check"]
    /\ gw = [g \in Gws |-> Locals]
    /\ lockFile = 0
    /\ session = [s \in Sessions |-> "absent"]
    /\ owner = None /\ loop = None
    /\ cp = [p \in Plans |-> None]
    /\ history = <<>>
    /\ faults = 0 /\ strays = {} /\ restarts = [g \in Gws |-> <<>>]

Step(g) ==
    \/ CheckOwner(g) \/ OpenLock(g) \/ Flock(g) \/ UnlinkLock(g) \/ CloseLock(g)
    \/ Start(g) \/ StartFails(g) \/ Adopt(g) \/ Decide(g) \/ FindDone(g) \/ TimeIsUp(g)
    \/ Spawn(g) \/ SpawnAborts(g) \/ SpawnFails(g) \/ WriteOwner(g) \/ Dispatch(g)
    \/ Return(g) \/ Wake(g) \/ GwDies(g)

World == \E s \in Sessions : ArcBegins(s) \/ ArcAdvances(s) \/ ArcEnds(s) \/ SessionDies(s)

Next == (\E g \in Gws : Step(g)) \/ World

(* Weak fairness of each gw's steps, ENABLED written out: it runs unless it*)
(* has ended, waits for a lock another holds, or watches a session that is *)
(* there: its activity, a dead process in it or captures that fail may     *)
(* keep monitor_session from ever returning (ForegroundMonitor,            *)
(* EventuallyEnds).  A session that has gone ends the watch.               *)
WatchesOn(g) == pc[g] = "watch" /\ session[Watched(g)] # "absent"

Waits(g) == (pc[g] = "lock" /\ Held(gw[g].inode)) \/ WatchesOn(g)

Fairness ==
    \A g \in Gws : []<>(pc[g] \in Gone \/ Waits(g)) \/ []<><<pc'[g] # pc[g]>>_vars

Spec == Init /\ [][Next]_vars /\ Fairness

----------------------------------------------------------------------------
\* Two processes never drive runs in the repository at the same time: "the OS
\* kernel guarantees mutual exclusion" (batch/lock.rs:3).
InstanceExclusive ==
    \A g, h \in Gws : pc[g] \in Driving /\ pc[h] \in Driving => g = h

\* A session that works is never forgotten: the owner file names it, for the
\* next gw to adopt or to kill, or a gw is just about to write that file.
\* Excepted are those lost to a failed call or a death before that write.
LiveSessionIsOwned ==
    \A s \in Sessions \ strays :
       session[s] \in Live => \/ owner # None /\ owner.session = s
                              \/ pc[s[1]] = "own" /\ Own(s[1]) = s

Succeeds(g) == pc'[g] # pc[g] /\ gw'[g].done > gw[g].done

\* A plan is reported done only if its checkpoint is near completion, while no
\* session is lost; except that a restart may take for its own the checkpoint
\* of another plan, whose loop file was left lying about.
SuccessHasEvidence ==
    [][\A g \in Gws : Succeeds(g) /\ strays = {} =>
          \E p \in {Plan(g), IF loop = None THEN Plan(g) ELSE loop.plan} :
             cp[p] # None /\ IsNearCompletion(cp[p])]_vars

\* No gw restarts MaxCrashes times within the window, whatever the outcomes,
\* the lengths of the attempts and the history it inherits.
RestartsAreLimited == \A g \in Gws : Len(restarts[g]) < MaxCrashes

\* No restart is forgotten by the death of gw: who drives counts at least what
\* the history file says, and while gw sleeps off an error the file says what
\* gw counts, unless a call has failed.
RestartsAreRemembered ==
    \A g \in Gws :
       /\ pc[g] \in Driving /\ history # <<>> => gw[g].det.total >= history[1].total
       /\ pc[g] = "backoff" /\ faults = 0 => history # <<>> /\ history[1].total = gw[g].det.total

\* Every gw ends, however often its sessions crash, its plans fail and its
\* calls go wrong, unless some gw watches one session for ever: the restarts
\* of run_single_session are bounded, and nobody waits on a lock for nothing.
EverybodyEnds ==
    (\A g \in Gws : <>(pc[g] \in Gone)) \/ (\E g \in Gws : <>[]WatchesOn(g))
=============================================================================

------------------------- MODULE ForegroundRun_proofs -------------------------
(***************************************************************************)
(* ForegroundRun, for any plans, batches, attempts, limits and faults.     *)
(* InstanceExclusive for any two processes.  While it holds, also for more *)
(* of them: LiveSessionIsOwned, RestartsAreRemembered and, if Rune's merge *)
(* phase is on, SuccessHasEvidence.  RestartsAreLimited in any case.       *)
(***************************************************************************)
EXTENDS ForegroundRun, TLAPS, FiniteSetTheorems, SequenceTheorems, WellFoundedInduction

----------------------------------------------------------------------------
(* Types.                                                                  *)

(* Of gw[g].                                                               *)
Fields == {"inode", "index", "done", "first", "adopts", "command", "reads", "det"}

(* The locals of each gw, as far as the proofs use their types.            *)
LocalsOK(g) ==
    /\ DOMAIN gw[g] = Fields
    /\ gw[g].adopts \in Sessions \cup {None}
    /\ gw[g].reads \in Plans \cup {None}
    /\ pc[g] \notin Gone => gw[g].index \in 1 .. Len(batch[g])

(* And of the processes.                                                   *)
ProcsOK ==
    /\ batch \in Batches
    /\ DOMAIN pc = Gws /\ DOMAIN gw = Gws
    /\ \A g \in Gws : LocalsOK(g)

(* A session exists only for a plan of its gw.                             *)
SessionsOK ==
    /\ DOMAIN session = Sessions
    /\ \A s \in Sessions : session[s] # "absent" => s[2] \in 1 .. Len(batch[s[1]])

(* The files hold what was written to them.                                *)
FilesOK ==
    /\ owner \in OwnerFile \cup {None}
    /\ loop \in LoopFile \cup {None}
    /\ cp \in [Plans -> Checkpoints \cup {None}]

(* As much of the types as the proofs use.                                 *)
RunTypeOK == ProcsOK /\ SessionsOK /\ FilesOK /\ faults \in Nat

(* The plans of a batch.                                                   *)
LEMMA BatchFacts ==
  ASSUME batch \in Batches, NEW g \in Gws
  PROVE  /\ Cardinality(Plans) \in Nat /\ Len(batch[g]) \in 0 .. Cardinality(Plans)
         /\ \A i \in 1 .. Len(batch[g]) : batch[g][i] \in Plans
         /\ batch[g] = <<>> <=> Len(batch[g]) = 0
<1>1. Cardinality(Plans) \in Nat
  BY GwAssumption, FS_CardinalityType DEF GwAssumption
<1>2. batch \in [Gws -> UNION {[1 .. n -> Plans] : n \in 0 .. Cardinality(Plans)}]
  BY GwAssumption DEF GwAssumption
<1>3. PICK n \in 0 .. Cardinality(Plans) : batch[g] \in [1 .. n -> Plans]
  BY <1>2
<1>4. n \in Nat /\ batch[g] \in Seq(Plans) /\ Len(batch[g]) = n
  BY <1>1, <1>3
<1> QED
  BY <1>1, <1>3, <1>4

(* The session and the plan a gw is at.                                    *)
LEMMA OwnFacts ==
  ASSUME ProcsOK, NEW g \in Gws, pc[g] \notin Gone
  PROVE  /\ Own(g) \in Sessions /\ Plan(g) \in Plans /\ PlanOf(Own(g)) = Plan(g)
         /\ Own(g)[1] = g /\ Own(g)[2] = gw[g].index
         /\ Own(g)[2] \in 1 .. Len(batch[Own(g)[1]])
         /\ Watched(g) \in Sessions
<1>1. gw[g].index \in 1 .. Len(batch[g]) /\ gw[g].adopts \in Sessions \cup {None}
  BY DEF ProcsOK, LocalsOK
<1>2. gw[g].index \in 1 .. Cardinality(Plans) /\ batch[g][gw[g].index] \in Plans
  BY <1>1, BatchFacts DEF ProcsOK
<1> QED
  BY <1>1, <1>2 DEF Own, Plan, PlanOf, Sessions, Watched

(* The locals a gw starts with, and is left with by a plan.                *)
LEMMA LocalsFacts ==
  /\ DOMAIN Locals = Fields
  /\ Locals.adopts = None /\ Locals.reads = None /\ Locals.index = 1
  /\ \A g : /\ DOMAIN Left(g) = Fields
            /\ Left(g).adopts = None /\ Left(g).reads = None
            /\ Left(g).index = gw[g].index /\ Left(g).done = gw[g].done
            /\ Left(g).inode = gw[g].inode /\ Left(g).det = NewDetector
BY DEF Locals, Left, Fields

(* A step of one gw keeps the types of the locals.                         *)
LEMMA OneSteps ==
  ASSUME ProcsOK, NEW g \in Gws, NEW x, NEW y, UNCHANGED batch,
         pc' = [pc EXCEPT ![g] = y], gw' = [gw EXCEPT ![g] = x],
         DOMAIN x = Fields, x.adopts \in Sessions \cup {None}, x.reads \in Plans \cup {None},
         y \notin Gone => x.index \in 1 .. Len(batch[g])
  PROVE  ProcsOK'
<1>1. \A h \in Gws : LocalsOK(h)
  BY DEF ProcsOK
<1>2. /\ DOMAIN pc' = Gws /\ DOMAIN gw' = Gws
      /\ pc'[g] = y /\ gw'[g] = x
      /\ \A h \in Gws : h # g => pc'[h] = pc[h] /\ gw'[h] = gw[h]
  BY DEF ProcsOK
<1>3. ASSUME NEW h \in Gws PROVE LocalsOK(h)'
  BY <1>1, <1>2 DEF LocalsOK
<1> QED
  BY <1>2, <1>3 DEF ProcsOK

(* So does one that leaves the locals alone.                               *)
LEMMA OnlyMoves ==
  ASSUME ProcsOK, NEW g \in Gws, NEW y, UNCHANGED <<batch, gw>>,
         pc' = [pc EXCEPT ![g] = y], pc[g] \notin Gone
  PROVE  ProcsOK'
<1>1. \A h \in Gws : LocalsOK(h)
  BY DEF ProcsOK
<1>2. DOMAIN pc' = Gws /\ \A h \in Gws : h # g => pc'[h] = pc[h]
  BY DEF ProcsOK
<1>3. ASSUME NEW h \in Gws PROVE LocalsOK(h)'
  BY <1>1, <1>2 DEF LocalsOK
<1> QED
  BY <1>2, <1>3 DEF ProcsOK

(* The loop file's plan.                                                   *)
LEMMA ActivePlanType == FilesOK => ActivePlan \in Plans \cup {None}
BY DEF FilesOK, ActivePlan, LoopFile

(* A turn of the loop, an end or a success leaves the locals well typed.   *)
LEMMA RestartTypes ==
  ASSUME ProcsOK, NEW g \in Gws, pc[g] \notin Gone, UNCHANGED batch,
         NEW det, NEW d, NEW next, Restart(g, det, d, next)
  PROVE  ProcsOK'
<1> DEFINE x == [gw[g] EXCEPT !.det = det, !.first = FALSE, !.adopts = None, !.reads = None]
<1>1. LocalsOK(g) /\ DOMAIN gw = Gws
  BY DEF ProcsOK
<1>2. DOMAIN x = Fields /\ x.adopts = None /\ x.reads = None /\ x.index = gw[g].index
  BY <1>1 DEF LocalsOK, Fields
<1>3. pc' = [pc EXCEPT ![g] = next] /\ gw' = [gw EXCEPT ![g] = x]
  BY <1>1 DEF Restart, Goto
<1> HIDE DEF x
<1> QED
  BY <1>1, <1>2, <1>3, OneSteps DEF LocalsOK

(* An end.                                                                 *)
LEMMA FailTypes ==
  ASSUME ProcsOK, NEW g \in Gws, pc[g] \notin Gone, UNCHANGED batch, Fail(g)
  PROVE  ProcsOK'
<1>1. LocalsOK(g)
  BY DEF ProcsOK
<1>2. pc' = [pc EXCEPT ![g] = "unlink"] /\ gw' = [gw EXCEPT ![g] = Left(g)]
  BY DEF Fail, Goto
<1> QED
  BY <1>1, <1>2, LocalsFacts, OneSteps DEF LocalsOK

(* A success.                                                              *)
LEMMA SucceedTypes ==
  ASSUME ProcsOK, NEW g \in Gws, pc[g] \notin Gone, UNCHANGED batch, Succeed(g)
  PROVE  ProcsOK'
<1>1. LocalsOK(g)
  BY DEF ProcsOK
<1>2. CASE gw[g].index = Len(batch[g])
  <2> DEFINE x == [Left(g) EXCEPT !.done = @ + 1]
  <2>1. pc' = [pc EXCEPT ![g] = "unlink"] /\ gw' = [gw EXCEPT ![g] = x]
    BY <1>2 DEF Succeed, Goto
  <2>2. DOMAIN x = Fields /\ x.adopts = None /\ x.reads = None /\ x.index = gw[g].index
    BY LocalsFacts DEF Fields
  <2> HIDE DEF x
  <2> QED
    BY <1>1, <2>1, <2>2, OneSteps DEF LocalsOK
<1>3. CASE gw[g].index # Len(batch[g])
  <2> DEFINE x == [Left(g) EXCEPT !.done = @ + 1, !.index = @ + 1]
  <2>1. pc' = [pc EXCEPT ![g] = "start"] /\ gw' = [gw EXCEPT ![g] = x]
    BY <1>3 DEF Succeed, Goto
  <2>2. DOMAIN x = Fields /\ x.adopts = None /\ x.reads = None /\ x.index = gw[g].index + 1
    BY LocalsFacts DEF Fields
  <2>3. Len(batch[g]) \in Nat /\ gw[g].index \in 1 .. Len(batch[g])
    BY <1>1, BatchFacts DEF LocalsOK, ProcsOK
  <2>4. x.index \in 1 .. Len(batch[g])
    BY <1>3, <2>2, <2>3
  <2> HIDE DEF x
  <2> QED
    BY <1>1, <2>1, <2>2, <2>4, OneSteps DEF LocalsOK
<1> QED
  BY <1>2, <1>3

(* What comes back from a monitor.                                         *)
LEMMA AfterTypes ==
  ASSUME ProcsOK, NEW g \in Gws, pc[g] \notin Gone, UNCHANGED batch,
         NEW v, NEW d, NEW lost,
         After(g, v, d, lost) \/ AfterCrash(g, v, d)
  PROVE  ProcsOK'
<1>1. Succeed(g) \/ Fail(g) \/ \E det, next : Restart(g, det, d, next)
  <2>1. ASSUME AfterCrash(g, v, d) PROVE Fail(g) \/ \E det, next : Restart(g, det, d, next)
    BY <2>1 DEF AfterCrash
  <2>2. ASSUME AfterError(g, d, lost) PROVE Fail(g) \/ \E det, next : Restart(g, det, d, next)
    BY <2>2 DEF AfterError
  <2> QED
    BY <2>1, <2>2 DEF After
<1> QED
  BY <1>1, RestartTypes, FailTypes, SucceedTypes

(* Begin takes up a plan, with an orphan or without.                       *)
LEMMA BeginTypes ==
  ASSUME ProcsOK, NEW g \in Gws, pc[g] \notin Gone, NEW a \in Sessions \cup {None}, Begin(g, a)
  PROVE  ProcsOK'
<1> DEFINE x == [gw[g] EXCEPT !.first = TRUE, !.adopts = a, !.command = "fresh",
                              !.det = Loaded(history)]
<1>1. LocalsOK(g) /\ DOMAIN gw = Gws
  BY DEF ProcsOK
<1>2. /\ DOMAIN x = Fields /\ x.adopts = a /\ x.reads = gw[g].reads
      /\ x.index = gw[g].index
  BY <1>1 DEF LocalsOK, Fields
<1>3. pc' = [pc EXCEPT ![g] = "decide"] /\ gw' = [gw EXCEPT ![g] = x] /\ UNCHANGED batch
  BY <1>1 DEF Begin, Goto
<1> HIDE DEF x
<1> QED
  BY <1>1, <1>2, <1>3, OneSteps DEF LocalsOK

(* Each step of a gw keeps the types of the locals.                        *)
LEMMA StepProcs ==
  ASSUME RunTypeOK, NEW g \in Gws, Step(g)
  PROVE  ProcsOK'
<1>0. ProcsOK /\ FilesOK /\ LocalsOK(g) /\ DOMAIN gw = Gws /\ ActivePlan \in Plans \cup {None}
  BY ActivePlanType DEF RunTypeOK, ProcsOK
<1>1. CASE CheckOwner(g)
  BY <1>0, <1>1, OnlyMoves DEF CheckOwner, Goto, Gone
<1>2. CASE OpenLock(g)
  <2> DEFINE x == [gw[g] EXCEPT !.inode = lockFile']
  <2>1. /\ DOMAIN x = Fields /\ x.adopts = gw[g].adopts /\ x.reads = gw[g].reads
        /\ x.index = gw[g].index
    BY <1>0 DEF LocalsOK, Fields
  <2>2. /\ pc' = [pc EXCEPT ![g] = "lock"] /\ gw' = [gw EXCEPT ![g] = x] /\ UNCHANGED batch
        /\ pc[g] \notin Gone
    BY <1>0, <1>2 DEF OpenLock, Goto, Gone
  <2> HIDE DEF x
  <2> QED
    BY <1>0, <2>1, <2>2, OneSteps DEF LocalsOK
<1>3. CASE Flock(g) \/ UnlinkLock(g) \/ StartFails(g) \/ Spawn(g) \/ WriteOwner(g) \/ Wake(g)
  BY <1>0, <1>3, OnlyMoves
  DEF Flock, UnlinkLock, StartFails, Spawn, WriteOwner, Wake, Goto, Gone
<1>4. CASE CloseLock(g) \/ GwDies(g)
  <2>1. PICK y \in Gone : pc' = [pc EXCEPT ![g] = y]
    BY <1>4 DEF CloseLock, GwDies, Goto, Gone
  <2>2. gw' = [gw EXCEPT ![g] = Locals] /\ UNCHANGED batch
    BY <1>4 DEF CloseLock, GwDies
  <2> QED
    BY <1>0, <2>1, <2>2, LocalsFacts, OneSteps
<1>5. CASE Start(g)
  <2>1. pc[g] \notin Gone /\ \E a \in Sessions \cup {None} : Begin(g, a)
    BY <1>0, <1>5 DEF Start, Gone, FilesOK, OwnerFile
  <2> QED
    BY <1>0, <2>1, BeginTypes
<1>6. CASE Adopt(g) \/ Dispatch(g)
  <2> DEFINE x == [gw[g] EXCEPT !.reads = ActivePlan]
  <2>1. /\ DOMAIN x = Fields /\ x.adopts = gw[g].adopts /\ x.reads = ActivePlan
        /\ x.index = gw[g].index
    BY <1>0 DEF LocalsOK, Fields
  <2>2. /\ pc' = [pc EXCEPT ![g] = "watch"] /\ gw' = [gw EXCEPT ![g] = x] /\ UNCHANGED batch
        /\ pc[g] \notin Gone
    BY <1>0, <1>6 DEF Adopt, Dispatch, Goto, Gone
  <2> HIDE DEF x
  <2> QED
    BY <1>0, <2>1, <2>2, OneSteps DEF LocalsOK
<1>7. CASE Decide(g)
  <2> DEFINE c == IF gw[g].first THEN "fresh" ELSE RestartCommand
             x == [gw[g] EXCEPT !.command = c]
  <2>1. /\ DOMAIN x = Fields /\ x.adopts = gw[g].adopts /\ x.reads = gw[g].reads
        /\ x.index = gw[g].index
    BY <1>0 DEF LocalsOK, Fields
  <2>2. /\ pc' = [pc EXCEPT ![g] = "spawn"] /\ gw' = [gw EXCEPT ![g] = x] /\ UNCHANGED batch
        /\ pc[g] \notin Gone
    BY <1>0, <1>7 DEF Decide, Goto, Gone
  <2> HIDE DEF x
  <2> QED
    BY <1>0, <2>1, <2>2, OneSteps DEF LocalsOK
<1>8. CASE FindDone(g)
  BY <1>0, <1>8, SucceedTypes DEF FindDone, Gone
<1>9. CASE TimeIsUp(g) \/ SpawnAborts(g)
  BY <1>0, <1>9, FailTypes DEF TimeIsUp, SpawnAborts, Gone
<1>10. CASE SpawnFails(g)
  BY <1>0, <1>10, AfterTypes DEF SpawnFails, Gone
<1>11. CASE Return(g)
  BY <1>0, <1>11, AfterTypes DEF Return, Gone
<1> QED
  BY <1>1, <1>2, <1>3, <1>4, <1>5, <1>6, <1>7, <1>8, <1>9, <1>10, <1>11 DEF Step

(* What a plan's arc may change of the locals.                             *)
LEMMA WorldProcs ==
  ASSUME RunTypeOK, NEW s \in Sessions,
         ArcBegins(s) \/ ArcAdvances(s) \/ ArcEnds(s) \/ SessionDies(s)
  PROVE  ProcsOK'
<1>0. ProcsOK /\ UNCHANGED <<batch, pc>>
  BY DEF RunTypeOK, ArcBegins, ArcAdvances, ArcEnds, SessionDies, WorldOnly
<1>1. CASE gw' = gw
  BY <1>0, <1>1 DEF ProcsOK, LocalsOK
<1>2. CASE ArcBegins(s)
  <2>1. s[2] \in 1 .. Len(batch[s[1]]) /\ s[1] \in Gws
    BY <1>2 DEF ArcBegins, RunTypeOK, SessionsOK, Sessions
  <2>2. PlanOf(s) \in Plans
    BY <1>0, <2>1, BatchFacts DEF PlanOf, ProcsOK
  <2>3. loop'.plan = PlanOf(s) /\ Noticed
    BY <1>2 DEF ArcBegins
  <2>4. DOMAIN gw' = Gws
    BY <2>3 DEF Noticed
  <2>5. ASSUME NEW g \in Gws PROVE LocalsOK(g)'
    <3>1. LocalsOK(g)
      BY <1>0 DEF ProcsOK
    <3>2. gw'[g] = gw[g] \/ gw'[g] = [gw[g] EXCEPT !.reads = PlanOf(s)]
      BY <2>3 DEF Noticed
    <3> QED
      BY <1>0, <2>2, <3>1, <3>2 DEF LocalsOK, Fields
  <2> QED
    BY <1>0, <2>4, <2>5 DEF ProcsOK
<1> QED
  BY <1>1, <1>2 DEF ArcAdvances, ArcEnds, SessionDies

(* Only a spawn makes a session, and a session's life ends once.           *)
LEMMA NewSessions ==
  ASSUME RunTypeOK, NEW g \in Gws, Step(g)
  PROVE  /\ DOMAIN session' = Sessions
         /\ \A s \in Sessions :
              /\ session'[s] # "absent" =>
                    session[s] # "absent" \/ (s = Own(g) /\ (Spawn(g) \/ SpawnFails(g)))
              /\ session'[s] \in Live =>
                    session[s] \in Live \/ (s = Own(g) /\ (Spawn(g) \/ SpawnFails(g)))
<1>0. DOMAIN session = Sessions
  BY DEF RunTypeOK, SessionsOK
<1> USE <1>0
<1>1. CASE session' = session
  BY <1>1
<1>2. CASE Start(g)
  <2>1. PICK swept \in Sweeps :
           LET sess == Cleaned(session, swept)
           IN  session' = sess \/ session' = [sess EXCEPT ![owner.session] = "absent"]
    BY <1>2 DEF Start, StartClean, StartKilling
  <2> DEFINE sess == Cleaned(session, swept)
  <2>2. DOMAIN sess = Sessions /\ \A s \in Sessions : sess[s] = session[s] \/ sess[s] = "absent"
    BY DEF Cleaned
  <2> HIDE DEF sess
  <2>3. /\ DOMAIN session' = Sessions
        /\ \A s \in Sessions : session'[s] = session[s] \/ session'[s] = "absent"
    BY <2>1, <2>2 DEF sess
  <2> QED
    BY <2>3 DEF Live
<1>3. CASE Spawn(g)
  <2>1. PICK swept \in Sweeps :
           session' = [Cleaned(session, swept) EXCEPT ![Own(g)] = "idle"]
    BY <1>3 DEF Spawn
  <2> DEFINE sess == Cleaned(session, swept)
  <2>2. DOMAIN sess = Sessions /\ \A s \in Sessions : sess[s] = session[s] \/ sess[s] = "absent"
    BY DEF Cleaned
  <2>3. session' = [sess EXCEPT ![Own(g)] = "idle"]
    BY <2>1
  <2> HIDE DEF sess
  <2> QED
    BY <1>3, <2>2, <2>3 DEF Live
<1>4. CASE SpawnFails(g)
  <2>1. PICK left \in {"absent", "idle"} : session' = [session EXCEPT ![Own(g)] = left]
    BY <1>4 DEF SpawnFails
  <2> QED
    BY <1>4, <2>1
<1>5. CASE Dispatch(g)
  <2>1. session' = [session EXCEPT ![Own(g)] = IF @ = "idle" THEN gw[g].command ELSE @]
    BY <1>5 DEF Dispatch
  <2> QED
    BY <2>1 DEF Live
<1>6. CASE Return(g)
  <2>1. PICK spared \in BOOLEAN :
           session' = [session EXCEPT ![Watched(g)] = IF spared THEN @ ELSE "absent"]
    BY <1>6 DEF Return
  <2> QED
    BY <2>1 DEF Live
<1>7. CASE ~(Start(g) \/ Spawn(g) \/ SpawnFails(g) \/ Dispatch(g) \/ Return(g))
  <2>1. session' = session
    BY <1>7
    DEF Step, CheckOwner, OpenLock, Flock, UnlinkLock, CloseLock, StartFails, Adopt, Decide,
        FindDone, TimeIsUp, SpawnAborts, WriteOwner, Wake, GwDies, world
  <2> QED
    BY <1>1, <2>1
<1> QED
  BY <1>2, <1>3, <1>4, <1>5, <1>6, <1>7

(* No arc makes or revives one.                                            *)
LEMMA WorldSessions ==
  ASSUME RunTypeOK, NEW s \in Sessions,
         ArcBegins(s) \/ ArcAdvances(s) \/ ArcEnds(s) \/ SessionDies(s)
  PROVE  /\ DOMAIN session' = Sessions
         /\ \A t \in Sessions :
              /\ session'[t] # "absent" => session[t] # "absent"
              /\ session'[t] \in Live => session[t] \in Live
<1>0. DOMAIN session = Sessions
  BY DEF RunTypeOK, SessionsOK
<1>1. CASE session' = session
  BY <1>0, <1>1
<1>2. CASE ArcBegins(s)
  <2>1. session' = [session EXCEPT ![s] = "working"] /\ session[s] \in {"fresh", "resume"}
    BY <1>2 DEF ArcBegins
  <2> QED
    BY <1>0, <2>1 DEF Live
<1>3. CASE SessionDies(s)
  <2>1. PICK left \in {"stale", "absent"} : session' = [session EXCEPT ![s] = left]
    BY <1>3 DEF SessionDies
  <2>2. session[s] # "absent"
    BY <1>3 DEF SessionDies, Live
  <2> QED
    BY <1>0, <2>1, <2>2 DEF Live
<1> QED
  BY <1>1, <1>2, <1>3 DEF ArcAdvances, ArcEnds

(* Sessions stay within the batches.                                       *)
LEMMA NextSessions == RunTypeOK /\ [Next]_vars => SessionsOK'
<1> SUFFICES ASSUME RunTypeOK, [Next]_vars PROVE SessionsOK'
  OBVIOUS
<1>0. SessionsOK /\ ProcsOK
  BY DEF RunTypeOK
<1>1. ASSUME NEW g \in Gws, Step(g) PROVE SessionsOK'
  <2>1. UNCHANGED batch
    BY <1>1
    DEF Step, CheckOwner, OpenLock, Flock, UnlinkLock, CloseLock, Start, Begin, StartFails, Adopt,
        Decide, FindDone, TimeIsUp, Spawn, SpawnAborts, SpawnFails, WriteOwner, Dispatch, Return,
        Wake, GwDies
  <2>2. ASSUME Spawn(g) \/ SpawnFails(g) PROVE Own(g)[2] \in 1 .. Len(batch[Own(g)[1]])
    <3>1. pc[g] \notin Gone
      BY <2>2 DEF Spawn, SpawnFails, Gone
    <3> QED
      BY <1>0, <3>1, OwnFacts
  <2> QED
    BY <1>0, <1>1, <2>1, <2>2, NewSessions DEF SessionsOK
<1>2. ASSUME NEW s \in Sessions,
             ArcBegins(s) \/ ArcAdvances(s) \/ ArcEnds(s) \/ SessionDies(s)
      PROVE  SessionsOK'
  <2>1. UNCHANGED batch
    BY <1>2 DEF ArcBegins, ArcAdvances, ArcEnds, SessionDies, WorldOnly
  <2> QED
    BY <1>0, <1>2, <2>1, WorldSessions DEF SessionsOK
<1>3. CASE UNCHANGED vars
  BY <1>0, <1>3 DEF SessionsOK, vars, world
<1> QED
  BY <1>1, <1>2, <1>3 DEF Next, World

(* A set of phases has its first, and First finds it.                      *)
LEMMA FirstIsMember ==
  ASSUME NEW S, S \subseteq Phases
  PROVE  IF S = {} THEN First(S) = 0
         ELSE First(S) \in S /\ First(S) # 0 /\ \A q \in S : First(S) <= q
<1>1. CASE S = {}
  BY <1>1 DEF First
<1>2. CASE S # {}
  <2>1. \A x \in S : x \in Nat \ {0}
    BY PhaseAssumption DEF PhaseAssumption, Phases
  <2>2. \E x \in S : \A y \in S : x <= y
    <3> DEFINE R == OpToRel(<, Nat)
    <3>1. IsWellFoundedOn(R, Nat)
      BY NatLessThanWellFounded
    <3>2. PICK x \in S : \A y \in S : ~ (<<y, x>> \in R)
      BY <1>2, <2>1, <3>1, WFMin
    <3>3. \A y \in S : y < x => <<y, x>> \in R
      BY <2>1, <3>2 DEF OpToRel
    <3>4. \A y \in S : y \in Nat /\ x \in Nat /\ ~(y < x)
      BY <2>1, <3>2, <3>3
    <3>5. \A y \in S : x <= y
      BY <3>4
    <3> QED
      BY <3>5
  <2>3. First(S) = Min(S)
    BY <1>2 DEF First
  <2>4. Min(S) \in S /\ \A y \in S : Min(S) <= y
    BY <2>2 DEF Min
  <2> QED
    BY <1>2, <2>1, <2>3, <2>4
<1> QED
  BY <1>1, <1>2

(* The checkpoints that an arc writes.                                     *)
LEMMA NewArcType == NewArc \in Checkpoints
<1>1. PhaseCount \in Phases
  BY PhaseAssumption DEF PhaseAssumption, Phases
<1> QED
  BY <1>1 DEF NewArc, Checkpoints, Statuses

(* One step on.                                                            *)
LEMMA ArcStepType ==
  ASSUME NEW c \in Checkpoints
  PROVE  ArcStep(c) \in Checkpoints
<1> DEFINE running == First(With(c, "in_progress"))
           next == First(Actionable(c))
<1>0. With(c, "in_progress") \subseteq Phases /\ Actionable(c) \subseteq Phases
  BY DEF With, Actionable
<1>1. running = 0 \/ running \in Phases
  BY <1>0, FirstIsMember
<1>2. next = 0 \/ next \in Phases
  BY <1>0, FirstIsMember
<1>3. ArcStep(c) = CASE running # 0 -> [c EXCEPT !.status[running] = "completed"]
                     [] running = 0 /\ next # 0 -> [c EXCEPT !.status[next] = "in_progress"]
                     [] OTHER -> [c EXCEPT !.finished = TRUE]
  BY DEF ArcStep
<1> HIDE DEF running, next
<1>4. ASSUME NEW p \in Phases, NEW st \in Statuses
      PROVE  [c EXCEPT !.status[p] = st] \in Checkpoints
  BY DEF Checkpoints
<1>5. [c EXCEPT !.finished = TRUE] \in Checkpoints
  BY DEF Checkpoints
<1>6. "completed" \in Statuses /\ "in_progress" \in Statuses
  BY DEF Statuses
<1>7. CASE running # 0
  BY <1>1, <1>3, <1>4, <1>6, <1>7
<1>8. CASE running = 0 /\ next # 0
  BY <1>2, <1>3, <1>4, <1>6, <1>8
<1>9. CASE running = 0 /\ next = 0
  BY <1>3, <1>5, <1>9
<1> QED
  BY <1>7, <1>8, <1>9

(* The files stay well typed.                                              *)
LEMMA StepFiles ==
  ASSUME RunTypeOK, NEW g \in Gws, Step(g)
  PROVE  FilesOK' /\ faults' \in Nat
<1>0. ProcsOK /\ LocalsOK(g) /\ FilesOK /\ faults \in Nat
  BY DEF RunTypeOK, ProcsOK
<1>1. cp' = cp /\ loop' \in {loop, None}
  BY DEF Step, CheckOwner, OpenLock, Flock, UnlinkLock, CloseLock, Start, Begin, StartFails, Adopt,
        Decide, FindDone, TimeIsUp, Spawn, SpawnAborts, SpawnFails, WriteOwner, Dispatch, Return,
        Wake, GwDies, world
<1>2. owner' \in OwnerFile \cup {None}
  <2>1. CASE Adopt(g) \/ WriteOwner(g)
    <3>1. pc[g] \notin Gone
      BY <2>1 DEF Adopt, WriteOwner, Gone
    <3>2. Own(g) \in Sessions /\ Plan(g) \in Plans /\ gw[g].adopts \in Sessions \cup {None}
      BY <1>0, <3>1, OwnFacts DEF LocalsOK
    <3>3. \/ owner' = owner
          \/ owner' = [gw |-> g, session |-> Own(g), plan |-> Plan(g)]
          \/ owner' = [gw |-> g, session |-> gw[g].adopts, plan |-> Plan(g)] /\ gw[g].adopts # None
      BY <2>1 DEF Adopt, WriteOwner
    <3> QED
      BY <1>0, <3>2, <3>3 DEF FilesOK, OwnerFile
  <2>2. Succeed(g) => owner' = None
    BY DEF Succeed
  <2>3. ASSUME NEW v, NEW d, NEW lost,
               AfterCrash(g, v, d) \/ AfterError(g, d, lost) \/ After(g, v, d, lost)
        PROVE  owner' = owner \/ owner' = None
    <3>1. AfterCrash(g, v, d) => owner' = owner
      BY DEF AfterCrash
    <3>2. AfterError(g, d, lost) => owner' = owner
      BY DEF AfterError
    <3> QED
      BY <2>2, <2>3, <3>1, <3>2 DEF After
  <2>4. Return(g) => owner' \in {owner, None}
    BY <2>3 DEF Return
  <2>5. SpawnFails(g) => owner' \in {owner, None}
    BY <2>3 DEF SpawnFails
  <2>6. CASE ~(Adopt(g) \/ WriteOwner(g) \/ Return(g) \/ SpawnFails(g))
    <3>1. owner' = owner \/ owner' = None
      BY <2>2, <2>6
      DEF Step, CheckOwner, OpenLock, Flock, UnlinkLock, CloseLock, Start, StartClean,
          StartKilling, Begin, StartFails, Decide, FindDone, TimeIsUp, Spawn, SpawnAborts,
          Dispatch, Wake, GwDies
    <3> QED
      BY <1>0, <3>1 DEF FilesOK
  <2> QED
    BY <1>0, <2>1, <2>4, <2>5, <2>6 DEF FilesOK
<1>3. faults' \in Nat
  <2>1. CASE Return(g)
    BY <1>0, <2>1 DEF Return
  <2>2. CASE ~Return(g)
    <3>1. faults' = faults \/ faults' = faults + 1
      BY <2>2
      DEF Step, CheckOwner, OpenLock, Flock, UnlinkLock, CloseLock, Start, StartClean,
          StartKilling, Begin, StartFails, Adopt, Decide, FindDone, TimeIsUp, Spawn, SpawnAborts,
          SpawnFails, WriteOwner, Dispatch, Wake, GwDies, Fault, NoFault
    <3> QED
      BY <1>0, <3>1
  <2> QED
    BY <2>1, <2>2
<1> QED
  BY <1>0, <1>1, <1>2, <1>3 DEF FilesOK

(* The arcs' files, too.                                                   *)
LEMMA WorldFiles ==
  ASSUME RunTypeOK, NEW s \in Sessions,
         ArcBegins(s) \/ ArcAdvances(s) \/ ArcEnds(s) \/ SessionDies(s)
  PROVE  FilesOK' /\ faults' \in Nat
<1>0. /\ ProcsOK /\ FilesOK /\ faults \in Nat /\ UNCHANGED <<owner, faults>>
      /\ session[s] \in Live => PlanOf(s) \in Plans
  <2>1. session[s] \in Live => s[2] \in 1 .. Len(batch[s[1]]) /\ s[1] \in Gws
    BY DEF Live, RunTypeOK, SessionsOK, Sessions
  <2> QED
    BY <2>1, BatchFacts DEF RunTypeOK, ProcsOK, PlanOf, ArcBegins, ArcAdvances, ArcEnds, SessionDies,
       WorldOnly
<1>1. CASE ArcBegins(s)
  <2>1. /\ loop' = [plan |-> PlanOf(s), active |-> TRUE] /\ PlanOf(s) \in Plans
        /\ cp' = cp \/ cp' = [cp EXCEPT ![PlanOf(s)] = None]
    BY <1>0, <1>1 DEF ArcBegins, Live
  <2> QED
    BY <1>0, <2>1 DEF FilesOK, LoopFile
<1>2. CASE ArcAdvances(s)
  <2>1. PlanOf(s) \in Plans /\ loop' = loop
    BY <1>0, <1>2 DEF ArcAdvances, Live
  <2>2. \E c \in Checkpoints : cp' = [cp EXCEPT ![PlanOf(s)] = c]
    <3>1. cp' = [cp EXCEPT ![PlanOf(s)] = IF cp[PlanOf(s)] = None THEN NewArc
                                          ELSE ArcStep(cp[PlanOf(s)])]
      BY <1>2 DEF ArcAdvances
    <3> QED
      BY <1>0, <2>1, <3>1, NewArcType, ArcStepType DEF FilesOK
  <2> QED
    BY <1>0, <2>1, <2>2 DEF FilesOK
<1>3. CASE ArcEnds(s)
  <2>1. cp' = cp /\ (loop' = None \/ loop' = [loop EXCEPT !.active = FALSE]) /\ loop # None
    BY <1>3 DEF ArcEnds
  <2> QED
    BY <1>0, <2>1 DEF FilesOK, LoopFile
<1>4. CASE SessionDies(s)
  BY <1>0, <1>4 DEF SessionDies, FilesOK
<1> QED
  BY <1>1, <1>2, <1>3, <1>4

(* Nothing has happened.                                                   *)
LEMMA InitRunTypes == Init => RunTypeOK
<1> SUFFICES ASSUME Init PROVE RunTypeOK
  OBVIOUS
<1>1. /\ batch \in Batches /\ DOMAIN pc = Gws /\ gw = [g \in Gws |-> Locals]
      /\ \A g \in Gws : pc[g] = IF batch[g] = <<>> THEN "ended" ELSE "check"
  BY DEF Init
<1>2. ASSUME NEW g \in Gws PROVE LocalsOK(g)
  <2>1. pc[g] \notin Gone => 1 \in 1 .. Len(batch[g])
    BY <1>1, BatchFacts DEF Gone
  <2> QED
    BY <1>1, <2>1, LocalsFacts DEF LocalsOK
<1>3. SessionsOK /\ FilesOK /\ faults \in Nat
  BY DEF Init, SessionsOK, FilesOK
<1> QED
  BY <1>1, <1>2, <1>3 DEF RunTypeOK, ProcsOK

(* The types are inductive.                                                *)
LEMMA NextRunTypes == RunTypeOK /\ [Next]_vars => RunTypeOK'
<1> SUFFICES ASSUME RunTypeOK, [Next]_vars PROVE RunTypeOK'
  OBVIOUS
<1>1. SessionsOK'
  BY NextSessions
<1>2. CASE UNCHANGED vars
  BY <1>2 DEF RunTypeOK, ProcsOK, LocalsOK, SessionsOK, FilesOK, vars, world
<1>3. CASE Next
  BY <1>1, <1>3, StepProcs, WorldProcs, StepFiles, WorldFiles DEF RunTypeOK, Next, World
<1> QED
  BY <1>2, <1>3

----------------------------------------------------------------------------
(* What a step leaves alone.                                               *)

(* Where an attempt ends, a gw goes on in one of three ways.               *)
LEMMA ThreeWays ==
  ASSUME NEW g \in Gws, Return(g) \/ SpawnFails(g)
  PROVE  Succeed(g) \/ Fail(g) \/ \E det, d, next : Restart(g, det, d, next)
<1>1. ASSUME NEW v, NEW d, AfterCrash(g, v, d)
      PROVE  Fail(g) \/ \E det, next : Restart(g, det, d, next)
  BY <1>1 DEF AfterCrash
<1>2. ASSUME NEW d, NEW lost, AfterError(g, d, lost)
      PROVE  Fail(g) \/ \E det, next : Restart(g, det, d, next)
  BY <1>2 DEF AfterError
<1>3. CASE SpawnFails(g)
  <2>1. AfterCrash(g, "crashed", 0)
    BY <1>3 DEF SpawnFails
  <2> QED
    BY <1>1, <2>1
<1>4. CASE Return(g)
  <2>1. PICK v, d, lost : After(g, v, d, lost)
    BY <1>4, Zenon DEF Return
  <2>2. Succeed(g) \/ Fail(g) \/ AfterError(g, d, lost) \/ AfterCrash(g, v, d)
    BY <2>1 DEF After
  <2> QED
    BY <1>1, <1>2, <2>2
<1> QED
  BY <1>3, <1>4

(* A step of one gw is no step of another.                                 *)
LEMMA StepFrame ==
  ASSUME RunTypeOK, NEW g \in Gws, Step(g)
  PROVE  /\ UNCHANGED batch
         /\ \A h \in Gws : h # g => /\ pc'[h] = pc[h] /\ gw'[h] = gw[h]
                                    /\ Own(h)' = Own(h) /\ Plan(h)' = Plan(h)
                                    /\ Watched(h)' = Watched(h)
<1>0. DOMAIN pc = Gws /\ DOMAIN gw = Gws
  BY DEF RunTypeOK, ProcsOK
<1>1. UNCHANGED batch
    BY DEF Step, CheckOwner, OpenLock, Flock, UnlinkLock, CloseLock, Start, Begin, StartFails, Adopt,
        Decide, FindDone, TimeIsUp, Spawn, SpawnAborts, SpawnFails, WriteOwner, Dispatch, Return,
        Wake, GwDies
<1>2. ASSUME Succeed(g) \/ Fail(g) \/ \E det, d, next : Restart(g, det, d, next),
             NEW h \in Gws, h # g
      PROVE  pc'[h] = pc[h] /\ gw'[h] = gw[h]
  <2>1. ASSUME Succeed(g) \/ Fail(g) PROVE pc'[h] = pc[h] /\ gw'[h] = gw[h]
    BY <1>0, <1>2, <2>1 DEF Succeed, Fail, Goto
  <2>2. ASSUME NEW det, NEW d, NEW next, Restart(g, det, d, next)
        PROVE  pc'[h] = pc[h] /\ gw'[h] = gw[h]
    BY <1>0, <1>2, <2>2 DEF Restart, Goto
  <2> QED
    BY <1>2, <2>1, <2>2
<1>3. ASSUME NEW h \in Gws, h # g PROVE pc'[h] = pc[h] /\ gw'[h] = gw[h]
  <2>1. CASE Start(g)
    <3>1. PICK a : Begin(g, a)
      BY <2>1 DEF Start
    <3> QED
      BY <1>0, <1>3, <3>1 DEF Begin, Goto
  <2>2. CASE FindDone(g) \/ TimeIsUp(g) \/ SpawnAborts(g) \/ SpawnFails(g) \/ Return(g)
    BY <1>2, <1>3, <2>2, ThreeWays DEF FindDone, TimeIsUp, SpawnAborts
  <2>3. CASE ~(Start(g) \/ FindDone(g) \/ TimeIsUp(g) \/ SpawnAborts(g) \/ SpawnFails(g) \/ Return(g))
    BY <1>0, <1>3, <2>3
    DEF Step, CheckOwner, OpenLock, Flock, UnlinkLock, CloseLock, StartFails, Adopt, Decide, Spawn,
        WriteOwner, Dispatch, Wake, GwDies, Goto
  <2> QED
    BY <2>1, <2>2, <2>3
<1> QED
  BY <1>1, <1>3 DEF Own, Plan, Watched

(* The arcs move no gw.                                                    *)
LEMMA WorldFrame ==
  ASSUME RunTypeOK, NEW s \in Sessions,
         ArcBegins(s) \/ ArcAdvances(s) \/ ArcEnds(s) \/ SessionDies(s)
  PROVE  /\ UNCHANGED <<batch, pc, lockFile, owner, history, faults, strays>>
         /\ DOMAIN gw' = Gws
         /\ \A h \in Gws : /\ gw'[h].adopts = gw[h].adopts /\ gw'[h].index = gw[h].index
                           /\ gw'[h].inode = gw[h].inode /\ gw'[h].det = gw[h].det
                           /\ gw'[h].done = gw[h].done
                           /\ Own(h)' = Own(h) /\ Plan(h)' = Plan(h) /\ Watched(h)' = Watched(h)
<1>1. UNCHANGED <<batch, pc, lockFile, owner, history, faults, strays>>
  BY DEF ArcBegins, ArcAdvances, ArcEnds, SessionDies, WorldOnly
<1>2. Noticed \/ gw' = gw
  BY DEF ArcBegins, ArcAdvances, ArcEnds, SessionDies
<1>3. DOMAIN gw' = Gws
  BY <1>2 DEF Noticed, RunTypeOK, ProcsOK
<1>4. ASSUME NEW h \in Gws PROVE \A f \in Fields \ {"reads"} : gw'[h][f] = gw[h][f]
  <2>1. gw'[h] = gw[h] \/ \E p : gw'[h] = [gw[h] EXCEPT !.reads = p]
    BY <1>2 DEF Noticed
  <2>2. DOMAIN gw[h] = Fields
    BY DEF RunTypeOK, ProcsOK, LocalsOK
  <2> QED
    BY <2>1, <2>2
<1>5. ASSUME NEW h \in Gws
      PROVE /\ gw'[h].adopts = gw[h].adopts /\ gw'[h].index = gw[h].index
            /\ gw'[h].inode = gw[h].inode /\ gw'[h].det = gw[h].det
            /\ gw'[h].done = gw[h].done
  BY <1>4 DEF Fields
<1> QED
  BY <1>1, <1>3, <1>4, <1>5 DEF Own, Plan, Watched

----------------------------------------------------------------------------
(* The lock.                                                               *)

(* One `gw run' and another.                                               *)
AtMostTwo == \A g, h, k \in Gws : g = h \/ h = k \/ g = k

(* Who has the lock file open, and its path is not yet removed.            *)
Opened == {"lock"} \cup (Holding \ {"close"})

(* Whose file has no name any more.                                        *)
Over == {"close"} \cup Gone

(* All that have the file open have the one the path names, and one of     *)
(* them drives, until somebody unlinks it.                                 *)
LockInv ==
    /\ \A g \in Gws :
          pc[g] \in Opened =>
             /\ gw[g].inode # 0
             /\ lockFile = gw[g].inode \/ \E h \in Gws : pc[h] \in Over
    /\ \A g, h \in Gws :
          pc[g] \in Opened /\ pc[h] \in Opened => gw[g].inode = gw[h].inode
    /\ \A g, h \in Gws :
          pc[g] \in Opened \ {"lock"} /\ pc[h] \in Opened \ {"lock"} => g = h

(* A gw that holds the lock keeps the file it opened.                      *)
LEMMA StepLock ==
  ASSUME RunTypeOK, NEW g \in Gws, Step(g), ~OpenLock(g), ~UnlinkLock(g)
  PROVE  /\ lockFile' = lockFile
         /\ pc'[g] \in Opened => pc[g] \in Opened /\ gw'[g].inode = gw[g].inode
         /\ pc'[g] \in Opened \ {"lock"} => pc[g] \in Opened \ {"lock"} \/ Flock(g)
         /\ pc[g] \in Over => pc'[g] \in Over
<1>0. DOMAIN pc = Gws /\ DOMAIN gw = Gws /\ DOMAIN gw[g] = Fields /\ "inode" \in Fields
  BY DEF RunTypeOK, ProcsOK, LocalsOK, Fields
<1>1. lockFile' = lockFile
  BY DEF Step, CheckOwner, Flock, CloseLock, Start, Begin, StartFails, Adopt, Decide, FindDone,
        TimeIsUp, Spawn, SpawnAborts, SpawnFails, WriteOwner, Dispatch, Return, Wake, GwDies
<1>2. ASSUME Succeed(g) \/ Fail(g) \/ \E det, d, next : Restart(g, det, d, next)
      PROVE  gw'[g].inode = gw[g].inode
  <2>1. ASSUME Succeed(g) \/ Fail(g) PROVE gw'[g].inode = gw[g].inode
    <3>1. DOMAIN Left(g) = Fields /\ Left(g).inode = gw[g].inode
      BY LocalsFacts
    <3> QED
      BY <1>0, <2>1, <3>1 DEF Succeed, Fail
  <2>2. ASSUME NEW det, NEW d, NEW next, Restart(g, det, d, next)
        PROVE  gw'[g].inode = gw[g].inode
    BY <1>0, <2>2 DEF Restart
  <2> QED
    BY <1>2, <2>1, <2>2
<1>3. CASE Start(g)
  <2>1. PICK a : Begin(g, a)
    BY <1>3 DEF Start
  <2> QED
    BY <1>0, <1>1, <1>3, <2>1 DEF Begin, Goto, Start, Opened, Holding, Over, Gone
<1>4. CASE FindDone(g) \/ TimeIsUp(g) \/ SpawnAborts(g) \/ SpawnFails(g) \/ Return(g)
  <2>1. pc[g] \in {"decide", "spawn", "dispatch", "watch"}
    BY <1>4 DEF FindDone, TimeIsUp, SpawnAborts, SpawnFails, Return
  <2>2. gw'[g].inode = gw[g].inode
    BY <1>2, <1>4, ThreeWays DEF FindDone, TimeIsUp, SpawnAborts
  <2> QED
    BY <1>1, <2>1, <2>2 DEF Opened, Holding, Over, Gone
<1>5. CASE ~(Start(g) \/ FindDone(g) \/ TimeIsUp(g) \/ SpawnAborts(g) \/ SpawnFails(g) \/ Return(g))
  BY <1>0, <1>1, <1>5
  DEF Step, CheckOwner, Flock, CloseLock, StartFails, Adopt, Decide, Spawn,
      WriteOwner, Dispatch, Wake, GwDies, Goto, Opened, Holding, Over, Gone, Driving
<1> QED
  BY <1>3, <1>4, <1>5

(* With two processes, at most one is in its run.                          *)
LEMMA StepLockInv ==
  ASSUME AtMostTwo, RunTypeOK, LockInv, NEW g \in Gws, Step(g)
  PROVE  LockInv'
<1>0. \A h \in Gws : h # g => pc'[h] = pc[h] /\ gw'[h] = gw[h]
  BY StepFrame
<1>1. CASE OpenLock(g)
  <2>0. DOMAIN pc = Gws /\ DOMAIN gw = Gws /\ DOMAIN gw[g] = Fields /\ "inode" \in Fields
    BY DEF RunTypeOK, ProcsOK, LocalsOK, Fields
  <2>1. /\ pc'[g] = "lock" /\ pc[g] = "open" /\ gw'[g].inode = lockFile'
        /\ lockFile' = IF lockFile = 0 THEN g ELSE lockFile
    BY <1>1, <2>0 DEF OpenLock, Goto
  <2>2. g # 0 /\ lockFile' # 0
    BY <2>1, GwAssumption DEF GwAssumption
  <2>3. ASSUME NEW h \in Gws, h # g, pc[h] \in Opened
        PROVE  lockFile = gw[h].inode /\ gw[h].inode # 0
    <3>1. \A k \in Gws : k = g \/ k = h
      BY <2>3 DEF AtMostTwo
    <3>2. \A k \in Gws : pc[k] \notin Over
      BY <2>1, <2>3, <3>1 DEF Over, Opened, Holding, Gone
    <3> QED
      BY <2>3, <3>2 DEF LockInv
  <2>4. ASSUME NEW h \in Gws, pc'[h] \in Opened PROVE gw'[h].inode = lockFile'
    <3>1. CASE h = g
      BY <2>1, <3>1
    <3>2. CASE h # g
      BY <1>0, <2>1, <2>3, <2>4, <3>2
    <3> QED
      BY <3>1, <3>2
  <2>5. ASSUME NEW h \in Gws, pc'[h] \in Opened \ {"lock"} PROVE h # g /\ pc[h] \in Opened \ {"lock"}
    BY <1>0, <2>1, <2>5
  <2> QED
    BY <2>2, <2>4, <2>5 DEF LockInv
<1>2. CASE UnlinkLock(g)
  <2>1. pc'[g] = "close" /\ gw' = gw
    BY <1>2 DEF UnlinkLock, Goto, RunTypeOK, ProcsOK
  <2>2. "close" \in Over /\ "close" \notin Opened
    BY DEF Over, Opened, Gone
  <2>3. ASSUME NEW h \in Gws, pc'[h] \in Opened PROVE pc[h] = pc'[h] /\ h # g
    BY <1>0, <2>1, <2>2, <2>3
  <2> QED
    BY <2>1, <2>2, <2>3 DEF LockInv
<1>3. CASE ~OpenLock(g) /\ ~UnlinkLock(g)
  <2>1. /\ lockFile' = lockFile
        /\ pc'[g] \in Opened => pc[g] \in Opened /\ gw'[g].inode = gw[g].inode
        /\ pc'[g] \in Opened \ {"lock"} => pc[g] \in Opened \ {"lock"} \/ Flock(g)
        /\ pc[g] \in Over => pc'[g] \in Over
    BY <1>3, StepLock
  <2>2. \A h \in Gws : pc'[h] \in Opened => pc[h] \in Opened /\ gw'[h].inode = gw[h].inode
    BY <1>0, <2>1
  <2>3. \A h \in Gws : pc[h] \in Over => pc'[h] \in Over
    BY <1>0, <2>1
  <2>4. ASSUME Flock(g), NEW h \in Gws, h # g, pc[h] \in Opened \ {"lock"} PROVE FALSE
    <3>1. pc[g] \in Opened /\ ~Held(gw[g].inode)
      BY <2>4 DEF Flock, Opened
    <3>2. gw[h].inode = gw[g].inode
      BY <2>4, <3>1 DEF LockInv
    <3> QED
      BY <2>4, <3>1, <3>2 DEF Held, Opened
  <2>5. ASSUME NEW h \in Gws, NEW k \in Gws,
               pc'[h] \in Opened \ {"lock"}, pc'[k] \in Opened \ {"lock"}, h # k
        PROVE  FALSE
    <3>1. (pc[h] \in Opened \ {"lock"} \/ (h = g /\ Flock(g)))
          /\ (pc[k] \in Opened \ {"lock"} \/ (k = g /\ Flock(g)))
      BY <1>0, <2>1, <2>5
    <3> QED
      BY <2>4, <2>5, <3>1 DEF LockInv
  <2>6. /\ \A h \in Gws : pc'[h] \in Opened =>
              gw'[h].inode # 0 /\ (lockFile' = gw'[h].inode \/ \E k \in Gws : pc'[k] \in Over)
        /\ \A h, k \in Gws :
              pc'[h] \in Opened /\ pc'[k] \in Opened => gw'[h].inode = gw'[k].inode
    BY <2>1, <2>2, <2>3 DEF LockInv
  <2> QED
    BY <2>5, <2>6 DEF LockInv
<1> QED
  BY <1>1, <1>2, <1>3

(* The lock excludes two processes, though not three: the second removes   *)
(* the file the first has made anew.                                       *)
THEOREM LockExcludesTwo == AtMostTwo => (Spec => []InstanceExclusive)
<1> SUFFICES ASSUME AtMostTwo PROVE Spec => []InstanceExclusive
  OBVIOUS
<1>1. Init => RunTypeOK /\ LockInv
  <2>1. Init => \A g \in Gws : pc[g] \notin Opened
    BY DEF Init, Opened, Holding
  <2> QED
    BY <2>1, InitRunTypes DEF LockInv
<1>2. RunTypeOK /\ LockInv /\ [Next]_vars => (RunTypeOK /\ LockInv)'
  <2> SUFFICES ASSUME RunTypeOK, LockInv, [Next]_vars PROVE LockInv'
    BY NextRunTypes
  <2>1. CASE UNCHANGED vars
    BY <2>1 DEF vars, LockInv
  <2>2. ASSUME NEW g \in Gws, Step(g) PROVE LockInv'
    BY <2>2, StepLockInv
  <2>3. ASSUME NEW s \in Sessions, ArcBegins(s) \/ ArcAdvances(s) \/ ArcEnds(s) \/ SessionDies(s)
        PROVE  LockInv'
    <3>1. pc' = pc /\ lockFile' = lockFile /\ \A h \in Gws : gw'[h].inode = gw[h].inode
      BY <2>3, WorldFrame
    <3> QED
      BY <3>1 DEF LockInv
  <2> QED
    BY <2>1, <2>2, <2>3 DEF Next, World
<1>3. RunTypeOK /\ LockInv => InstanceExclusive
  BY DEF LockInv, InstanceExclusive, Opened, Holding, Driving
<1> QED
  BY <1>1, <1>2, <1>3, PTL DEF Spec

----------------------------------------------------------------------------
(* Sessions and their record.                                              *)

(* The owner file names the session.                                       *)
Owned(s) == owner # None /\ owner.session = s

(* Who drives a run knows of every session that works; what it adopts is   *)
(* on record.                                                              *)
Watches(g) ==
    /\ \A s \in Sessions \ strays : session[s] \in Live => s = Watched(g)
    /\ pc[g] = "decide" /\ gw[g].adopts # None => Owned(gw[g].adopts)
    /\ pc[g] \notin {"decide", "watch"} => gw[g].adopts = None

OnlyWatched == \A g \in Gws : pc[g] \in Driving => Watches(g)

(* The sessions' part of the invariant.                                    *)
SessionInv == LiveSessionIsOwned /\ OnlyWatched

(* While one gw drives, the invariant is about it alone.                   *)
LEMMA AloneBefore ==
  ASSUME SessionInv, InstanceExclusive, NEW g \in Gws, pc[g] \in Driving
  PROVE  /\ Watches(g)
         /\ \A h \in Gws : h # g => pc[h] \notin Driving
         /\ \A s \in Sessions \ strays :
               session[s] \in Live => Owned(s) \/ (pc[g] = "own" /\ Own(g) = s)
<1>1. Watches(g) /\ \A h \in Gws : h # g => pc[h] \notin Driving
  BY DEF SessionInv, OnlyWatched, InstanceExclusive
<1>2. ASSUME NEW s \in Sessions \ strays, session[s] \in Live
      PROVE  Owned(s) \/ (pc[g] = "own" /\ Own(g) = s)
  <2>1. s[1] \in Gws
    BY DEF Sessions
  <2>2. Owned(s) \/ (pc[s[1]] = "own" /\ Own(s[1]) = s)
    BY <1>2 DEF SessionInv, LiveSessionIsOwned, Owned
  <2> QED
    BY <1>1, <2>1, <2>2 DEF Driving
<1> QED
  BY <1>1, <1>2

(* And afterwards.                                                         *)
LEMMA AloneAfter ==
  ASSUME NEW g \in Gws,
         \A h \in Gws : h # g => pc'[h] \notin Driving,
         \A s \in Sessions \ strays' :
            session'[s] \in Live => Owned(s)' \/ (pc'[g] = "own" /\ Own(g)' = s /\ s[1] = g),
         pc'[g] \in Driving => Watches(g)'
  PROVE  SessionInv'
<1>1. OnlyWatched'
  BY DEF OnlyWatched
<1>2. LiveSessionIsOwned'
  BY DEF LiveSessionIsOwned, Owned
<1> QED
  BY <1>1, <1>2 DEF SessionInv

(* A step outside the run.                                                 *)
LEMMA OutsideKeeps ==
  ASSUME RunTypeOK, SessionInv, NEW g \in Gws,
         CheckOwner(g) \/ OpenLock(g) \/ Flock(g) \/ UnlinkLock(g) \/ CloseLock(g) \/ StartFails(g)
  PROVE  SessionInv'
<1>1. /\ UNCHANGED <<session, owner, strays>>
      /\ pc[g] \notin Driving /\ pc'[g] \notin Driving
  BY DEF CheckOwner, OpenLock, Flock, UnlinkLock, CloseLock, StartFails, Goto, Driving, world,
     RunTypeOK, ProcsOK
<1>2. \A h \in Gws : h # g => /\ pc'[h] = pc[h] /\ gw'[h] = gw[h]
                              /\ Own(h)' = Own(h) /\ Watched(h)' = Watched(h)
  <2>1. Step(g)
    BY DEF Step
  <2> QED
    BY <2>1, StepFrame
<1>3. OnlyWatched'
  <2>1. ASSUME NEW h \in Gws, pc'[h] \in Driving PROVE Watches(h)'
    <3>1. h # g /\ Watches(h)
      BY <1>1, <1>2, <2>1 DEF SessionInv, OnlyWatched
    <3> QED
      BY <1>1, <1>2, <3>1 DEF Watches, Owned
  <2> QED
    BY <2>1 DEF OnlyWatched
<1>4. ASSUME NEW s \in Sessions \ strays', session'[s] \in Live
      PROVE  Owned(s)' \/ (pc'[s[1]] = "own" /\ Own(s[1])' = s)
  <2>1. s[1] \in Gws
    BY DEF Sessions
  <2>2. Owned(s) \/ (pc[s[1]] = "own" /\ Own(s[1]) = s)
    BY <1>1, <1>4 DEF SessionInv, LiveSessionIsOwned, Owned
  <2>3. Owned(s)' <=> Owned(s)
    BY <1>1 DEF Owned
  <2> QED
    BY <1>1, <1>2, <2>1, <2>2, <2>3 DEF Driving
<1> QED
  BY <1>3, <1>4 DEF SessionInv, LiveSessionIsOwned, Owned

(* What Begin leaves of the locals.                                        *)
LEMMA BeginLeaves ==
  ASSUME ProcsOK, NEW g \in Gws, NEW a, Begin(g, a)
  PROVE  /\ pc'[g] = "decide" /\ gw'[g].adopts = a
         /\ gw'[g].det = Loaded(history) /\ gw'[g].index = gw[g].index
<1>1. DOMAIN gw[g] = Fields /\ DOMAIN gw = Gws /\ DOMAIN pc = Gws
  BY DEF ProcsOK, LocalsOK
<1> QED
  BY <1>1 DEF Begin, Goto, Fields

(* The start of a run: the orphan on record is adopted, killed or given up.*)
LEMMA StartKeeps ==
  ASSUME RunTypeOK, SessionInv, InstanceExclusive', NEW g \in Gws, Start(g)
  PROVE  SessionInv'
<1>1. PICK swept \in Sweeps :
         LET sess == Cleaned(session, swept)
         IN  \/ (StartClean(g, sess) \/ StartKilling(g, sess)) /\ Begin(g, None)
             \/ /\ owner # None /\ Adoptable(g, sess)
                /\ Begin(g, owner.session)
                /\ session' = sess
                /\ NoFault /\ UNCHANGED <<owner, strays>>
  BY DEF Start
<1> DEFINE sess == Cleaned(session, swept)
<1>2. \A s \in Sessions : sess[s] \in Live => session[s] \in Live
  BY DEF Cleaned, Live
<1>3. DOMAIN sess = Sessions
  BY DEF Cleaned
<1>4. \/ (StartClean(g, sess) \/ StartKilling(g, sess)) /\ Begin(g, None)
      \/ /\ owner # None /\ Begin(g, owner.session)
         /\ session' = sess /\ UNCHANGED <<owner, strays>>
  BY <1>1
<1> HIDE DEF sess
<1>5. pc'[g] = "decide" /\ pc[g] = "start"
  BY <1>4, BeginLeaves DEF Start, RunTypeOK
<1>6. \A h \in Gws : h # g => pc'[h] = pc[h] /\ pc'[h] \notin Driving
  <2>1. Step(g)
    BY DEF Step
  <2> QED
    BY <1>5, <2>1, StepFrame DEF InstanceExclusive, Driving
<1>7. ASSUME NEW s \in Sessions \ strays, session[s] \in Live PROVE Owned(s)
  <2>1. s[1] \in Gws
    BY DEF Sessions
  <2>2. pc[s[1]] # "own"
    BY <1>5, <1>6, <2>1 DEF Driving
  <2> QED
    BY <1>7, <2>2 DEF SessionInv, LiveSessionIsOwned, Owned
<1>8. CASE (StartClean(g, sess) \/ StartKilling(g, sess)) /\ Begin(g, None)
  <2>1. gw'[g].adopts = None
    BY <1>8, BeginLeaves DEF RunTypeOK
  <2>2. ASSUME NEW s \in Sessions \ strays', session'[s] \in Live PROVE FALSE
    <3>1. CASE StartClean(g, sess)
      <4>1. session'[s] = sess[s] /\ s \notin strays /\ (owner # None => sess[owner.session] = "absent")
        BY <2>2, <3>1 DEF StartClean
      <4> QED
        BY <1>2, <1>7, <2>2, <4>1 DEF Owned, Live
    <3>2. CASE StartKilling(g, sess)
      <4>1. /\ s \notin strays /\ owner # None
            /\ \/ session' = [sess EXCEPT ![owner.session] = "absent"]
               \/ session' = sess /\ strays' = strays \cup {owner.session}
        BY <2>2, <3>2 DEF StartKilling
      <4>2. session'[s] = sess[s] /\ s # owner.session
        BY <1>3, <2>2, <4>1 DEF Live
      <4> QED
        BY <1>2, <1>7, <2>2, <4>1, <4>2 DEF Owned
    <3> QED
      BY <1>8, <3>1, <3>2
  <2>3. Watches(g)'
    BY <1>5, <2>1, <2>2 DEF Watches
  <2> QED
    BY <1>6, <2>2, <2>3, AloneAfter
<1>9. CASE owner # None /\ Begin(g, owner.session) /\ session' = sess /\ UNCHANGED <<owner, strays>>
  <2>1. gw'[g].adopts = owner.session
    BY <1>9, BeginLeaves DEF RunTypeOK
  <2>2. owner.session # None
    BY GwAssumption, <1>9 DEF GwAssumption, RunTypeOK, FilesOK, OwnerFile
  <2>3. ASSUME NEW s \in Sessions \ strays', session'[s] \in Live PROVE Owned(s)' /\ s = owner.session
    BY <1>2, <1>7, <1>9, <2>3 DEF Owned
  <2>4. Watches(g)'
    BY <1>5, <1>9, <2>1, <2>2, <2>3 DEF Watches, Watched, Owned
  <2> QED
    BY <1>6, <2>3, <2>4, AloneAfter
<1> QED
  BY <1>4, <1>8, <1>9

(* What does not touch the sessions or their record, in a run.             *)
LEMMA QuietKeeps ==
  ASSUME RunTypeOK, SessionInv, InstanceExclusive, NEW g \in Gws,
         Decide(g) \/ TimeIsUp(g) \/ SpawnAborts(g) \/ Wake(g) \/ GwDies(g)
  PROVE  SessionInv'
<1>0. DOMAIN pc = Gws /\ DOMAIN gw = Gws /\ DOMAIN gw[g] = Fields
  BY DEF RunTypeOK, ProcsOK, LocalsOK
<1>1. pc[g] \in Driving
  BY DEF Decide, TimeIsUp, SpawnAborts, Wake, GwDies, Driving
<1>2. /\ Watches(g)
      /\ \A h \in Gws : h # g => pc[h] \notin Driving
      /\ \A s \in Sessions \ strays :
            session[s] \in Live => Owned(s) \/ (pc[g] = "own" /\ Own(g) = s)
  BY <1>1, AloneBefore
<1>3. \A h \in Gws : h # g => pc'[h] \notin Driving
  <2>1. Step(g)
    BY DEF Step
  <2> QED
    BY <1>2, <2>1, StepFrame
<1>4. session' = session /\ owner' = owner
  BY DEF Decide, TimeIsUp, SpawnAborts, Wake, GwDies, Fail, world
<1>5. CASE TimeIsUp(g) \/ SpawnAborts(g) \/ GwDies(g)
  <2>1. pc'[g] \notin Driving /\ strays \subseteq strays'
        /\ (pc[g] = "own" => strays' = strays \cup {Own(g)})
    BY <1>0, <1>5 DEF TimeIsUp, SpawnAborts, GwDies, Fail, Goto, Driving
  <2>2. \A s \in Sessions \ strays' : session'[s] \in Live => Owned(s)'
    BY <1>2, <1>4, <2>1 DEF Owned
  <2> QED
    BY <1>3, <2>1, <2>2, AloneAfter
<1>6. CASE Decide(g) \/ Wake(g)
  <2>1. /\ pc[g] # "own" /\ pc'[g] \in {"spawn", "decide"} /\ strays' = strays
        /\ gw[g].adopts = None
    BY <1>0, <1>2, <1>6 DEF Decide, Wake, Goto, Watches
  <2>2. gw'[g].adopts = None /\ gw'[g].index = gw[g].index
    BY <1>0, <1>6, <2>1 DEF Decide, Wake, Fields
  <2>3. \A s \in Sessions \ strays' : session'[s] \in Live => Owned(s)'
    BY <1>2, <1>4, <2>1 DEF Owned
  <2>4. Watched(g)' = Watched(g)
    BY <2>1, <2>2 DEF Watched, Own
  <2>5. Watches(g)'
    BY <1>2, <1>4, <2>1, <2>2, <2>4 DEF Watches
  <2> QED
    BY <1>3, <2>3, <2>5, AloneAfter
<1> QED
  BY <1>5, <1>6

(* Where a gw goes when its attempt was no success.                        *)
LEMMA CrashLeaves ==
  ASSUME ProcsOK, NEW g \in Gws, NEW v, NEW d, NEW lost,
         AfterCrash(g, v, d) \/ (After(g, v, d, lost) /\ v # "completed")
  PROVE  /\ owner' = owner
         /\ \/ pc'[g] = "unlink"
            \/ /\ pc'[g] \in {"cooldown", "backoff"}
               /\ gw'[g].adopts = None /\ gw'[g].index = gw[g].index
<1>0. DOMAIN pc = Gws /\ DOMAIN gw = Gws /\ DOMAIN gw[g] = Fields
  BY DEF ProcsOK, LocalsOK
<1>1. Fail(g) => pc'[g] = "unlink"
  BY <1>0 DEF Fail, Goto
<1>2. ASSUME NEW det, NEW next, Restart(g, det, d, next)
      PROVE  pc'[g] = next /\ gw'[g].adopts = None /\ gw'[g].index = gw[g].index
  BY <1>0, <1>2 DEF Restart, Goto, Fields
<1>3. ASSUME AfterCrash(g, v, d)
      PROVE  owner' = owner /\ (Fail(g) \/ \E det : Restart(g, det, d, "cooldown"))
  BY <1>3 DEF AfterCrash
<1>4. ASSUME AfterError(g, d, lost)
      PROVE  owner' = owner /\ (Fail(g) \/ \E det : Restart(g, det, d, "backoff"))
  BY <1>4 DEF AfterError
<1>5. CASE AfterCrash(g, v, d)
  BY <1>1, <1>2, <1>3, <1>5
<1>6. CASE After(g, v, d, lost) /\ v # "completed"
  <2>1. (Fail(g) /\ owner' = owner) \/ AfterError(g, d, lost) \/ AfterCrash(g, v, d)
    BY <1>6 DEF After
  <2> QED
    BY <1>1, <1>2, <1>3, <1>4, <2>1
<1> QED
  BY <1>5, <1>6

(* A plan's success.                                                       *)
LEMMA SucceedLeaves ==
  ASSUME ProcsOK, NEW g \in Gws, Succeed(g)
  PROVE  owner' = None /\ history' = <<>> /\ pc'[g] \in {"unlink", "start"}
BY DEF ProcsOK, Succeed, Goto

(* The steps that make, record, end or take over a session.                *)
LEMMA RunKeeps ==
  ASSUME RunTypeOK, SessionInv, InstanceExclusive, NEW g \in Gws,
         Adopt(g) \/ FindDone(g) \/ Spawn(g) \/ SpawnFails(g) \/ WriteOwner(g)
            \/ Dispatch(g) \/ Return(g)
  PROVE  SessionInv'
<1>0. /\ DOMAIN pc = Gws /\ DOMAIN gw = Gws /\ DOMAIN gw[g] = Fields
      /\ DOMAIN session = Sessions /\ Step(g) /\ ProcsOK
  BY DEF RunTypeOK, ProcsOK, LocalsOK, SessionsOK, Step
<1>1. pc[g] \in Driving /\ pc[g] \notin Gone
  BY DEF Adopt, FindDone, Spawn, SpawnFails, WriteOwner, Dispatch, Return, Driving, Gone
<1>2. /\ Watches(g)
      /\ \A h \in Gws : h # g => pc[h] \notin Driving
      /\ \A s \in Sessions \ strays :
            session[s] \in Live => Owned(s) \/ (pc[g] = "own" /\ Own(g) = s)
  BY <1>1, AloneBefore
<1>3. \A h \in Gws : h # g => pc'[h] \notin Driving
  BY <1>0, <1>2, StepFrame
<1>4. UNCHANGED batch /\ Own(g) \in Sessions /\ Own(g)[1] = g /\ Watched(g) \in Sessions
  BY <1>0, <1>1, StepFrame, OwnFacts
<1>5. \A s \in Sessions : session'[s] \in Live =>
         session[s] \in Live \/ (s = Own(g) /\ (Spawn(g) \/ SpawnFails(g)))
  BY <1>0, NewSessions
<1>6. pc[g] \in {"spawn", "own", "dispatch"} => gw[g].adopts = None
  BY <1>2 DEF Watches
<1>7. CASE Adopt(g)
  <2>1. /\ pc[g] = "decide" /\ pc'[g] = "watch" /\ gw[g].adopts # None
        /\ gw'[g].adopts = gw[g].adopts /\ UNCHANGED <<session, strays>>
    BY <1>0, <1>7 DEF Adopt, Goto, Fields, world
  <2>2. owner' = owner \/ (owner' # None /\ owner'.session = gw[g].adopts)
    <3>1. [gw |-> g, session |-> gw[g].adopts, plan |-> Plan(g)] \in OwnerFile
      BY <1>0, <1>1, <2>1, OwnFacts DEF OwnerFile, ProcsOK, LocalsOK
    <3> QED
      BY <1>7, <3>1, GwAssumption DEF Adopt, GwAssumption
  <2>3. Owned(gw[g].adopts) /\ Owned(gw[g].adopts)'
    BY <1>2, <2>1, <2>2 DEF Watches, Owned
  <2>4. \A s \in Sessions \ strays' : session'[s] \in Live => s = gw[g].adopts
    BY <1>2, <2>1 DEF Watches, Watched
  <2>5. Watches(g)'
    BY <2>1, <2>4 DEF Watches, Watched
  <2>6. \A s \in Sessions \ strays' : session'[s] \in Live => Owned(s)'
    BY <2>1, <2>3, <2>4 DEF Owned
  <2> QED
    BY <1>3, <2>5, <2>6, AloneAfter
<1>8. CASE FindDone(g)
  <2>1. /\ UNCHANGED session /\ gw[g].adopts = None
        /\ strays' = IF session[Own(g)] \in Live THEN strays \cup {Own(g)} ELSE strays
        /\ pc'[g] \notin Driving
    BY <1>0, <1>8, SucceedLeaves DEF FindDone, Driving, world
  <2>2. \A s \in Sessions \ strays' : session'[s] \notin Live
    BY <1>2, <2>1 DEF Watches, Watched
  <2> QED
    BY <1>3, <2>1, <2>2, AloneAfter
<1>9. CASE Spawn(g)
  <2>1. /\ pc[g] = "spawn" /\ pc'[g] = "own" /\ gw' = gw /\ UNCHANGED strays
    BY <1>0, <1>9 DEF Spawn, Goto
  <2>2. Own(g)' = Own(g) /\ Watched(g)' = Own(g)
    BY <1>6, <2>1 DEF Own, Watched
  <2>3. \A s \in Sessions \ strays' : session'[s] \in Live => s = Own(g)
    BY <1>2, <1>5, <1>6, <2>1 DEF Watches, Watched
  <2>4. Watches(g)'
    BY <1>6, <2>1, <2>2, <2>3 DEF Watches
  <2> QED
    BY <1>3, <1>4, <2>1, <2>2, <2>3, <2>4, AloneAfter
<1>10. CASE SpawnFails(g)
  <2>1. PICK left \in {"absent", "idle"} :
           /\ session' = [session EXCEPT ![Own(g)] = left]
           /\ strays' = IF left = "idle" THEN strays \cup {Own(g)} ELSE strays
    BY <1>10 DEF SpawnFails
  <2>2. /\ AfterCrash(g, "crashed", 0) /\ gw[g].adopts = None
    BY <1>6, <1>10 DEF SpawnFails
  <2>3. \A s \in Sessions \ strays' : session'[s] \notin Live
    BY <1>0, <1>2, <1>4, <2>1, <2>2 DEF Watches, Watched, Live
  <2>4. pc'[g] \in Driving => Watches(g)'
    BY <1>0, <2>2, <2>3, CrashLeaves DEF Watches, Driving
  <2> QED
    BY <1>3, <2>3, <2>4, AloneAfter
<1>11. CASE WriteOwner(g)
  <2>1. /\ pc'[g] = "dispatch" /\ pc[g] = "own" /\ gw' = gw /\ UNCHANGED session
    BY <1>0, <1>11 DEF WriteOwner, Goto, world
  <2>2. Own(g)' = Own(g) /\ Watched(g)' = Own(g) /\ gw'[g].adopts = None
    BY <1>6, <2>1 DEF Own, Watched
  <2>3. \A s \in Sessions \ strays : session'[s] \in Live => s = Own(g)
    BY <1>2, <1>6, <2>1 DEF Watches, Watched
  <2>4. \/ Owned(Own(g))' /\ strays' = strays \ {Own(g)}
        \/ strays' = strays \cup {Own(g)}
    <3>1. [gw |-> g, session |-> Own(g), plan |-> Plan(g)] \in OwnerFile
      BY <1>0, <1>1, OwnFacts DEF OwnerFile
    <3> QED
      BY <1>11, <2>2, <3>1, GwAssumption DEF WriteOwner, GwAssumption, Owned
  <2>5. \A s \in Sessions \ strays' : session'[s] \in Live => s = Own(g) /\ Owned(Own(g))'
    BY <2>3, <2>4
  <2>6. Watches(g)'
    BY <2>1, <2>2, <2>5 DEF Watches
  <2>7. \A s \in Sessions \ strays' : session'[s] \in Live => Owned(s)'
    BY <2>2, <2>5 DEF Owned
  <2> QED
    BY <1>3, <2>6, <2>7, AloneAfter
<1>12. CASE Dispatch(g)
  <2>1. /\ pc'[g] = "watch" /\ pc[g] = "dispatch" /\ UNCHANGED <<owner, strays>>
        /\ gw'[g].adopts = gw[g].adopts /\ gw'[g].index = gw[g].index
    BY <1>0, <1>12 DEF Dispatch, Goto, Fields
  <2>2. Watched(g)' = Watched(g)
    BY <2>1 DEF Own, Watched
  <2>3. \A s \in Sessions : session'[s] \in Live => session[s] \in Live
    <3>1. ~Spawn(g)
      BY <2>1 DEF Spawn
    <3>2. ~SpawnFails(g)
      <4>1. SpawnFails(g) => pc'[g] # "watch"
        BY <1>0, CrashLeaves DEF SpawnFails
      <4> QED
        BY <2>1, <4>1
    <3> QED
      BY <1>5, <3>1, <3>2
  <2>4. Watches(g)'
    BY <1>2, <2>1, <2>2, <2>3 DEF Watches
  <2>5. \A s \in Sessions \ strays' : session'[s] \in Live => Owned(s)'
    BY <1>2, <2>1, <2>3 DEF Owned
  <2> QED
    BY <1>3, <2>4, <2>5, AloneAfter
<1>13. CASE Return(g)
  <2>1. PICK v \in {"completed", "crashed", "failed", "stuck", "error"}, d \in Durations,
             spared \in BOOLEAN, lost \in BOOLEAN :
           /\ session' = [session EXCEPT ![Watched(g)] = IF spared THEN @ ELSE "absent"]
           /\ strays' = IF spared /\ (v = "completed" \/ gw[g].adopts # None)
                        THEN strays \cup {Watched(g)} ELSE strays
           /\ After(g, v, d, lost)
    BY <1>13 DEF Return
  <2>2. pc[g] = "watch"
    BY <1>13 DEF Return
  <2>3. ASSUME NEW s \in Sessions \ strays', session'[s] \in Live
        PROVE  /\ s = Watched(g) /\ Owned(s) /\ v # "completed"
               /\ gw[g].adopts = None /\ s = Own(g)
    <3>1. s \notin strays /\ session[s] \in Live
      BY <1>0, <2>1, <2>3 DEF Live
    <3>2. s = Watched(g) /\ Owned(s)
      BY <1>2, <2>2, <3>1 DEF Watches
    <3>3. spared
      BY <1>0, <2>1, <2>3, <3>2 DEF Live
    <3> QED
      BY <2>1, <2>3, <3>2, <3>3 DEF Watched
  <2>4. v = "completed" => Succeed(g)
    BY <2>1 DEF After
  <2>5. v = "completed" => pc'[g] \notin Driving
    BY <1>0, <2>4, SucceedLeaves DEF Driving
  <2>6. v # "completed" =>
          /\ owner' = owner
          /\ \/ pc'[g] = "unlink"
             \/ /\ pc'[g] \in {"cooldown", "backoff"}
                /\ gw'[g].adopts = None /\ gw'[g].index = gw[g].index
    BY <1>0, <2>1, CrashLeaves
  <2>7. \A s \in Sessions \ strays' : session'[s] \in Live => Owned(s)'
    BY <2>3, <2>6 DEF Owned
  <2>8. ASSUME pc'[g] \in Driving PROVE Watches(g)'
    <3>1. /\ pc'[g] \in {"cooldown", "backoff"}
          /\ gw'[g].adopts = None /\ gw'[g].index = gw[g].index
      BY <2>5, <2>6, <2>8 DEF Driving
    <3>2. Watched(g)' = Own(g)
      BY <3>1 DEF Watched, Own
    <3> QED
      BY <2>3, <3>1, <3>2 DEF Watches
  <2> QED
    BY <1>3, <2>7, <2>8, AloneAfter
<1> QED
  BY <1>7, <1>8, <1>9, <1>10, <1>11, <1>12, <1>13

(* The arcs only end sessions.                                             *)
LEMMA WorldKeepsSessions ==
  ASSUME RunTypeOK, SessionInv, NEW s \in Sessions,
         ArcBegins(s) \/ ArcAdvances(s) \/ ArcEnds(s) \/ SessionDies(s)
  PROVE  SessionInv'
<1>1. /\ pc' = pc /\ owner' = owner /\ strays' = strays
      /\ \A h \in Gws : gw'[h].adopts = gw[h].adopts /\ Own(h)' = Own(h) /\ Watched(h)' = Watched(h)
  BY WorldFrame
<1>2. \A t \in Sessions : session'[t] \in Live => session[t] \in Live
  BY WorldSessions
<1>3. ASSUME NEW h \in Gws, pc'[h] \in Driving PROVE Watches(h)'
  <2>1. Watches(h)
    BY <1>1, <1>3 DEF SessionInv, OnlyWatched
  <2> QED
    BY <1>1, <1>2, <2>1 DEF Watches, Owned
<1>4. ASSUME NEW t \in Sessions \ strays', session'[t] \in Live
      PROVE  (owner' # None /\ owner'.session = t) \/ (pc'[t[1]] = "own" /\ Own(t[1])' = t)
  <2>1. t[1] \in Gws
    BY DEF Sessions
  <2>2. (owner # None /\ owner.session = t) \/ (pc[t[1]] = "own" /\ Own(t[1]) = t)
    BY <1>1, <1>2, <1>4 DEF SessionInv, LiveSessionIsOwned
  <2> QED
    BY <1>1, <2>1, <2>2
<1> QED
  BY <1>3, <1>4 DEF SessionInv, LiveSessionIsOwned, OnlyWatched

(* While the lock holds, who drives knows every session that works.        *)
LEMMA SessionsAreKept == Spec /\ []InstanceExclusive => []SessionInv
<1>1. Init => RunTypeOK /\ SessionInv
  <2>1. Init => \A g \in Gws : pc[g] \notin Driving
    BY DEF Init, Driving
  <2>2. Init => \A s \in Sessions : session[s] \notin Live
    BY DEF Init, Live
  <2> QED
    BY <2>1, <2>2, InitRunTypes DEF SessionInv, LiveSessionIsOwned, OnlyWatched
<1>2. RunTypeOK /\ SessionInv /\ InstanceExclusive /\ InstanceExclusive' /\ [Next]_vars
         => (RunTypeOK /\ SessionInv)'
  <2> SUFFICES ASSUME RunTypeOK, SessionInv, InstanceExclusive, InstanceExclusive', [Next]_vars
               PROVE  SessionInv'
    BY NextRunTypes
  <2>1. CASE UNCHANGED vars
    BY <2>1 DEF vars, world, SessionInv, LiveSessionIsOwned, OnlyWatched, Watches, Owned, Own, Watched
  <2>2. ASSUME NEW g \in Gws, Step(g) PROVE SessionInv'
    BY <2>2, OutsideKeeps, StartKeeps, QuietKeeps, RunKeeps DEF Step
  <2>3. ASSUME NEW s \in Sessions, ArcBegins(s) \/ ArcAdvances(s) \/ ArcEnds(s) \/ SessionDies(s)
        PROVE  SessionInv'
    BY <2>3, WorldKeepsSessions
  <2> QED
    BY <2>1, <2>2, <2>3 DEF Next, World
<1> QED
  BY <1>1, <1>2, PTL DEF Spec

(* While the lock holds, no working session is forgotten: the owner file   *)
(* names it, for the next gw run to adopt or to kill.                      *)
THEOREM NoSessionIsForgotten == Spec /\ []InstanceExclusive => []LiveSessionIsOwned
<1>1. SessionInv => LiveSessionIsOwned
  BY DEF SessionInv
<1> QED
  BY <1>1, SessionsAreKept, PTL

----------------------------------------------------------------------------
(* The count of restarts.                                                  *)

(* Of a detector.                                                          *)
DetFields == {"crashes", "total", "healthy", "perPhase", "last"}

(* A detector between two restarts: no tick has followed the last one.     *)
WellKept(det) == DOMAIN det = DetFields /\ det.total \in Nat /\ det.healthy = Never

(* Every detector is, and so is the one on file.                           *)
HistoryOK ==
    /\ \A g \in Gws : WellKept(gw[g].det)
    /\ history # <<>> => history = <<history[1]>> /\ WellKept(history[1])

(* The detectors' part.                                                    *)
CountInv == RestartsAreRemembered /\ HistoryOK

(* A new detector.                                                         *)
LEMMA NewIsKept == WellKept(NewDetector) /\ WellKept(Locals.det) /\ \A g : WellKept(Left(g).det)
<1>1. WellKept(NewDetector)
  BY DEF WellKept, NewDetector, DetFields
<1>2. Locals.det = NewDetector
  BY DEF Locals
<1> QED
  BY <1>1, <1>2, LocalsFacts

(* Time takes nothing from the total.                                      *)
LEMMA ElapseKeeps ==
  ASSUME NEW det, WellKept(det), NEW d
  PROVE  WellKept(Elapse(det, d)) /\ Elapse(det, d).total = det.total
<1> DEFINE ages == Later(det.crashes, d)
           x == Older(det.healthy, d, Stability)
<1>1. Elapse(det, d) = [det EXCEPT !.crashes = ages, !.healthy = x]
  BY DEF Elapse, WellKept, DetFields
<1>2. x = Never
  BY DEF WellKept, Older
<1> HIDE DEF ages, x
<1> QED
  BY <1>1, <1>2 DEF WellKept, DetFields

(* A restart adds one to it, ...                                           *)
LEMMA RecordedKeeps ==
  ASSUME NEW g, WellKept(gw[g].det), NEW d, NEW phase
  PROVE  /\ WellKept(Recorded(Ticked(g, d), phase))
         /\ Recorded(Ticked(g, d), phase).total = gw[g].det.total + 1
<1> DEFINE det == Elapse(gw[g].det, d)
<1>1. WellKept(det) /\ det.total = gw[g].det.total
  BY ElapseKeeps
<1>2. Ticked(g, d) = IF d >= Stability THEN HealthyTick(det) ELSE det
  BY DEF Ticked
<1> HIDE DEF det
<1>3. HealthyTick(det) = [det EXCEPT !.healthy = 0]
  BY <1>1, DetectorAssumption DEF HealthyTick, WellKept, Never, DetectorAssumption
<1>4. Ticked(g, d).total = det.total
  BY <1>1, <1>2, <1>3 DEF WellKept, DetFields
<1>5. ASSUME NEW x, x.total \in Nat
      PROVE  WellKept(Recorded(x, phase)) /\ Recorded(x, phase).total = x.total + 1
  BY <1>5 DEF WellKept, Recorded, DetFields
<1> QED
  BY <1>1, <1>4, <1>5 DEF WellKept

(* ... the history file keeps it, ...                                      *)
LEMMA LoadKeeps ==
  ASSUME HistoryOK
  PROVE  WellKept(Loaded(history)) /\ (history # <<>> => Loaded(history).total = history[1].total)
<1>1. CASE history = <<>>
  BY <1>1, NewIsKept DEF Loaded, Load
<1>2. CASE history # <<>>
  <2> DEFINE old == history[1]
             young == Within(old.crashes, Window - 1)
  <2>1. WellKept(old)
    BY <1>2 DEF HistoryOK
  <2>2. -1 < Stability
    BY DetectorAssumption DEF DetectorAssumption
  <2>3. Loaded(history) = [old EXCEPT !.crashes = young, !.healthy = Never, !.last = 0]
    BY <1>2, <2>1, <2>2 DEF Loaded, Load, WellKept, Never, DetFields
  <2> HIDE DEF young, old
  <2> QED
    BY <2>1, <2>3 DEF WellKept, DetFields, old
<1> QED
  BY <1>1, <1>2

(* ... and ages with it.                                                   *)
LEMMA FileKeeps ==
  ASSUME HistoryOK, NEW d
  PROVE  /\ Aged(history, d) # <<>> <=> history # <<>>
         /\ Aged(history, d) # <<>> =>
              /\ Aged(history, d) = <<Aged(history, d)[1]>> /\ WellKept(Aged(history, d)[1])
              /\ Aged(history, d)[1].total = history[1].total
BY ElapseKeeps DEF Aged, HistoryOK

(* The file takes over what is counted.                                    *)
LEMMA PersistKeeps ==
  ASSUME NEW det, WellKept(det)
  PROVE  /\ Persist(det) # <<>> /\ Persist(det) = <<Persist(det)[1]>>
         /\ WellKept(Persist(det)[1]) /\ Persist(det)[1].total = det.total
BY DEF Persist, WellKept, DetFields

(* The detector and the history file of a gw.                              *)
Counts(g) ==
    /\ pc[g] \in Driving /\ history # <<>> => gw[g].det.total >= history[1].total
    /\ pc[g] = "backoff" /\ faults = 0 =>
          history # <<>> /\ history[1].total = gw[g].det.total

(* The counts are the business of the gw that drives.                      *)
LEMMA CountsAfter ==
  ASSUME NEW g \in Gws, HistoryOK, Counts(g)', WellKept(gw'[g].det),
         \A h \in Gws : h # g => pc'[h] \notin Driving /\ gw'[h].det = gw[h].det,
         history' # <<>> => history' = <<history'[1]>> /\ WellKept(history'[1])
  PROVE  CountInv'
<1>1. HistoryOK'
  BY DEF HistoryOK
<1>2. \A h \in Gws : Counts(h)'
  BY DEF Counts, Driving
<1> QED
  BY <1>1, <1>2 DEF CountInv, RestartsAreRemembered, Counts

(* A step outside the run.                                                 *)
LEMMA OutsideCounts ==
  ASSUME RunTypeOK, CountInv, NEW g \in Gws,
         CheckOwner(g) \/ OpenLock(g) \/ Flock(g) \/ UnlinkLock(g) \/ CloseLock(g) \/ StartFails(g)
  PROVE  CountInv'
<1>0. DOMAIN pc = Gws /\ DOMAIN gw = Gws /\ DOMAIN gw[g] = Fields /\ faults \in Nat
  BY DEF RunTypeOK, ProcsOK, LocalsOK
<1>1. history' = history /\ pc[g] \notin Driving /\ pc'[g] \notin Driving
  BY <1>0 DEF CheckOwner, OpenLock, Flock, UnlinkLock, CloseLock, StartFails, Goto, Driving
<1>2. faults' = faults \/ faults' = faults + 1
  BY DEF CheckOwner, OpenLock, Flock, UnlinkLock, CloseLock, StartFails, Fault
<1>3. gw'[g].det = gw[g].det \/ gw'[g].det = Locals.det
  BY <1>0 DEF CheckOwner, OpenLock, Flock, UnlinkLock, CloseLock, StartFails, Fields
<1>4. \A h \in Gws : h # g => pc'[h] = pc[h] /\ gw'[h] = gw[h]
  <2>1. Step(g)
    BY DEF Step
  <2> QED
    BY <2>1, StepFrame
<1>5. HistoryOK'
  BY <1>1, <1>3, <1>4, NewIsKept DEF CountInv, HistoryOK
<1>6. ASSUME NEW h \in Gws PROVE Counts(h)'
  <2>1. Counts(h)
    BY DEF CountInv, RestartsAreRemembered, Counts
  <2>2. CASE h = g
    BY <1>1, <2>2 DEF Counts, Driving
  <2>3. CASE h # g
    <3>1. pc'[h] = pc[h] /\ gw'[h] = gw[h]
      BY <1>4, <2>3
    <3>2. faults' = 0 => faults = 0
      BY <1>0, <1>2
    <3> QED
      BY <1>1, <2>1, <3>1, <3>2 DEF Counts
  <2> QED
    BY <2>2, <2>3
<1> QED
  BY <1>5, <1>6 DEF CountInv, RestartsAreRemembered, Counts

(* A failure, and a turn of the loop.                                      *)
LEMMA FailLeaves ==
  ASSUME ProcsOK, NEW g \in Gws, Fail(g)
  PROVE  pc'[g] = "unlink" /\ WellKept(gw'[g].det)
BY NewIsKept DEF ProcsOK, Fail, Goto

(* Success.                                                                *)
LEMMA SucceedDet ==
  ASSUME ProcsOK, NEW g \in Gws, Succeed(g)
  PROVE  WellKept(gw'[g].det)
<1>1. DOMAIN gw = Gws /\ DOMAIN Left(g) = Fields /\ WellKept(Left(g).det)
  BY LocalsFacts, NewIsKept DEF ProcsOK
<1> QED
  BY <1>1 DEF Succeed, Fields

(* What a crash or an error leaves.                                        *)
LEMMA CrashCounts ==
  ASSUME ProcsOK, CountInv, NEW g \in Gws, pc[g] \in Driving, NEW v, NEW d, NEW lost \in BOOLEAN,
         AfterCrash(g, v, d) \/ (AfterError(g, d, lost) /\ (lost => faults' # 0))
  PROVE  /\ Counts(g)' /\ WellKept(gw'[g].det)
         /\ history' # <<>> => history' = <<history'[1]>> /\ WellKept(history'[1])
<1>0. DOMAIN pc = Gws /\ DOMAIN gw = Gws /\ DOMAIN gw[g] = Fields
  BY DEF ProcsOK, LocalsOK
<1>1. HistoryOK /\ WellKept(gw[g].det)
      /\ (history # <<>> => gw[g].det.total >= history[1].total)
  BY DEF CountInv, HistoryOK, RestartsAreRemembered
<1>2. /\ Aged(history, d) # <<>> <=> history # <<>>
      /\ Aged(history, d) # <<>> =>
              /\ Aged(history, d) = <<Aged(history, d)[1]>> /\ WellKept(Aged(history, d)[1])
              /\ Aged(history, d)[1].total = history[1].total
  BY <1>1, FileKeeps
<1>3. ASSUME NEW det, NEW next, Restart(g, det, d, next) PROVE pc'[g] = next /\ gw'[g].det = det
  BY <1>0, <1>3 DEF Restart, Goto, Fields
<1>4. gw[g].det.total \in Nat /\ (history # <<>> => history[1].total \in Nat)
  BY <1>1 DEF HistoryOK, WellKept
<1>5. CASE AfterCrash(g, v, d)
  <2>1. PICK phase : LET det == Recorded(Ticked(g, d), phase)
                     IN  /\ IF Stops(det, phase) THEN Fail(g) ELSE Restart(g, det, d, "cooldown")
                         /\ history' = <<>> \/ history' = Aged(history, d)
    BY <1>5 DEF AfterCrash
  <2> DEFINE det == Recorded(Ticked(g, d), phase)
  <2>2. Fail(g) \/ Restart(g, det, d, "cooldown")
    BY <2>1
  <2>3. WellKept(det) /\ det.total = gw[g].det.total + 1
    BY <1>1, RecordedKeeps
  <2> HIDE DEF det
  <2>4. WellKept(gw'[g].det) /\ (pc'[g] = "unlink" \/ (pc'[g] = "cooldown" /\ gw'[g].det = det))
    BY <1>3, <2>2, <2>3, FailLeaves
  <2>5. history' = <<>> \/ history' = Aged(history, d)
    BY <2>1
  <2>6. Counts(g)'
    BY <1>1, <1>2, <1>4, <2>3, <2>4, <2>5 DEF Counts, Driving
  <2> QED
    BY <1>2, <2>4, <2>5, <2>6
<1>6. CASE AfterError(g, d, lost) /\ (lost => faults' # 0)
  <2> DEFINE det == Recorded(Ticked(g, d), 0)
  <2>1. \/ Fail(g) /\ history' = Aged(history, d)
        \/ Restart(g, det, d, "backoff") /\ history' = Saved(det, d, lost)
    BY <1>6 DEF AfterError
  <2>2. WellKept(det) /\ det.total = gw[g].det.total + 1
    BY <1>1, RecordedKeeps
  <2> HIDE DEF det
  <2>3. CASE Fail(g) /\ history' = Aged(history, d)
    <3>1. WellKept(gw'[g].det) /\ pc'[g] = "unlink"
      BY <2>3, FailLeaves
    <3> QED
      BY <1>2, <2>3, <3>1 DEF Counts, Driving
  <2>4. CASE Restart(g, det, d, "backoff") /\ history' = Saved(det, d, lost)
    <3>1. gw'[g].det = det /\ pc'[g] = "backoff"
      BY <1>3, <2>4
    <3>2. CASE lost
      <4>1. history' = Aged(history, d) /\ faults' # 0
        BY <1>6, <2>4, <3>2 DEF Saved
      <4>2. Counts(g)'
        BY <1>1, <1>2, <1>4, <2>2, <3>1, <4>1 DEF Counts, Driving
      <4> QED
        BY <1>2, <2>2, <3>1, <4>1, <4>2
    <3>3. CASE ~lost
      <4>1. history' = Persist(det)
        BY <2>4, <3>3 DEF Saved
      <4>2. Counts(g)'
        BY <2>2, <3>1, <4>1, PersistKeeps DEF Counts, WellKept
      <4> QED
        BY <2>2, <3>1, <4>1, <4>2, PersistKeeps
    <3> QED
      BY <3>2, <3>3
  <2> QED
    BY <2>1, <2>3, <2>4
<1> QED
  BY <1>5, <1>6

(* Each step of a gw in its run.                                           *)
LEMMA DrivingCounts ==
  ASSUME RunTypeOK, CountInv, NEW g \in Gws, pc[g] \in Driving, Step(g)
  PROVE  /\ Counts(g)' /\ WellKept(gw'[g].det)
         /\ history' # <<>> => history' = <<history'[1]>> /\ WellKept(history'[1])
<1>0. /\ DOMAIN pc = Gws /\ DOMAIN gw = Gws /\ DOMAIN gw[g] = Fields
      /\ ProcsOK /\ faults \in Nat
  BY DEF RunTypeOK, ProcsOK, LocalsOK
<1>1. /\ WellKept(gw[g].det)
      /\ history # <<>> =>
           /\ history = <<history[1]>> /\ WellKept(history[1])
           /\ gw[g].det.total >= history[1].total
  BY DEF CountInv, HistoryOK, RestartsAreRemembered
<1>2. ASSUME Succeed(g)
      PROVE  /\ Counts(g)' /\ WellKept(gw'[g].det) /\ history' = <<>>
  <2>1. WellKept(gw'[g].det) /\ history' = <<>> /\ pc'[g] \in {"unlink", "start"}
    BY <1>0, <1>2, SucceedLeaves, SucceedDet
  <2> QED
    BY <2>1 DEF Counts
<1>3. ASSUME Fail(g) PROVE Counts(g)' /\ WellKept(gw'[g].det)
  BY <1>0, <1>3, FailLeaves DEF Counts, Driving
<1>4. CASE FindDone(g)
  BY <1>2, <1>4 DEF FindDone
<1>5. CASE TimeIsUp(g) \/ SpawnAborts(g)
  <2>1. Fail(g) /\ history' = history
    BY <1>5 DEF TimeIsUp, SpawnAborts
  <2> QED
    BY <1>1, <1>3, <2>1
<1>6. CASE GwDies(g)
  <2>1. pc'[g] = "dead" /\ gw'[g].det = Locals.det /\ history' = history
    BY <1>0, <1>6 DEF GwDies, Goto
  <2> QED
    BY <1>1, <2>1, NewIsKept DEF Counts, Driving
<1>7. CASE Adopt(g) \/ Decide(g) \/ Spawn(g) \/ WriteOwner(g) \/ Dispatch(g) \/ Wake(g)
  <2>1. /\ pc'[g] # "backoff" /\ gw'[g].det = gw[g].det /\ history' = history
    BY <1>0, <1>7 DEF Adopt, Decide, Spawn, WriteOwner, Dispatch, Wake, Goto, Fields
  <2> QED
    BY <1>1, <2>1 DEF Counts
<1>8. CASE SpawnFails(g)
  <2>1. AfterCrash(g, "crashed", 0)
    BY <1>8 DEF SpawnFails
  <2> QED
    BY <1>0, <2>1, CrashCounts
<1>9. CASE Return(g)
  <2>1. PICK v \in {"completed", "crashed", "failed", "stuck", "error"}, d \in Durations,
             spared \in BOOLEAN, lost \in BOOLEAN :
           /\ faults' = faults + (IF spared THEN 1 ELSE 0) + (IF lost THEN 1 ELSE 0)
           /\ After(g, v, d, lost)
    BY <1>9 DEF Return
  <2>2. lost => faults' # 0
    BY <1>0, <2>1
  <2>3. \/ Succeed(g)
        \/ Fail(g) /\ history' = Aged(history, d)
        \/ AfterError(g, d, lost)
        \/ AfterCrash(g, v, d)
    BY <2>1 DEF After
  <2>4. CASE Fail(g) /\ history' = Aged(history, d)
    BY <1>3, <2>4, FileKeeps DEF CountInv
  <2> QED
    BY <1>0, <1>2, <2>2, <2>3, <2>4, CrashCounts
<1> QED
  BY <1>4, <1>5, <1>6, <1>7, <1>8, <1>9
  DEF Step, CheckOwner, OpenLock, Flock, UnlinkLock, CloseLock, Start, StartFails, Driving

(* A run starts from what the file says.                                   *)
LEMMA StartCounts ==
  ASSUME RunTypeOK, CountInv, NEW g \in Gws, Start(g)
  PROVE  /\ Counts(g)' /\ WellKept(gw'[g].det) /\ history' = history /\ pc'[g] \in Driving
<1>1. PICK a : Begin(g, a)
  BY DEF Start
<1>2. pc'[g] = "decide" /\ gw'[g].det = Loaded(history) /\ history' = history
  BY <1>1, BeginLeaves DEF Begin, RunTypeOK
<1>3. WellKept(Loaded(history)) /\ (history # <<>> => Loaded(history).total = history[1].total)
  BY LoadKeeps DEF CountInv
<1>4. history # <<>> => history[1].total \in Nat
  BY DEF CountInv, HistoryOK, WellKept
<1> QED
  BY <1>2, <1>3, <1>4 DEF Counts, Driving

(* While the lock holds, no restart is forgotten: crash-history.json counts*)
(* what gw counts, and a new gw takes it up.                               *)
THEOREM NoRestartIsForgotten == Spec /\ []InstanceExclusive => []RestartsAreRemembered
<1>1. Init => RunTypeOK /\ CountInv
  <2>1. Init => /\ \A g \in Gws : pc[g] \notin Driving /\ pc[g] # "backoff" /\ gw[g] = Locals
                /\ history = <<>>
    BY DEF Init, Driving
  <2> QED
    BY <2>1, InitRunTypes, NewIsKept DEF CountInv, HistoryOK, RestartsAreRemembered
<1>2. RunTypeOK /\ CountInv /\ InstanceExclusive /\ InstanceExclusive' /\ [Next]_vars
         => (RunTypeOK /\ CountInv)'
  <2> SUFFICES ASSUME RunTypeOK, CountInv, InstanceExclusive, InstanceExclusive', [Next]_vars
               PROVE  CountInv'
    BY NextRunTypes
  <2>1. CASE UNCHANGED vars
    BY <2>1 DEF vars, CountInv, RestartsAreRemembered, HistoryOK
  <2>2. ASSUME NEW g \in Gws, Step(g), pc[g] \in Driving PROVE CountInv'
    <3>1. \A h \in Gws : h # g => pc'[h] \notin Driving /\ gw'[h].det = gw[h].det
      BY <2>2, StepFrame DEF InstanceExclusive
    <3> QED
      BY <2>2, <3>1, DrivingCounts, CountsAfter DEF CountInv
  <2>3. ASSUME NEW g \in Gws, Start(g) PROVE CountInv'
    <3>1. Step(g)
      BY <2>3 DEF Step
    <3>2. \A h \in Gws : h # g => pc'[h] \notin Driving /\ gw'[h].det = gw[h].det
      BY <2>3, <3>1, StepFrame, StartCounts DEF InstanceExclusive
    <3>3. history # <<>> => history = <<history[1]>> /\ WellKept(history[1])
      BY DEF CountInv, HistoryOK
    <3> QED
      BY <2>3, <3>2, <3>3, StartCounts, CountsAfter DEF CountInv
  <2>4. ASSUME NEW g \in Gws, Step(g), pc[g] \notin Driving, ~Start(g) PROVE CountInv'
    <3>1. CheckOwner(g) \/ OpenLock(g) \/ Flock(g) \/ UnlinkLock(g) \/ CloseLock(g) \/ StartFails(g)
      BY <2>4
      DEF Step, Adopt, Decide, FindDone, TimeIsUp, Spawn, SpawnAborts, SpawnFails, WriteOwner,
          Dispatch, Return, Wake, GwDies, Driving
    <3> QED
      BY <3>1, OutsideCounts
  <2>5. ASSUME NEW s \in Sessions, ArcBegins(s) \/ ArcAdvances(s) \/ ArcEnds(s) \/ SessionDies(s)
        PROVE  CountInv'
    <3>1. /\ pc' = pc /\ history' = history /\ faults' = faults
          /\ \A h \in Gws : gw'[h].det = gw[h].det
      BY <2>5, WorldFrame
    <3> QED
      BY <3>1 DEF CountInv, RestartsAreRemembered, HistoryOK
  <2> QED
    BY <2>1, <2>2, <2>3, <2>4, <2>5 DEF Next, World
<1>3. CountInv => RestartsAreRemembered
  BY DEF CountInv
<1> QED
  BY <1>1, <1>2, <1>3, PTL DEF Spec

----------------------------------------------------------------------------
(* The limit of restarts.                                                  *)

(* A sequence ends with another.                                           *)
EndsWith(s, r) ==
    /\ Len(r) <= Len(s)
    /\ \A i \in 1 .. Len(r) : r[i] = s[i + (Len(s) - Len(r))]

(* What is dropped is older than the limit, and the next is not.           *)
LEMMA WithinFacts ==
  ASSUME NEW s \in Seq(Nat), NEW limit \in Int
  PROVE  \E m \in 0 .. Len(s) :
            /\ Within(s, limit) \in Seq(Nat)
            /\ Len(Within(s, limit)) = Len(s) - m
            /\ \A i \in 1 .. Len(s) - m : Within(s, limit)[i] = s[i + m]
            /\ \A i \in 1 .. m : s[i] > limit
            /\ m < Len(s) => ~(s[m + 1] > limit)
<1> DEFINE old == {i \in DOMAIN s : \A j \in 1 .. i : s[j] > limit}
           S == (1 .. Len(s) + 1) \ old
           R == OpToRel(<, Nat)
<1>1. Len(s) \in Nat /\ DOMAIN s = 1 .. Len(s) /\ \A i \in 1 .. Len(s) : s[i] \in Nat
  OBVIOUS
<1>2. S \subseteq Nat /\ Len(s) + 1 \in S
  BY <1>1
<1>3. PICK x \in S : \A y \in S : ~ (<<y, x>> \in R)
  <2>1. IsWellFoundedOn(R, Nat)
    BY NatLessThanWellFounded
  <2> HIDE DEF S, R
  <2> QED
    BY <1>2, <2>1, WFMin
<1>4. x \in 1 .. Len(s) + 1 /\ x \notin old
  BY <1>3
<1>5. \A y \in 1 .. x - 1 : y \in old
  <2> SUFFICES ASSUME NEW y \in 1 .. x - 1, y \notin old PROVE FALSE
    OBVIOUS
  <2>1. y \in S /\ y < x /\ y \in Nat /\ x \in Nat
    BY <1>1, <1>4
  <2>2. <<y, x>> \in R
    BY <2>1 DEF OpToRel
  <2> QED
    BY <1>3, <2>1, <2>2
<1>6. old = 1 .. x - 1
  <2>1. \A y \in old : y \in 1 .. Len(s) /\ \A j \in 1 .. y : s[j] > limit
    BY <1>1
  <2>2. ASSUME NEW y \in old, ~(y < x) PROVE FALSE
    <3>1. x \in 1 .. y /\ x \in DOMAIN s
      BY <1>1, <1>4, <2>1, <2>2
    <3>2. \A j \in 1 .. x : s[j] > limit
      BY <1>1, <1>4, <2>1, <2>2, <3>1
    <3> QED
      BY <1>4, <3>1, <3>2
  <2>3. old \subseteq 1 .. x - 1
    BY <1>1, <1>4, <2>1, <2>2
  <2> HIDE DEF old
  <2> QED
    BY <1>5, <2>3
<1>7. Cardinality(old) = x - 1
  <2>1. x - 1 \in Int /\ 1 \in Int /\ x \in Int /\ x >= 1
    BY <1>1, <1>4
  <2>2. Cardinality(1 .. x - 1) = IF 1 > x - 1 THEN 0 ELSE (x - 1) - 1 + 1
    BY <2>1, FS_Interval
  <2> HIDE DEF old
  <2> QED
    BY <1>6, <2>1, <2>2
<1>8. Within(s, limit) = SubSeq(s, (x - 1) + 1, Len(s))
  BY <1>7 DEF Within
<1>9. x - 1 \in 0 .. Len(s)
  BY <1>1, <1>4
<1>10. \A i \in 1 .. x - 1 : s[i] > limit
  <2> SUFFICES ASSUME NEW i \in 1 .. x - 1 PROVE s[i] > limit
    OBVIOUS
  <2>1. i \in old
    BY <1>5
  <2> QED
    BY <1>1, <2>1
<1>11. x - 1 < Len(s) => ~(s[(x - 1) + 1] > limit)
  <2> SUFFICES ASSUME x - 1 < Len(s), s[x] > limit PROVE FALSE
    BY <1>1, <1>4
  <2>1. x \in DOMAIN s
    BY <1>1, <1>4
  <2>2. \A j \in 1 .. x : j = x \/ j \in 1 .. x - 1
    BY <1>1, <1>4
  <2>3. \A j \in 1 .. x : s[j] > limit
    BY <1>10, <2>2
  <2> QED
    BY <1>4, <2>1, <2>3
<1> DEFINE m == x - 1
<1>12. /\ Within(s, limit) \in Seq(Nat)
       /\ Len(Within(s, limit)) = Len(s) - m
       /\ \A i \in 1 .. Len(s) - m : Within(s, limit)[i] = s[i + m]
  <2>1. m \in Nat /\ m <= Len(s) /\ Within(s, limit) = SubSeq(s, m + 1, Len(s))
    BY <1>1, <1>8, <1>9
  <2> DEFINE w == Within(s, limit)
             n == Len(s)
  <2> HIDE DEF m, old, S, R, w
  <2>2. \A i \in m + 1 .. n : s[i] \in Nat
    BY <1>1, <2>1
  <2>3. n \in Int /\ m + 1 \in Int
    BY <1>1, <2>1
  <2> HIDE DEF n
  <2>4. /\ w \in Seq(Nat)
        /\ Len(w) = IF m + 1 <= n THEN n - (m + 1) + 1 ELSE 0
        /\ \A i \in 1 .. n - (m + 1) + 1 : w[i] = s[m + 1 + i - 1]
    <3>1. w = SubSeq(s, m + 1, n)
      BY <2>1 DEF w, n
    <3>2. /\ SubSeq(s, m + 1, n) \in Seq(Nat)
          /\ Len(SubSeq(s, m + 1, n)) = IF m + 1 <= n THEN n - (m + 1) + 1 ELSE 0
          /\ \A i \in 1 .. n - (m + 1) + 1 : SubSeq(s, m + 1, n)[i] = s[m + 1 + i - 1]
      BY <2>2, <2>3, SubSeqProperties
    <3> QED
      BY <3>1, <3>2, Zenon
  <2>5. n \in Nat /\ m <= n
    BY <1>1, <2>1 DEF n
  <2>6. n - (m + 1) + 1 = n - m /\ \A i \in 1 .. n - m : m + 1 + i - 1 = i + m
    BY <2>1, <2>5
  <2>7. w \in Seq(Nat) /\ Len(w) = n - m /\ \A i \in 1 .. n - m : w[i] = s[i + m]
    BY <2>1, <2>4, <2>5, <2>6
  <2> QED
    BY <2>7 DEF w, n
<1> HIDE DEF old, S, R
<1> QED
  BY <1>9, <1>10, <1>11, <1>12

(* Ages grow together.                                                     *)
LEMMA LaterFacts ==
  ASSUME NEW s \in Seq(Nat), NEW d \in Nat
  PROVE  /\ Later(s, d) \in Seq(Nat) /\ Len(Later(s, d)) = Len(s)
         /\ \A i \in 1 .. Len(s) : Later(s, d)[i] = Older(s[i], d, Window + 1)
<1>1. DOMAIN s = 1 .. Len(s) /\ Len(s) \in Nat /\ \A i \in 1 .. Len(s) : s[i] \in Nat
  OBVIOUS
<1>2. Window \in Nat
  BY DetectorAssumption DEF DetectorAssumption
<1>3. \A a \in Nat : Older(a, d, Window + 1) \in Nat
  BY <1>2 DEF Older, Never
<1>4. Later(s, d) \in [1 .. Len(s) -> Nat]
  BY <1>1, <1>3 DEF Later
<1>5. Later(s, d) \in Seq(Nat) /\ Len(Later(s, d)) = Len(s)
  BY <1>1, <1>4
<1> QED
  BY <1>1, <1>5 DEF Later

(* The crashes and the restarts of a gw that goes on after d.              *)
LEMMA RestartEndsWith ==
  ASSUME NEW c \in Seq(Nat), NEW r \in Seq(Nat), EndsWith(c, r), NEW d \in Nat
  PROVE  /\ Within(Append(Later(c, d), 0), Window) \in Seq(Nat)
         /\ Append(Within(Later(r, d), Window), 0) \in Seq(Nat)
         /\ EndsWith(Within(Append(Later(c, d), 0), Window), Append(Within(Later(r, d), Window), 0))
<1> DEFINE lc == Later(c, d)
           lr == Later(r, d)
           ac == Append(lc, 0)
           nc == Within(ac, Window)
           wr == Within(lr, Window)
           nr == Append(wr, 0)
           k == Len(c) - Len(r)
<1>0. Window \in Int /\ Window >= 0
  BY DetectorAssumption DEF DetectorAssumption
<1>1. lc \in Seq(Nat) /\ Len(lc) = Len(c) /\ lr \in Seq(Nat) /\ Len(lr) = Len(r)
  BY LaterFacts
<1>2. k \in Nat /\ Len(c) \in Nat /\ Len(r) \in Nat /\ Len(c) = Len(r) + k
  BY DEF EndsWith
<1>3. \A i \in 1 .. Len(r) : lr[i] = lc[i + k]
  <2> SUFFICES ASSUME NEW i \in 1 .. Len(r) PROVE lr[i] = lc[i + k]
    OBVIOUS
  <2>1. i + k \in 1 .. Len(c) /\ r[i] = c[i + k]
    BY <1>2 DEF EndsWith
  <2> QED
    BY <2>1, LaterFacts
<1> HIDE DEF lc, lr
<1>4. /\ ac \in Seq(Nat) /\ Len(ac) = Len(c) + 1 /\ ac[Len(c) + 1] = 0
      /\ \A i \in 1 .. Len(c) : ac[i] = lc[i]
  BY <1>1
<1> HIDE DEF ac
<1>5. PICK mc \in 0 .. Len(ac) :
            /\ nc \in Seq(Nat)
            /\ Len(nc) = Len(ac) - mc
            /\ \A i \in 1 .. Len(ac) - mc : nc[i] = ac[i + mc]
            /\ \A i \in 1 .. mc : ac[i] > Window
            /\ mc < Len(ac) => ~(ac[mc + 1] > Window)
  BY <1>0, <1>4, WithinFacts
<1>6. PICK mr \in 0 .. Len(lr) :
            /\ wr \in Seq(Nat)
            /\ Len(wr) = Len(lr) - mr
            /\ \A i \in 1 .. Len(lr) - mr : wr[i] = lr[i + mr]
            /\ \A i \in 1 .. mr : lr[i] > Window
            /\ mr < Len(lr) => ~(lr[mr + 1] > Window)
  BY <1>0, <1>1, WithinFacts
<1> HIDE DEF nc, wr, k
<1>7. mc <= mr + k
  <2> SUFFICES ASSUME mc > mr + k PROVE FALSE
    BY <1>1, <1>2, <1>4
  <2>1. ac[mr + k + 1] > Window
    BY <1>1, <1>2, <1>4, <1>5
  <2>2. CASE mr = Len(r)
    BY <1>0, <1>2, <1>4, <2>1, <2>2
  <2>3. CASE mr < Len(r)
    <3>1. mr + 1 \in 1 .. Len(r) /\ mr + 1 + k \in 1 .. Len(c) /\ mr + k + 1 = mr + 1 + k
      BY <1>1, <1>2, <2>3
    <3>2. lr[mr + 1] = lc[mr + 1 + k] /\ ac[mr + 1 + k] = lc[mr + 1 + k]
      BY <1>3, <1>4, <3>1
    <3> QED
      BY <1>1, <1>6, <2>1, <2>3, <3>1, <3>2
  <2> QED
    BY <1>1, <2>2, <2>3
<1>8. /\ nr \in Seq(Nat) /\ Len(nr) = Len(r) - mr + 1 /\ nr[Len(r) - mr + 1] = 0
      /\ \A i \in 1 .. Len(r) - mr : nr[i] = lr[i + mr]
  <2>1. Len(wr) = Len(r) - mr /\ wr \in Seq(Nat)
    BY <1>1, <1>6
  <2>2. /\ nr \in Seq(Nat) /\ Len(nr) = Len(wr) + 1 /\ nr[Len(wr) + 1] = 0
        /\ \A i \in 1 .. Len(wr) : nr[i] = wr[i]
    BY <2>1
  <2> HIDE DEF nr
  <2> QED
    BY <1>1, <1>6, <2>1, <2>2
<1> HIDE DEF nr
<1>9. Len(nr) <= Len(nc)
  BY <1>1, <1>2, <1>4, <1>5, <1>7, <1>8
<1>10. ASSUME NEW i \in 1 .. Len(nr) PROVE nr[i] = nc[i + (Len(nc) - Len(nr))]
  <2>1. /\ i + (Len(nc) - Len(nr)) = i + mr + k - mc
        /\ i + mr + k - mc \in 1 .. Len(ac) - mc
        /\ (i + mr + k - mc) + mc = i + mr + k
    <3>1. /\ mc \in Nat /\ mr \in Nat /\ i \in Nat /\ i >= 1 /\ i <= Len(r) - mr + 1
          /\ Len(nc) = Len(c) + 1 - mc /\ Len(nr) = Len(r) - mr + 1 /\ Len(ac) = Len(c) + 1
      BY <1>1, <1>2, <1>4, <1>5, <1>8
    <3> HIDE DEF nr, nc
    <3> QED
      BY <1>2, <1>7, <3>1
  <2>2. nc[i + (Len(nc) - Len(nr))] = ac[i + mr + k]
    BY <1>5, <2>1
  <2>3. CASE i = Len(r) - mr + 1
    <3>1. i + mr + k = Len(c) + 1
      BY <1>1, <1>2, <2>3
    <3> QED
      BY <1>4, <1>8, <2>2, <2>3, <3>1
  <2>4. CASE i \in 1 .. Len(r) - mr
    <3>1. i + mr \in 1 .. Len(r) /\ i + mr + k \in 1 .. Len(c)
      BY <1>1, <1>2, <2>4
    <3> QED
      BY <1>3, <1>4, <1>8, <2>2, <2>4, <3>1
  <2> QED
    BY <1>1, <1>8, <2>3, <2>4
<1> QED
  BY <1>5, <1>8, <1>9, <1>10 DEF EndsWith, nc, nr, ac, lc, wr, lr

(* What a gw counts covers what it has done, and it goes on only below     *)
(* max_crashes.                                                            *)
Covered(g) ==
    /\ gw[g].det.crashes \in Seq(Nat)
    /\ restarts[g] \in Seq(Nat)
    /\ EndsWith(gw[g].det.crashes, restarts[g])
    /\ restarts[g] # <<>> => Len(gw[g].det.crashes) < MaxCrashes
    /\ pc[g] \notin Driving => restarts[g] = <<>>

(* Of every gw, with a history file from which the next one may start.     *)
LimitInv ==
    /\ HistoryOK
    /\ DOMAIN restarts = Gws
    /\ \A g \in Gws : Covered(g)
    /\ history # <<>> => history[1].crashes \in Seq(Nat)

(* Every sequence ends with the empty one.                                 *)
LEMMA EndsWithNothing ==
  <<>> \in Seq(Nat) /\ \A s \in Seq(Nat) : EndsWith(s, <<>>)
<1>1. <<>> \in Seq(Nat)
  OBVIOUS
<1>2. ASSUME NEW s \in Seq(Nat) PROVE EndsWith(s, <<>>)
  BY DEF EndsWith
<1> QED
  BY <1>1, <1>2

(* What is read of the history file.                                       *)
LEMMA LoadedCrashes ==
  ASSUME HistoryOK, history # <<>> => history[1].crashes \in Seq(Nat)
  PROVE  WellKept(Loaded(history)) /\ Loaded(history).crashes \in Seq(Nat)
<1>1. WellKept(Loaded(history))
  BY LoadKeeps
<1>2. CASE history = <<>>
  <2>1. Loaded(history) = NewDetector
    BY <1>2 DEF Loaded, Load
  <2>2. NewDetector.crashes = <<>>
    BY DEF NewDetector
  <2> QED
    BY <1>1, <2>1, <2>2
<1>3. CASE history # <<>>
  <2>1. WellKept(history[1]) /\ Window - 1 \in Int
    BY <1>3, DetectorAssumption DEF HistoryOK, DetectorAssumption
  <2>2. Loaded(history).crashes = Within(history[1].crashes, Window - 1)
    BY <1>3, <2>1 DEF Loaded, Load, WellKept, DetFields
  <2>3. Within(history[1].crashes, Window - 1) \in Seq(Nat)
    BY <1>3, <2>1, WithinFacts
  <2> QED
    BY <1>1, <2>2, <2>3
<1> QED
  BY <1>1, <1>2, <1>3

(* What another restart leaves of the crashes.                             *)
LEMMA RecordedCrashes ==
  ASSUME NEW g, WellKept(gw[g].det), NEW d, NEW phase
  PROVE  Recorded(Ticked(g, d), phase).crashes
            = Within(Append(Later(gw[g].det.crashes, d), 0), Window)
<1> DEFINE det == Elapse(gw[g].det, d)
           x == Older(gw[g].det.healthy, d, Stability)
           y == Later(gw[g].det.crashes, d)
<1>1. WellKept(det) /\ det.crashes = y
  <2>1. det = [gw[g].det EXCEPT !.crashes = y, !.healthy = x]
    BY DEF Elapse
  <2> HIDE DEF x, y, det
  <2>2. det.crashes = y
    BY <2>1 DEF WellKept, DetFields
  <2> QED
    BY <2>2, ElapseKeeps DEF det
<1>2. Ticked(g, d) = IF d >= Stability THEN HealthyTick(det) ELSE det
  BY DEF Ticked
<1> HIDE DEF det, y
<1>3. HealthyTick(det) = [det EXCEPT !.healthy = 0]
  BY <1>1, DetectorAssumption DEF HealthyTick, WellKept, Never, DetectorAssumption
<1>4. Ticked(g, d).crashes = y
  BY <1>1, <1>2, <1>3 DEF WellKept, DetFields
<1>5. Recorded(Ticked(g, d), phase).crashes = Within(Append(Ticked(g, d).crashes, 0), Window)
  BY DEF Recorded
<1> QED
  BY <1>4, <1>5 DEF y

(* The history file, and time that passes.                                 *)
LEMMA AgedCrashes ==
  ASSUME HistoryOK, history # <<>> => history[1].crashes \in Seq(Nat), NEW d \in Nat
  PROVE  Aged(history, d) # <<>> => Aged(history, d)[1].crashes \in Seq(Nat)
<1> SUFFICES ASSUME history # <<>>
             PROVE  Aged(history, d)[1].crashes \in Seq(Nat)
  BY FileKeeps
<1> DEFINE old == history[1]
           x == Older(old.healthy, d, Stability)
           y == Later(old.crashes, d)
<1>1. WellKept(old) /\ y \in Seq(Nat)
  BY LaterFacts DEF HistoryOK
<1>2. Elapse(old, d) = [old EXCEPT !.crashes = y, !.healthy = x]
  BY DEF Elapse
<1>3. Aged(history, d)[1] = Elapse(old, d)
  BY DEF Aged
<1> HIDE DEF old, x, y
<1> QED
  BY <1>1, <1>2, <1>3 DEF WellKept, DetFields

(* The detector has let the gw restart.                                    *)
Restarted(g, d, phase) ==
    /\ gw'[g].det = Recorded(Ticked(g, d), phase)
    /\ ~Stops(gw'[g].det, phase)
    /\ restarts'[g] = Append(Within(Later(restarts[g], d), Window), 0)
    /\ pc'[g] \in {"cooldown", "backoff"}

(* What a step makes of a gw's detector, of its count, and of the file.    *)
DetStep(g) ==
    /\ \/ /\ gw'[g].det = gw[g].det /\ restarts'[g] = restarts[g]
          /\ pc[g] \in Driving => pc'[g] \in Driving
       \/ gw'[g].det = NewDetector /\ restarts'[g] = <<>>
       \/ gw'[g].det = NewDetector /\ restarts'[g] = restarts[g] /\ pc[g] \notin Driving
       \/ gw'[g].det = Loaded(history) /\ restarts'[g] = <<>>
       \/ \E d \in Nat : \E phase : Restarted(g, d, phase)
    /\ \/ history' \in {history, <<>>}
       \/ \E d \in Nat : history' = Aged(history, d)
       \/ history' = Persist(gw'[g].det)

(* A crash, an error.                                                      *)
LEMMA CrashDets ==
  ASSUME ProcsOK, DOMAIN restarts = Gws, NEW g \in Gws, NEW v, NEW d \in Nat, NEW lost,
         AfterCrash(g, v, d) \/ AfterError(g, d, lost)
  PROVE  DetStep(g)
<1>0. /\ DOMAIN pc = Gws /\ DOMAIN gw = Gws /\ DOMAIN gw[g] = Fields
      /\ Left(g).det = NewDetector
  BY LocalsFacts DEF ProcsOK, LocalsOK
<1>1. ASSUME Fail(g) PROVE gw'[g].det = NewDetector /\ restarts'[g] = <<>>
  BY <1>0, <1>1 DEF Fail
<1>2. ASSUME NEW det, NEW next, Restart(g, det, d, next)
      PROVE  /\ gw'[g].det = det /\ pc'[g] = next
             /\ restarts'[g] = Append(Within(Later(restarts[g], d), Window), 0)
  BY <1>0, <1>2 DEF Restart, Goto, Fields
<1>3. CASE AfterCrash(g, v, d)
  <2>1. PICK phase :
           LET det == Recorded(Ticked(g, d), phase)
           IN  /\ IF Stops(det, phase) THEN Fail(g) ELSE Restart(g, det, d, "cooldown")
               /\ history' = <<>> \/ history' = Aged(history, d)
    BY <1>3 DEF AfterCrash
  <2> DEFINE det == Recorded(Ticked(g, d), phase)
  <2>2. Fail(g) \/ (Restart(g, det, d, "cooldown") /\ ~Stops(det, phase))
    BY <2>1
  <2>3. (gw'[g].det = NewDetector /\ restarts'[g] = <<>>) \/ Restarted(g, d, phase)
    <3>1. CASE Fail(g)
      BY <1>1, <3>1
    <3>2. CASE Restart(g, det, d, "cooldown") /\ ~Stops(det, phase)
      BY <1>2, <3>2 DEF Restarted
    <3> QED
      BY <2>2, <3>1, <3>2
  <2> QED
    BY <2>1, <2>3 DEF DetStep
<1>4. CASE AfterError(g, d, lost)
  <2> DEFINE det == Recorded(Ticked(g, d), 0)
  <2>1. \/ Fail(g) /\ history' = Aged(history, d)
        \/ Restart(g, det, d, "backoff") /\ ~Stops(det, 0) /\ history' = Saved(det, d, lost)
    BY <1>4 DEF AfterError
  <2>2. CASE Fail(g) /\ history' = Aged(history, d)
    BY <1>1, <2>2 DEF DetStep
  <2>3. CASE Restart(g, det, d, "backoff") /\ ~Stops(det, 0) /\ history' = Saved(det, d, lost)
    <3>1. Restarted(g, d, 0) /\ gw'[g].det = det
      BY <1>2, <2>3 DEF Restarted
    <3>2. history' = Aged(history, d) \/ history' = Persist(gw'[g].det)
      BY <2>3, <3>1 DEF Saved
    <3> QED
      BY <3>1, <3>2 DEF DetStep
  <2> QED
    BY <2>1, <2>2, <2>3
<1> QED
  BY <1>3, <1>4

(* Every step.                                                             *)
LEMMA StepDets ==
  ASSUME ProcsOK, DOMAIN restarts = Gws, NEW g \in Gws, Step(g)
  PROVE  /\ DetStep(g)
         /\ DOMAIN restarts' = Gws
         /\ \A h \in Gws : h # g => restarts'[h] = restarts[h]
<1>0. /\ DOMAIN pc = Gws /\ DOMAIN gw = Gws /\ DOMAIN gw[g] = Fields
      /\ Left(g).det = NewDetector /\ Locals.det = NewDetector
  BY LocalsFacts DEF ProcsOK, LocalsOK, Locals
<1>1. \/ restarts' = restarts
      \/ \E r : restarts' = [restarts EXCEPT ![g] = r]
  <2>1. ASSUME NEW det, NEW d, NEW next, Restart(g, det, d, next)
        PROVE  \E r : restarts' = [restarts EXCEPT ![g] = r]
    BY <2>1 DEF Restart
  <2>2. ASSUME Fail(g) \/ Succeed(g) PROVE \E r : restarts' = [restarts EXCEPT ![g] = r]
    BY <2>2 DEF Fail, Succeed
  <2>3. ASSUME NEW v, NEW d, AfterCrash(g, v, d)
        PROVE  \E r : restarts' = [restarts EXCEPT ![g] = r]
    BY <2>1, <2>2, <2>3 DEF AfterCrash
  <2>4. ASSUME NEW d, NEW lost, AfterError(g, d, lost)
        PROVE  \E r : restarts' = [restarts EXCEPT ![g] = r]
    BY <2>1, <2>2, <2>4 DEF AfterError
  <2>5. ASSUME NEW a, Begin(g, a) PROVE \E r : restarts' = [restarts EXCEPT ![g] = r]
    BY <2>5 DEF Begin
  <2>6. ASSUME NEW v, NEW d, NEW lost, After(g, v, d, lost)
        PROVE  \E r : restarts' = [restarts EXCEPT ![g] = r]
    BY <2>2, <2>3, <2>4, <2>6 DEF After
  <2>7. CASE Start(g)
    BY <2>5, <2>7 DEF Start
  <2>8. CASE Return(g)
    BY <2>6, <2>8 DEF Return
  <2>9. CASE FindDone(g) \/ TimeIsUp(g) \/ SpawnAborts(g) \/ SpawnFails(g)
    BY <2>2, <2>3, <2>9 DEF FindDone, TimeIsUp, SpawnAborts, SpawnFails
  <2>10. CASE GwDies(g)
    BY <2>10 DEF GwDies
  <2> QED
    BY <2>7, <2>8, <2>9, <2>10
    DEF Step, CheckOwner, OpenLock, Flock, UnlinkLock, CloseLock, StartFails, Adopt, Decide, Spawn,
        WriteOwner, Dispatch, Wake
<1>2. DOMAIN restarts' = Gws /\ \A h \in Gws : h # g => restarts'[h] = restarts[h]
  BY <1>1
<1>3. ASSUME Fail(g) \/ Succeed(g) PROVE gw'[g].det = NewDetector /\ restarts'[g] = <<>>
  <2>1. DOMAIN Left(g) = Fields
    BY LocalsFacts
  <2>2. CASE Fail(g)
    BY <1>0, <2>2 DEF Fail
  <2>3. CASE Succeed(g)
    <3>1. restarts'[g] = <<>>
      BY <2>3 DEF Succeed
    <3>2. \/ gw' = [gw EXCEPT ![g] = [Left(g) EXCEPT !.done = @ + 1]]
          \/ gw' = [gw EXCEPT ![g] = [Left(g) EXCEPT !.done = @ + 1, !.index = @ + 1]]
      BY <2>3 DEF Succeed
    <3> QED
      BY <1>0, <2>1, <3>1, <3>2 DEF Fields
  <2> QED
    BY <1>3, <2>2, <2>3
<1>4. CASE CheckOwner(g) \/ OpenLock(g) \/ Flock(g) \/ UnlinkLock(g) \/ StartFails(g)
  BY <1>0, <1>4
  DEF DetStep, CheckOwner, OpenLock, Flock, UnlinkLock, StartFails, Driving, Fields
<1>5. CASE CloseLock(g)
  BY <1>0, <1>5 DEF DetStep, CloseLock, Driving
<1>6. CASE GwDies(g)
  BY <1>0, <1>6 DEF DetStep, GwDies
<1>7. CASE Start(g)
  <2>1. PICK a : Begin(g, a)
    BY <1>7 DEF Start
  <2>2. gw'[g].det = Loaded(history) /\ restarts'[g] = <<>> /\ history' = history
    BY <2>1, BeginLeaves DEF Begin
  <2> QED
    BY <1>2, <2>2 DEF DetStep
<1>8. CASE Adopt(g) \/ Decide(g) \/ Spawn(g) \/ WriteOwner(g) \/ Dispatch(g) \/ Wake(g)
  <2>1. gw'[g].det = gw[g].det /\ restarts' = restarts /\ history' = history
    BY <1>0, <1>8 DEF Adopt, Decide, Spawn, WriteOwner, Dispatch, Wake, Fields
  <2>2. pc'[g] \in Driving
    BY <1>0, <1>8 DEF Adopt, Decide, Spawn, WriteOwner, Dispatch, Wake, Goto, Driving
  <2> QED
    BY <1>2, <2>1, <2>2 DEF DetStep
<1>9. CASE FindDone(g) \/ TimeIsUp(g) \/ SpawnAborts(g)
  <2>1. (Fail(g) \/ Succeed(g)) /\ history' \in {history, <<>>}
    BY <1>9 DEF FindDone, TimeIsUp, SpawnAborts, Succeed
  <2> QED
    BY <1>2, <1>3, <2>1 DEF DetStep
<1>10. CASE SpawnFails(g)
  <2>1. AfterCrash(g, "crashed", 0)
    BY <1>10 DEF SpawnFails
  <2> QED
    BY <1>2, <2>1, CrashDets
<1>11. CASE Return(g)
  <2>1. PICK v \in {"completed", "crashed", "failed", "stuck", "error"}, d \in Durations,
             lost \in BOOLEAN : After(g, v, d, lost)
    BY <1>11 DEF Return
  <2>2. d \in Nat
    BY GwAssumption DEF GwAssumption
  <2>3. \/ Succeed(g) \/ (Fail(g) /\ history' = Aged(history, d))
        \/ AfterError(g, d, lost) \/ AfterCrash(g, v, d)
    BY <2>1 DEF After
  <2>4. CASE Succeed(g)
    BY <1>2, <1>3, <2>4 DEF DetStep, Succeed
  <2>5. CASE Fail(g) /\ history' = Aged(history, d)
    BY <1>2, <1>3, <2>2, <2>5 DEF DetStep
  <2> QED
    BY <1>2, <2>2, <2>3, <2>4, <2>5, CrashDets
<1> QED
  BY <1>2, <1>4, <1>5, <1>6, <1>7, <1>8, <1>9, <1>10, <1>11 DEF Step

(* The limit is kept by whatever becomes of a detector.                    *)
LEMMA DetsCovered ==
  ASSUME LimitInv, NEW g \in Gws, DetStep(g)
  PROVE  /\ WellKept(gw'[g].det)
         /\ Covered(g)'
         /\ history' # <<>> => history' = <<history'[1]>> /\ WellKept(history'[1])
         /\ history' # <<>> => history'[1].crashes \in Seq(Nat)
<1>0. /\ WellKept(gw[g].det) /\ Covered(g) /\ HistoryOK
      /\ history # <<>> => history[1].crashes \in Seq(Nat)
      /\ history # <<>> => history = <<history[1]>> /\ WellKept(history[1])
  BY DEF LimitInv, HistoryOK
<1>1. WellKept(gw'[g].det) /\ Covered(g)'
  <2>1. CASE /\ gw'[g].det = gw[g].det /\ restarts'[g] = restarts[g]
             /\ pc[g] \in Driving => pc'[g] \in Driving
    BY <1>0, <2>1 DEF Covered
  <2>2. CASE gw'[g].det = NewDetector /\ restarts'[g] = <<>>
    <3>1. NewDetector.crashes = <<>> /\ WellKept(NewDetector)
      BY NewIsKept DEF NewDetector
    <3>2. <<>> \in Seq(Nat) /\ EndsWith(<<>>, <<>>)
      BY EndsWithNothing
    <3> QED
      BY <2>2, <3>1, <3>2 DEF Covered
  <2>3. CASE gw'[g].det = NewDetector /\ restarts'[g] = restarts[g] /\ pc[g] \notin Driving
    <3>1. restarts'[g] = <<>>
      BY <1>0, <2>3 DEF Covered
    <3> QED
      BY <2>2, <2>3, <3>1
  <2>4. CASE gw'[g].det = Loaded(history) /\ restarts'[g] = <<>>
    <3>1. WellKept(Loaded(history)) /\ Loaded(history).crashes \in Seq(Nat)
      BY <1>0, LoadedCrashes
    <3> HIDE DEF Loaded
    <3> QED
      BY <2>4, <3>1, EndsWithNothing DEF Covered
  <2>5. CASE \E d \in Nat : \E phase : Restarted(g, d, phase)
    <3>1. PICK d \in Nat : \E phase : Restarted(g, d, phase)
      BY <2>5
    <3>2. PICK phase : Restarted(g, d, phase)
      BY <3>1
    <3>3. /\ WellKept(gw'[g].det)
          /\ gw'[g].det.crashes = Within(Append(Later(gw[g].det.crashes, d), 0), Window)
      BY <1>0, <3>2, RecordedKeeps, RecordedCrashes DEF Restarted
    <3>4. Len(gw'[g].det.crashes) < MaxCrashes
      <4>1. ~(Len(gw'[g].det.crashes) >= MaxCrashes)
        BY <3>2 DEF Restarted, Stops
      <4>2. gw'[g].det.crashes \in Seq(Nat)
        BY <1>0, <3>3, RestartEndsWith DEF Covered
      <4>3. MaxCrashes \in Nat /\ Len(gw'[g].det.crashes) \in Nat
        BY <4>2, DetectorAssumption DEF DetectorAssumption
      <4> QED
        BY <4>1, <4>3
    <3>5. /\ gw'[g].det.crashes \in Seq(Nat) /\ restarts'[g] \in Seq(Nat)
          /\ EndsWith(gw'[g].det.crashes, restarts'[g])
      BY <1>0, <3>2, <3>3, RestartEndsWith DEF Covered, Restarted
    <3>6. pc'[g] \in Driving
      BY <3>2 DEF Restarted, Driving
    <3> QED
      BY <3>3, <3>4, <3>5, <3>6 DEF Covered
  <2> QED
    BY <2>1, <2>2, <2>3, <2>4, <2>5 DEF DetStep
<1>2. CASE history' \in {history, <<>>}
  BY <1>0, <1>1, <1>2
<1>3. CASE \E d \in Nat : history' = Aged(history, d)
  BY <1>0, <1>1, <1>3, FileKeeps, AgedCrashes
<1>4. CASE history' = Persist(gw'[g].det)
  <2>1. Persist(gw'[g].det)[1].crashes = gw'[g].det.crashes
    BY <1>1 DEF Persist, WellKept, DetFields
  <2> QED
    BY <1>1, <1>4, <2>1, PersistKeeps DEF Covered
<1> QED
  BY <1>1, <1>2, <1>3, <1>4 DEF DetStep

(* No gw restarts max_crashes times within the window: single_session      *)
(* asks the detector before each restart, and the detector, which takes up *)
(* the crashes on file and forgets none that is younger, stops it.  That   *)
(* holds with or without the lock.                                         *)
THEOREM LimitedRestarts == Spec => []RestartsAreLimited
<1>1. Init => RunTypeOK /\ LimitInv
  <2> SUFFICES ASSUME Init PROVE LimitInv
    BY InitRunTypes
  <2>1. /\ \A g \in Gws : gw[g] = Locals /\ restarts[g] = <<>>
        /\ history = <<>> /\ DOMAIN restarts = Gws
    BY DEF Init
  <2>2. Locals.det.crashes = <<>> /\ WellKept(Locals.det)
    BY NewIsKept DEF Locals, NewDetector
  <2>3. \A g \in Gws : Covered(g)
    <3>1. <<>> \in Seq(Nat) /\ EndsWith(<<>>, <<>>)
      BY EndsWithNothing
    <3> QED
      BY <2>1, <2>2, <3>1 DEF Covered
  <2> QED
    BY <2>1, <2>2, <2>3 DEF LimitInv, HistoryOK
<1>2. RunTypeOK /\ LimitInv /\ [Next]_vars => (RunTypeOK /\ LimitInv)'
  <2> SUFFICES ASSUME RunTypeOK, LimitInv, [Next]_vars PROVE LimitInv'
    BY NextRunTypes
  <2>0. ProcsOK
    BY DEF RunTypeOK
  <2>1. CASE UNCHANGED vars
    BY <2>1 DEF vars, LimitInv, HistoryOK, Covered
  <2>2. ASSUME NEW g \in Gws, Step(g) PROVE LimitInv'
    <3>1. /\ DetStep(g) /\ DOMAIN restarts' = Gws
          /\ \A h \in Gws : h # g => restarts'[h] = restarts[h] /\ pc'[h] = pc[h] /\ gw'[h] = gw[h]
      BY <2>0, <2>2, StepDets, StepFrame DEF LimitInv
    <3>2. /\ WellKept(gw'[g].det) /\ Covered(g)'
          /\ history' # <<>> => history' = <<history'[1]>> /\ WellKept(history'[1])
          /\ history' # <<>> => history'[1].crashes \in Seq(Nat)
      BY <3>1, DetsCovered
    <3>3. \A h \in Gws : Covered(h)' /\ WellKept(gw'[h].det)
      <4> SUFFICES ASSUME NEW h \in Gws, h # g PROVE Covered(h)' /\ WellKept(gw'[h].det)
        BY <3>2
      <4> QED
        BY <3>1 DEF LimitInv, HistoryOK, Covered
    <3> QED
      BY <3>1, <3>2, <3>3 DEF LimitInv, HistoryOK
  <2>3. ASSUME NEW s \in Sessions, ArcBegins(s) \/ ArcAdvances(s) \/ ArcEnds(s) \/ SessionDies(s)
        PROVE  LimitInv'
    <3>1. /\ pc' = pc /\ history' = history /\ restarts' = restarts
          /\ \A h \in Gws : gw'[h].det = gw[h].det
      BY <2>3, WorldFrame DEF ArcBegins, ArcAdvances, ArcEnds, SessionDies, WorldOnly
    <3> QED
      BY <3>1 DEF LimitInv, HistoryOK, Covered
  <2> QED
    BY <2>1, <2>2, <2>3 DEF Next, World
<1>3. LimitInv => RestartsAreLimited
  <2> SUFFICES ASSUME LimitInv, NEW g \in Gws PROVE Len(restarts[g]) < MaxCrashes
    BY DEF RestartsAreLimited
  <2>1. Covered(g) /\ MaxCrashes \in Nat /\ 0 < MaxCrashes
    BY DetectorAssumption DEF LimitInv, DetectorAssumption
  <2> QED
    BY <2>1 DEF Covered, EndsWith
<1> QED
  BY <1>1, <1>2, <1>3, PTL DEF Spec

----------------------------------------------------------------------------
(* Checkpoints.                                                            *)

(* A checkpoint Rune wrote itself: done up to k, in work at most on k.     *)
DoneUpTo(c, k) ==
    \A p \in Phases :
       /\ p < k => c.status[p] = "completed"
       /\ p > k => c.status[p] = "pending"
       /\ p = k => c.status[p] \in {"pending", "in_progress"}

(* At some k.                                                              *)
InOrder(c) == c.skipMap = {} /\ \E k \in 1 .. PhaseCount + 1 : DoneUpTo(c, k)

(* The numbers of the phases.                                              *)
LEMMA PhaseNumbers ==
  /\ PhaseCount \in Nat /\ PhaseCount \in Phases /\ Ship \in Nat /\ Ship <= PhaseCount
  /\ 1 \in Phases /\ \A p \in Phases : p \in Nat /\ p <= PhaseCount /\ p >= 1
BY PhaseAssumption DEF PhaseAssumption, Phases

(* A new arc has done nothing.                                             *)
LEMMA NewInOrder == AutoMerge = TRUE => InOrder(NewArc)
<1> SUFFICES ASSUME AutoMerge = TRUE PROVE InOrder(NewArc)
  OBVIOUS
<1>1. NewArc.skipMap = {} /\ \A p \in Phases : NewArc.status[p] = "pending"
  BY DEF NewArc
<1>2. DoneUpTo(NewArc, 1)
  BY <1>1, PhaseNumbers DEF DoneUpTo
<1>3. 1 \in 1 .. PhaseCount + 1
  BY PhaseNumbers
<1> QED
  BY <1>1, <1>2, <1>3 DEF InOrder

(* What one step of an arc does to it.                                     *)
LEMMA ArcStepCases ==
  ASSUME NEW c \in Checkpoints
  PROVE  \/ \E p \in With(c, "in_progress") : ArcStep(c) = [c EXCEPT !.status[p] = "completed"]
         \/ /\ With(c, "in_progress") = {}
            /\ \E p \in Actionable(c) : /\ ArcStep(c) = [c EXCEPT !.status[p] = "in_progress"]
                                        /\ \A q \in Actionable(c) : p <= q
         \/ ArcStep(c) = [c EXCEPT !.finished = TRUE]
<1> DEFINE running == First(With(c, "in_progress"))
           next == First(Actionable(c))
<1>0. With(c, "in_progress") \subseteq Phases /\ Actionable(c) \subseteq Phases
  BY DEF With, Actionable
<1>1. IF With(c, "in_progress") = {} THEN running = 0
                                      ELSE running \in With(c, "in_progress") /\ running # 0
  BY <1>0, FirstIsMember
<1>2. IF Actionable(c) = {} THEN next = 0
      ELSE next \in Actionable(c) /\ next # 0 /\ \A q \in Actionable(c) : next <= q
  BY <1>0, FirstIsMember
<1>3. ArcStep(c) = CASE running # 0 -> [c EXCEPT !.status[running] = "completed"]
                     [] running = 0 /\ next # 0 -> [c EXCEPT !.status[next] = "in_progress"]
                     [] OTHER -> [c EXCEPT !.finished = TRUE]
  BY DEF ArcStep
<1> HIDE DEF running, next
<1>4. CASE running # 0
  BY <1>1, <1>3, <1>4
<1>5. CASE running = 0 /\ next # 0
  BY <1>1, <1>2, <1>3, <1>5
<1>6. CASE running = 0 /\ next = 0
  BY <1>3, <1>6
<1> QED
  BY <1>4, <1>5, <1>6

(* It goes on in order.                                                    *)
LEMMA StepInOrder ==
  ASSUME NEW c \in Checkpoints, InOrder(c)
  PROVE  InOrder(ArcStep(c))
<1>1. PICK k \in 1 .. PhaseCount + 1 : DoneUpTo(c, k)
  BY DEF InOrder
<1>2. c.skipMap = {} /\ k \in Nat /\ DOMAIN c.status = Phases
  BY <1>1, PhaseNumbers DEF InOrder, Checkpoints
<1>3. CASE \E p \in With(c, "in_progress") : ArcStep(c) = [c EXCEPT !.status[p] = "completed"]
  <2>1. PICK p \in With(c, "in_progress") : ArcStep(c) = [c EXCEPT !.status[p] = "completed"]
    BY <1>3
  <2>2. p \in Phases /\ c.status[p] = "in_progress"
    BY DEF With
  <2>3. p = k
    BY <1>1, <1>2, <2>2, PhaseNumbers DEF DoneUpTo
  <2>4. k + 1 \in 1 .. PhaseCount + 1
    BY <1>2, <2>2, <2>3, PhaseNumbers
  <2>5. /\ ArcStep(c).skipMap = {}
        /\ \A q \in Phases : ArcStep(c).status[q] = IF q = k THEN "completed" ELSE c.status[q]
    BY <1>2, <2>1, <2>3 DEF Checkpoints
  <2>6. DoneUpTo(ArcStep(c), k + 1)
    BY <1>1, <1>2, <2>5, PhaseNumbers DEF DoneUpTo
  <2> QED
    BY <2>4, <2>5, <2>6 DEF InOrder
<1>4. CASE /\ With(c, "in_progress") = {}
           /\ \E p \in Actionable(c) : /\ ArcStep(c) = [c EXCEPT !.status[p] = "in_progress"]
                                       /\ \A q \in Actionable(c) : p <= q
  <2>1. PICK p \in Actionable(c) : /\ ArcStep(c) = [c EXCEPT !.status[p] = "in_progress"]
                                   /\ \A q \in Actionable(c) : p <= q
    BY <1>4
  <2>2. p \in Phases /\ c.status[p] = "pending"
    BY DEF Actionable, With
  <2>3. p >= k
    BY <1>1, <1>2, <2>2, PhaseNumbers DEF DoneUpTo
  <2>4. k \in Phases
    BY <1>1, <1>2, <2>2, <2>3, PhaseNumbers DEF Phases
  <2>5. c.status[k] = "pending"
    BY <1>1, <1>4, <2>4 DEF DoneUpTo, With
  <2>6. k \in Actionable(c)
    BY <1>2, <2>4, <2>5 DEF Actionable, With
  <2>7. p = k
    BY <1>2, <2>1, <2>2, <2>3, <2>6, PhaseNumbers
  <2>8. /\ ArcStep(c).skipMap = {}
        /\ \A q \in Phases : ArcStep(c).status[q] = IF q = k THEN "in_progress" ELSE c.status[q]
    BY <1>2, <2>1, <2>7 DEF Checkpoints
  <2>9. DoneUpTo(ArcStep(c), k)
    BY <1>1, <1>2, <2>8, PhaseNumbers DEF DoneUpTo
  <2> QED
    BY <1>1, <2>8, <2>9 DEF InOrder
<1>5. CASE ArcStep(c) = [c EXCEPT !.finished = TRUE]
  <2>1. ArcStep(c).skipMap = {} /\ ArcStep(c).status = c.status
    BY <1>2, <1>5 DEF Checkpoints
  <2> QED
    BY <1>1, <2>1 DEF InOrder, DoneUpTo
<1> QED
  BY <1>3, <1>4, <1>5, ArcStepCases

(* No phase becomes pending again.                                         *)
LEMMA StepNoPending ==
  ASSUME NEW c \in Checkpoints, With(c, "pending") = {}
  PROVE  With(ArcStep(c), "pending") = {}
<1>1. \/ \E p : \/ ArcStep(c) = [c EXCEPT !.status[p] = "completed"]
                \/ ArcStep(c) = [c EXCEPT !.status[p] = "in_progress"]
      \/ ArcStep(c) = [c EXCEPT !.finished = TRUE]
  BY ArcStepCases
<1>2. \A q \in Phases : ArcStep(c).status[q] = c.status[q]
         \/ ArcStep(c).status[q] \in {"completed", "in_progress"}
  BY <1>1 DEF Checkpoints
<1> QED
  BY <1>2 DEF With

(* Complete or out of work, an arc that went in order is near its end.     *)
LEMMA DoneIsNear ==
  ASSUME NEW c \in Checkpoints, InOrder(c), Done(c)
  PROVE  IsNearCompletion(c)
<1>1. PICK k \in 1 .. PhaseCount + 1 : DoneUpTo(c, k)
  BY DEF InOrder
<1>2. c.status[PhaseCount] \in {"completed", "pending", "in_progress"}
  BY <1>1, PhaseNumbers DEF DoneUpTo
<1>3. CASE c.finished
  BY <1>3 DEF IsNearCompletion
<1>4. CASE c.status[PhaseCount] \in {"completed", "skipped"}
  BY <1>2, <1>4 DEF IsNearCompletion
<1>5. CASE InMap(c) # {} /\ InMap(c) \subseteq With(c, "completed") \cup With(c, "skipped")
  BY <1>5 DEF IsNearCompletion, With
<1> QED
  BY <1>3, <1>4, <1>5 DEF Done, IsComplete, IsTerminalPhaseCompleted

(* So is one with nothing pending.                                         *)
LEMMA NoPendingIsNear ==
  ASSUME NEW c \in Checkpoints, InOrder(c), With(c, "pending") = {}
  PROVE  IsNearCompletion(c)
<1>1. PICK k \in 1 .. PhaseCount + 1 : DoneUpTo(c, k)
  BY DEF InOrder
<1>2. k \in Nat /\ \A p \in Phases : c.status[p] # "pending"
  BY <1>1, PhaseNumbers DEF With
<1>3. k >= PhaseCount
  BY <1>1, <1>2, PhaseNumbers DEF DoneUpTo
<1>4. CASE k > PhaseCount
  BY <1>1, <1>2, <1>4, PhaseNumbers DEF DoneUpTo, IsNearCompletion
<1>5. CASE k = PhaseCount /\ ~Done(c)
  <2>1. c.status[PhaseCount] = "in_progress"
    BY <1>1, <1>2, <1>5, PhaseNumbers DEF DoneUpTo
  <2>2. With(c, "in_progress") = {PhaseCount}
    <3>1. ASSUME NEW p \in Phases, c.status[p] = "in_progress" PROVE p = PhaseCount
      <4>1. ~(p < k)
        BY <1>1, <3>1 DEF DoneUpTo
      <4> QED
        BY <1>5, <4>1, PhaseNumbers
    <3> QED
      BY <2>1, <3>1, PhaseNumbers DEF With
  <2>3. First(With(c, "in_progress")) = PhaseCount
    <3>1. {PhaseCount} \subseteq Phases
      BY PhaseNumbers
    <3> QED
      BY <2>2, <3>1, FirstIsMember
  <2>4. PhaseCount \in InMap(c)
    BY <2>1, PhaseNumbers DEF InMap, With
  <2>5. InMap(c) # {} /\ ~IsComplete(c) /\ PhaseCount # 0
    BY <1>5, <2>4, PhaseNumbers DEF Done
  <2>6. Position(c).kind = "running" /\ Position(c).phase = PhaseCount
    BY <2>3, <2>5 DEF Position
  <2>7. EffectivePhase(c) = PhaseCount
    BY <2>6 DEF EffectivePhase
  <2> QED
    BY <2>7, PhaseNumbers DEF IsNearCompletion
<1> QED
  BY <1>2, <1>3, <1>4, <1>5, DoneIsNear, PhaseNumbers

----------------------------------------------------------------------------
(* Batches.                                                                *)

(* Before a gw begins with the plan it is at.                              *)
Early == {"check", "open", "lock", "start"}

(* How a step moves a gw along its batch.                                  *)
Moved(g) ==
    \/ pc'[g] \in Gone
    \/ gw'[g].index = gw[g].index /\ (pc'[g] \in Early => pc[g] \in Early)
    \/ gw'[g].index = gw[g].index + 1

(* What a step does to the locals that matter.                             *)
Kept(g) ==
    /\ Moved(g)
    /\ pc[g] \in Driving /\ pc'[g] \in Driving =>
          gw'[g].index = gw[g].index /\ gw'[g].adopts \in {gw[g].adopts, None}
    /\ gw'[g].done \in {gw[g].done, 0} \/ (Succeed(g) /\ gw'[g].done = gw[g].done + 1)

(* The ways out of an attempt.                                             *)
LEMMA WaysKeep ==
  ASSUME RunTypeOK, NEW g \in Gws, pc[g] \notin Early,
         Succeed(g) \/ Fail(g) \/ \E det, d : \/ Restart(g, det, d, "cooldown")
                                              \/ Restart(g, det, d, "backoff")
  PROVE  Kept(g)
<1>0. DOMAIN pc = Gws /\ DOMAIN gw = Gws /\ DOMAIN gw[g] = Fields
  BY DEF RunTypeOK, ProcsOK, LocalsOK
<1>1. DOMAIN Left(g) = Fields /\ Left(g).index = gw[g].index /\ Left(g).done = gw[g].done
  BY LocalsFacts
<1>2. CASE Succeed(g)
  <2>1. CASE gw[g].index = Len(batch[g])
    <3>1. pc'[g] = "unlink" /\ gw'[g] = [Left(g) EXCEPT !.done = @ + 1]
      BY <1>0, <1>2, <2>1 DEF Succeed, Goto
    <3>2. gw'[g].index = gw[g].index /\ gw'[g].done = gw[g].done + 1
      BY <1>1, <3>1 DEF Fields
    <3> QED
      BY <1>2, <3>1, <3>2 DEF Kept, Moved, Driving, Early
  <2>2. CASE gw[g].index # Len(batch[g])
    <3>1. pc'[g] = "start" /\ gw'[g] = [Left(g) EXCEPT !.done = @ + 1, !.index = @ + 1]
      BY <1>0, <1>2, <2>2 DEF Succeed, Goto
    <3>2. gw'[g].index = gw[g].index + 1 /\ gw'[g].done = gw[g].done + 1
      BY <1>1, <3>1 DEF Fields
    <3> QED
      BY <1>2, <3>1, <3>2 DEF Kept, Moved, Driving
  <2> QED
    BY <2>1, <2>2
<1>3. CASE Fail(g)
  <2>1. pc'[g] = "unlink" /\ gw'[g] = Left(g)
    BY <1>0, <1>3 DEF Fail, Goto
  <2> QED
    BY <1>1, <2>1 DEF Kept, Moved, Driving, Early
<1>4. ASSUME NEW det, NEW d, NEW next \in {"cooldown", "backoff"}, Restart(g, det, d, next)
      PROVE  Kept(g)
  <2>1. /\ pc'[g] = next /\ gw'[g].index = gw[g].index /\ gw'[g].adopts = None
        /\ gw'[g].done = gw[g].done
    BY <1>0, <1>4 DEF Restart, Goto, Fields
  <2> QED
    BY <1>4, <2>1 DEF Kept, Moved, Early
<1> QED
  BY <1>2, <1>3, <1>4

(* Every step of a gw.                                                     *)
LEMMA StepKept ==
  ASSUME RunTypeOK, NEW g \in Gws, Step(g)
  PROVE  Kept(g) /\ pc[g] \notin Gone
<1>0. DOMAIN pc = Gws /\ DOMAIN gw = Gws /\ DOMAIN gw[g] = Fields /\ ProcsOK
  BY DEF RunTypeOK, ProcsOK, LocalsOK
<1>1. CASE Start(g)
  <2>1. PICK a : Begin(g, a)
    BY <1>1 DEF Start
  <2>2. /\ pc'[g] = "decide" /\ gw'[g].index = gw[g].index /\ gw'[g].done = gw[g].done
    BY <1>0, <2>1 DEF Begin, Goto, Fields
  <2> QED
    BY <1>1, <2>2 DEF Start, Kept, Moved, Driving, Gone, Early
<1>2. CASE FindDone(g) \/ TimeIsUp(g) \/ SpawnAborts(g)
  <2>1. (Succeed(g) \/ Fail(g)) /\ pc[g] \in {"decide", "spawn"}
    BY <1>2 DEF FindDone, TimeIsUp, SpawnAborts
  <2> QED
    BY <2>1, WaysKeep DEF Gone, Early
<1>3. CASE SpawnFails(g) \/ Return(g)
  <2>1. ASSUME NEW v, NEW d, AfterCrash(g, v, d)
        PROVE  Fail(g) \/ \E det : Restart(g, det, d, "cooldown")
    BY <2>1 DEF AfterCrash
  <2>2. ASSUME NEW d, NEW lost, AfterError(g, d, lost)
        PROVE  Fail(g) \/ \E det : Restart(g, det, d, "backoff")
    BY <2>2 DEF AfterError
  <2>3. \/ Succeed(g) \/ Fail(g)
        \/ \E v, d : AfterCrash(g, v, d)
        \/ \E d, lost : AfterError(g, d, lost)
    <3>1. CASE SpawnFails(g)
      BY <3>1 DEF SpawnFails
    <3>2. CASE Return(g)
      <4>1. PICK v, d, lost : After(g, v, d, lost)
        BY <3>2, Zenon DEF Return
      <4>2. Succeed(g) \/ Fail(g) \/ AfterError(g, d, lost) \/ AfterCrash(g, v, d)
        BY <4>1 DEF After
      <4> QED
        BY <4>2
    <3> QED
      BY <1>3, <3>1, <3>2
  <2>4. pc[g] \in {"spawn", "dispatch", "watch"}
    BY <1>3 DEF SpawnFails, Return
  <2> QED
    BY <2>1, <2>2, <2>3, <2>4, WaysKeep DEF Gone, Early
<1>4. CASE CloseLock(g) \/ GwDies(g)
  <2>1. /\ pc'[g] \in Gone /\ pc'[g] \notin Driving /\ pc[g] \notin Gone
        /\ gw'[g].done = 0
    BY <1>0, <1>4 DEF CloseLock, GwDies, Goto, Gone, Driving, Locals
  <2> QED
    BY <2>1 DEF Kept, Moved
<1>5. CASE CheckOwner(g) \/ OpenLock(g) \/ Flock(g) \/ UnlinkLock(g) \/ StartFails(g)
  <2>1. /\ gw'[g].index = gw[g].index /\ gw'[g].adopts = gw[g].adopts /\ gw'[g].done = gw[g].done
    BY <1>0, <1>5 DEF CheckOwner, OpenLock, Flock, UnlinkLock, StartFails, Fields
  <2>2. /\ pc[g] \notin Gone /\ pc'[g] \in Early => pc[g] \in Early
    BY <1>0, <1>5
    DEF CheckOwner, OpenLock, Flock, UnlinkLock, StartFails, Goto, Gone, Early
  <2>3. pc[g] \notin Gone
    BY <1>5 DEF CheckOwner, OpenLock, Flock, UnlinkLock, StartFails, Gone
  <2> QED
    BY <2>1, <2>2, <2>3 DEF Kept, Moved
<1>6. CASE Adopt(g) \/ Decide(g) \/ Spawn(g) \/ WriteOwner(g) \/ Dispatch(g) \/ Wake(g)
  <2>1. /\ gw'[g].index = gw[g].index /\ gw'[g].adopts = gw[g].adopts /\ gw'[g].done = gw[g].done
    BY <1>0, <1>6 DEF Adopt, Decide, Spawn, WriteOwner, Dispatch, Wake, Fields
  <2>2. pc[g] \notin Gone /\ pc'[g] \notin Early
    BY <1>0, <1>6
    DEF Adopt, Decide, Spawn, WriteOwner, Dispatch, Wake, Goto, Gone, Early
  <2> QED
    BY <2>1, <2>2 DEF Kept, Moved
<1> QED
  BY <1>1, <1>2, <1>3, <1>4, <1>5, <1>6 DEF Step

(* No gw writes a checkpoint, or a loop file.                              *)
LEMMA StepLoop ==
  ASSUME NEW g \in Gws, Step(g)
  PROVE  cp' = cp /\ loop' \in {loop, None} /\ (~Start(g) => loop' = loop)
BY DEF Step, CheckOwner, OpenLock, Flock, UnlinkLock, CloseLock, Start, Begin, StartFails, Adopt,
        Decide, FindDone, TimeIsUp, Spawn, SpawnAborts, SpawnFails, WriteOwner, Dispatch, Return,
        Wake, GwDies, world

----------------------------------------------------------------------------
(* Loop files, and what a success rests on.                                *)

(* All of them are such.                                                   *)
CpInOrder == \A p \in Plans : cp[p] # None => InOrder(cp[p])

(* A loop file is closed when nothing is left to do.                       *)
LoopEnded ==
    loop # None /\ ~loop.active => cp[loop.plan] # None /\ With(cp[loop.plan], "pending") = {}

(* The checkpoints are Rune's business.                                    *)
LEMMA NextCheckpoints ==
  ASSUME AutoMerge = TRUE, RunTypeOK, CpInOrder, LoopEnded, [Next]_vars
  PROVE  CpInOrder' /\ LoopEnded'
<1>0. /\ cp \in [Plans -> Checkpoints \cup {None}] /\ loop \in LoopFile \cup {None}
      /\ DOMAIN cp = Plans
  BY DEF RunTypeOK, FilesOK
<1>1. ASSUME cp' = cp, loop' \in {loop, None} PROVE CpInOrder' /\ LoopEnded'
  BY <1>1 DEF CpInOrder, LoopEnded
<1>2. ASSUME NEW g \in Gws, Step(g) PROVE CpInOrder' /\ LoopEnded'
  BY <1>1, <1>2, StepLoop
<1>3. ASSUME NEW s \in Sessions, ArcBegins(s) PROVE CpInOrder' /\ LoopEnded'
  <2>1. (cp' = cp \/ cp' = [cp EXCEPT ![PlanOf(s)] = None]) /\ loop'.active = TRUE
    BY <1>3 DEF ArcBegins
  <2> QED
    BY <1>0, <2>1 DEF CpInOrder, LoopEnded
<1>4. ASSUME NEW s \in Sessions, ArcAdvances(s) PROVE CpInOrder' /\ LoopEnded'
  <2>1. /\ loop' = loop
        /\ cp' = [cp EXCEPT ![PlanOf(s)] = IF cp[PlanOf(s)] = None THEN NewArc
                                           ELSE ArcStep(cp[PlanOf(s)])]
    BY <1>4 DEF ArcAdvances
  <2>2. ASSUME NEW p \in Plans
        PROVE  /\ cp'[p] = cp[p] \/ (cp[p] = None /\ cp'[p] = NewArc)
                  \/ (cp[p] # None /\ cp'[p] = ArcStep(cp[p]))
               /\ cp[p] # None => cp[p] \in Checkpoints
    BY <1>0, <2>1
  <2>3. CpInOrder'
    BY <2>2, NewInOrder, StepInOrder DEF CpInOrder
  <2>4. ASSUME loop # None, ~loop.active
        PROVE  cp'[loop.plan] # None /\ With(cp'[loop.plan], "pending") = {}
    <3>1. loop.plan \in Plans /\ cp[loop.plan] # None /\ With(cp[loop.plan], "pending") = {}
      BY <1>0, <2>4 DEF LoopEnded, LoopFile
    <3>2. cp[loop.plan] \in Checkpoints /\ cp'[loop.plan] \in {cp[loop.plan], ArcStep(cp[loop.plan])}
      BY <2>2, <3>1
    <3>3. ArcStep(cp[loop.plan]) # None
      BY <3>2, ArcStepType, GwAssumption DEF GwAssumption
    <3> QED
      BY <3>1, <3>2, <3>3, StepNoPending
  <2> QED
    BY <2>1, <2>3, <2>4 DEF LoopEnded
<1>5. ASSUME NEW s \in Sessions, ArcEnds(s) PROVE CpInOrder' /\ LoopEnded'
  <2>1. /\ cp' = cp /\ loop # None /\ loop.plan = PlanOf(s)
        /\ cp[PlanOf(s)] # None /\ With(cp[PlanOf(s)], "pending") = {}
        /\ loop' = None \/ loop' = [loop EXCEPT !.active = FALSE]
    BY <1>5 DEF ArcEnds
  <2>2. loop' # None => loop'.plan = loop.plan
    BY <1>0, <2>1 DEF LoopFile
  <2> QED
    BY <2>1, <2>2 DEF CpInOrder, LoopEnded
<1>6. ASSUME NEW s \in Sessions, SessionDies(s) PROVE CpInOrder' /\ LoopEnded'
  BY <1>1, <1>6 DEF SessionDies
<1>7. CASE UNCHANGED vars
  BY <1>1, <1>7 DEF vars, world
<1> QED
  BY <1>2, <1>3, <1>4, <1>5, <1>6, <1>7 DEF Next, World

(* The plan on record is that of the session.                              *)
OwnerPlan ==
    /\ owner # None => owner.plan = PlanOf(owner.session)
    /\ \A g \in Gws : pc[g] \in Driving /\ gw[g].adopts # None => PlanOf(gw[g].adopts) = Plan(g)

(* What may become of the record.                                          *)
LEMMA StepOwner ==
  ASSUME RunTypeOK, NEW g \in Gws, Step(g)
  PROVE  \/ owner' = owner
         \/ owner' = None
         \/ WriteOwner(g) /\ owner' = [gw |-> g, session |-> Own(g), plan |-> Plan(g)]
         \/ Adopt(g) /\ owner' = [gw |-> g, session |-> gw[g].adopts, plan |-> Plan(g)]
<1>1. CASE WriteOwner(g) \/ Adopt(g)
  BY <1>1 DEF WriteOwner, Adopt
<1>2. CASE FindDone(g) \/ TimeIsUp(g) \/ SpawnAborts(g)
  BY <1>2 DEF FindDone, TimeIsUp, SpawnAborts, Succeed
<1>3. CASE SpawnFails(g)
  BY <1>3 DEF SpawnFails, AfterCrash
<1>4. CASE Return(g)
  <2>1. PICK v, d, lost : After(g, v, d, lost)
    BY <1>4, Zenon DEF Return
  <2> QED
    BY <2>1, CrashLeaves, SucceedLeaves DEF After, RunTypeOK
<1>5. CASE ~(WriteOwner(g) \/ Adopt(g) \/ FindDone(g) \/ TimeIsUp(g) \/ SpawnAborts(g) \/ SpawnFails(g)
             \/ Return(g))
  BY <1>5
  DEF Step, CheckOwner, OpenLock, Flock, UnlinkLock, CloseLock, Start, StartClean, StartKilling,
      StartFails, Decide, Spawn, Dispatch, Wake, GwDies
<1> QED
  BY <1>1, <1>2, <1>3, <1>4, <1>5

(* The record stays right.                                                 *)
LEMMA NextOwnerPlan ==
  ASSUME RunTypeOK, OwnerPlan, [Next]_vars
  PROVE  OwnerPlan'
<1>1. ASSUME NEW g \in Gws, Step(g) PROVE OwnerPlan'
  <2>0. /\ UNCHANGED batch /\ \A s : PlanOf(s)' = PlanOf(s)
        /\ \A h \in Gws : h # g => pc'[h] = pc[h] /\ gw'[h] = gw[h] /\ Plan(h)' = Plan(h)
    BY <1>1, StepFrame DEF PlanOf
  <2>1. owner' # None => owner'.plan = PlanOf(owner'.session)
    <3>1. CASE WriteOwner(g) /\ owner' = [gw |-> g, session |-> Own(g), plan |-> Plan(g)]
      <4>1. pc[g] \notin Gone
        BY <3>1 DEF WriteOwner, Gone
      <4> QED
        BY <3>1, <4>1, OwnFacts DEF RunTypeOK
    <3>2. CASE Adopt(g) /\ owner' = [gw |-> g, session |-> gw[g].adopts, plan |-> Plan(g)]
      <4>1. PlanOf(gw[g].adopts) = Plan(g)
        BY <3>2 DEF Adopt, OwnerPlan, Driving
      <4> QED
        BY <3>2, <4>1
    <3> QED
      BY <1>1, <3>1, <3>2, StepOwner DEF OwnerPlan
  <2>2. ASSUME pc'[g] \in Driving, gw'[g].adopts # None PROVE PlanOf(gw'[g].adopts) = Plan(g)'
    <3>1. CASE pc[g] \in Driving
      <4>1. gw'[g].index = gw[g].index /\ gw'[g].adopts = gw[g].adopts
        BY <1>1, <2>2, <3>1, StepKept DEF Kept
      <4> QED
        BY <2>0, <2>2, <3>1, <4>1 DEF OwnerPlan, Plan
    <3>2. CASE Start(g)
      <4>1. PICK a : /\ Begin(g, a)
                     /\ \/ a = None
                        \/ owner # None /\ a = owner.session /\ owner.plan = Plan(g)
        BY <3>2 DEF Start, Adoptable
      <4>2. gw'[g].adopts = a /\ gw'[g].index = gw[g].index
        BY <4>1, BeginLeaves DEF RunTypeOK
      <4> QED
        BY <2>0, <2>2, <4>1, <4>2 DEF OwnerPlan, Plan
    <3>3. CASE pc[g] \notin Driving /\ ~Start(g)
      <4>1. CheckOwner(g) \/ OpenLock(g) \/ Flock(g) \/ UnlinkLock(g) \/ CloseLock(g) \/ StartFails(g)
        BY <1>1, <3>3
        DEF Step, Adopt, Decide, FindDone, TimeIsUp, Spawn, SpawnAborts, SpawnFails, WriteOwner,
            Dispatch, Return, Wake, GwDies, Driving
      <4>2. pc'[g] \notin Driving
        BY <4>1 DEF CheckOwner, OpenLock, Flock, UnlinkLock, CloseLock, StartFails, Goto, Driving,
           RunTypeOK, ProcsOK
      <4> QED
        BY <2>2, <4>2
    <3> QED
      BY <3>1, <3>2, <3>3
  <2>3. ASSUME NEW h \in Gws, pc'[h] \in Driving, gw'[h].adopts # None
        PROVE  PlanOf(gw'[h].adopts) = Plan(h)'
    BY <2>0, <2>2, <2>3 DEF OwnerPlan
  <2> QED
    BY <2>0, <2>1, <2>3 DEF OwnerPlan, PlanOf
<1>2. ASSUME NEW s \in Sessions, ArcBegins(s) \/ ArcAdvances(s) \/ ArcEnds(s) \/ SessionDies(s)
      PROVE  OwnerPlan'
  <2>1. /\ UNCHANGED <<batch, pc, owner>>
        /\ \A h \in Gws : gw'[h].adopts = gw[h].adopts /\ Plan(h)' = Plan(h)
    BY <1>2, WorldFrame
  <2> QED
    BY <2>1 DEF OwnerPlan, PlanOf
<1>3. CASE UNCHANGED vars
  BY <1>3 DEF vars, OwnerPlan, PlanOf, Plan
<1> QED
  BY <1>1, <1>2, <1>3 DEF Next, World

(* The gw of a session has begun with its plan, or is done with it.        *)
Past(s) ==
    \/ pc[s[1]] \in Gone
    \/ s[2] < gw[s[1]].index
    \/ s[2] = gw[s[1]].index /\ pc[s[1]] \notin Early

SessionsPast == \A s \in Sessions : session[s] # "absent" \/ s \in strays => Past(s)

(* A gw does not go back.                                                  *)
LEMMA PastStays ==
  ASSUME RunTypeOK, NEW g \in Gws, Step(g), NEW s \in Sessions, Past(s)
  PROVE  Past(s)'
<1>1. s[1] \in Gws /\ s[2] \in Nat
  BY DEF Sessions
<1>2. CASE s[1] # g
  <2>1. pc'[s[1]] = pc[s[1]] /\ gw'[s[1]] = gw[s[1]]
    BY <1>1, <1>2, StepFrame
  <2> QED
    BY <2>1 DEF Past
<1>3. CASE s[1] = g
  <2>1. pc[g] \notin Gone /\ Moved(g)
    BY StepKept DEF Kept
  <2>2. gw[g].index \in Nat
    BY <2>1, BatchFacts DEF RunTypeOK, ProcsOK, LocalsOK
  <2> QED
    BY <1>1, <1>3, <2>1, <2>2 DEF Past, Moved
<1> QED
  BY <1>2, <1>3

(* Which sessions are lost in a step.                                      *)
LEMMA StepStrays ==
  ASSUME RunTypeOK, NEW g \in Gws, Step(g), NEW s \in Sessions, s \in strays'
  PROVE  \/ s \in strays
         \/ session[s] # "absent"
         \/ s = Own(g) /\ (WriteOwner(g) \/ GwDies(g) \/ SpawnFails(g))
<1>1. CASE Start(g)
  <2>1. PICK swept \in Sweeps :
           LET sess == Cleaned(session, swept)
           IN  \/ strays' = strays
               \/ strays' = strays \cup {owner.session} /\ sess[owner.session] # "absent"
    BY <1>1 DEF Start, StartClean, StartKilling
  <2>2. Cleaned(session, swept)[s] # "absent" => session[s] # "absent"
    BY DEF Cleaned
  <2> QED
    BY <2>1, <2>2
<1>2. CASE Return(g)
  <2>1. PICK spared \in BOOLEAN :
           /\ spared => session[Watched(g)] # "absent"
           /\ strays' = strays \/ (spared /\ strays' = strays \cup {Watched(g)})
    BY <1>2 DEF Return
  <2> QED
    BY <2>1
<1>3. CASE FindDone(g)
  <2>1. strays' = IF session[Own(g)] \in Live THEN strays \cup {Own(g)} ELSE strays
    BY <1>3 DEF FindDone
  <2> QED
    BY <2>1 DEF Live
<1>4. CASE SpawnFails(g)
  <2>1. strays' = strays \cup {Own(g)} \/ strays' = strays
    BY <1>4 DEF SpawnFails
  <2> QED
    BY <1>4, <2>1
<1>5. CASE ~(Start(g) \/ Return(g) \/ FindDone(g) \/ SpawnFails(g))
  BY <1>5
  DEF Step, CheckOwner, OpenLock, Flock, UnlinkLock, CloseLock, StartFails, Adopt, Decide,
      TimeIsUp, Spawn, SpawnAborts, WriteOwner, Dispatch, Wake, GwDies
<1> QED
  BY <1>1, <1>2, <1>3, <1>4, <1>5

(* The session a gw is at is not ahead of it.                              *)
LEMMA OwnIsPast ==
  ASSUME RunTypeOK, NEW g \in Gws,
         Spawn(g) \/ SpawnFails(g) \/ WriteOwner(g) \/ GwDies(g)
  PROVE  \A s \in Sessions : s = Own(g) => Past(s)'
<1>0. DOMAIN pc = Gws /\ DOMAIN gw = Gws /\ DOMAIN gw[g] = Fields /\ ProcsOK
  BY DEF RunTypeOK, ProcsOK, LocalsOK
<1>1. Step(g)
  BY DEF Step
<1>2. pc[g] \in Driving
  BY DEF Spawn, SpawnFails, WriteOwner, GwDies, Driving
<1>3. CASE GwDies(g)
  <2>1. pc'[g] = "dead"
    BY <1>0, <1>3 DEF GwDies, Goto
  <2> QED
    BY <2>1 DEF Past, Own, Gone
<1>4. Own(g)[1] = g /\ Own(g)[2] = gw[g].index /\ pc[g] \notin Early
  BY <1>2 DEF Own, Driving, Early
<1>5. CASE ~GwDies(g)
  <2>1. Past(Own(g))
    BY <1>4 DEF Past
  <2>2. Own(g) \in Sessions
    BY <1>0, <1>2, OwnFacts DEF Driving, Gone
  <2> QED
    BY <1>1, <2>1, <2>2, PastStays
<1> QED
  BY <1>3, <1>5

(* What there is, or was, a gw has begun.                                  *)
LEMMA NextSessionsPast ==
  ASSUME RunTypeOK, SessionsPast, [Next]_vars
  PROVE  SessionsPast'
<1>1. ASSUME NEW g \in Gws, Step(g) PROVE SessionsPast'
  <2>1. ASSUME NEW s \in Sessions, session'[s] # "absent" \/ s \in strays' PROVE Past(s)'
    <3>1. \/ session[s] # "absent" \/ s \in strays
          \/ s = Own(g) /\ (Spawn(g) \/ SpawnFails(g) \/ WriteOwner(g) \/ GwDies(g))
      BY <1>1, <2>1, NewSessions, StepStrays
    <3> QED
      BY <1>1, <2>1, <3>1, PastStays, OwnIsPast DEF SessionsPast
  <2> QED
    BY <2>1 DEF SessionsPast
<1>2. ASSUME NEW s \in Sessions, ArcBegins(s) \/ ArcAdvances(s) \/ ArcEnds(s) \/ SessionDies(s)
      PROVE  SessionsPast'
  <2>1. pc' = pc /\ strays' = strays /\ \A h \in Gws : gw'[h].index = gw[h].index
    BY <1>2, WorldFrame
  <2>2. \A t \in Sessions : t[1] \in Gws /\ (session'[t] # "absent" => session[t] # "absent")
    BY <1>2, WorldSessions DEF Sessions
  <2> QED
    BY <2>1, <2>2 DEF SessionsPast, Past
<1>3. CASE UNCHANGED vars
  BY <1>3 DEF vars, world, SessionsPast, Past
<1> QED
  BY <1>1, <1>2, <1>3 DEF Next, World

(* Who drives finds no loop file but its own, nor has it seen another.     *)
LoopOf(g) ==
    strays \subseteq {Own(g)} =>
       /\ ActivePlan \in {None, Plan(g)}
       /\ pc[g] = "watch" /\ gw[g].reads # None =>
             gw[g].reads = Plan(g) /\ (loop = None => cp[gw[g].reads] # None)

OwnLoop == \A g \in Gws : pc[g] \in Driving => LoopOf(g)

(* So with the session on record, while nobody drives.                     *)
IdleLoop ==
    owner # None /\ strays = {} /\ session[owner.session] \in Live =>
       ActivePlan \in {None, owner.plan}

(* The loop file's part.                                                   *)
LoopInv == SessionInv /\ OwnerPlan /\ SessionsPast /\ OwnLoop /\ IdleLoop

(* A session is lost for good, unless the record is written anew.          *)
LEMMA StraysStay ==
  ASSUME NEW g \in Gws, Step(g)
  PROVE  /\ strays \subseteq strays' \cup {Own(g)}
         /\ ~WriteOwner(g) => strays \subseteq strays'
<1>1. CASE Return(g)
  BY <1>1 DEF Return
<1>2. CASE Start(g)
  BY <1>2 DEF Start, StartClean, StartKilling
<1>3. CASE SpawnFails(g) \/ FindDone(g)
  BY <1>3 DEF SpawnFails, FindDone
<1>4. CASE ~(Return(g) \/ Start(g) \/ SpawnFails(g) \/ FindDone(g))
  BY <1>4
  DEF Step, CheckOwner, OpenLock, Flock, UnlinkLock, CloseLock, StartFails, Adopt, Decide,
      TimeIsUp, Spawn, SpawnAborts, WriteOwner, Dispatch, Wake, GwDies
<1> QED
  BY <1>1, <1>2, <1>3, <1>4

(* A run begins with its own loop file, or none.                           *)
LEMMA StartLoop ==
  ASSUME RunTypeOK, LoopInv, NEW g \in Gws, Start(g)
  PROVE  LoopOf(g)'
<1>1. PICK swept \in Sweeps :
         LET sess == Cleaned(session, swept)
         IN  \/ Begin(g, None)
             \/ /\ owner # None /\ Adoptable(g, sess)
                /\ Begin(g, owner.session) /\ UNCHANGED strays
  BY DEF Start
<1>2. pc[g] = "start" /\ pc[g] \notin Gone
  BY DEF Start, Gone
<1>3. pc'[g] = "decide" /\ gw'[g].index = gw[g].index
  BY <1>1, BeginLeaves DEF RunTypeOK
<1>4. Plan(g)' = Plan(g) /\ Own(g)' = Own(g)
  <2>1. Step(g)
    BY DEF Step
  <2> QED
    BY <1>3, <2>1, StepFrame DEF Plan, Own
<1>5. CASE Begin(g, None)
  <2>1. loop' = IF ActivePlan \notin {None, Plan(g)} THEN None ELSE loop
    BY <1>5 DEF Begin
  <2>2. ActivePlan' \in {None, Plan(g)}
    BY <2>1 DEF ActivePlan
  <2> QED
    BY <1>3, <1>4, <2>2 DEF LoopOf
<1>6. CASE /\ owner # None /\ Adoptable(g, Cleaned(session, swept))
           /\ Begin(g, owner.session) /\ UNCHANGED strays
  <2>1. owner.session \in Sessions /\ owner.session # None
    BY <1>6, GwAssumption DEF GwAssumption, RunTypeOK, FilesOK, OwnerFile
  <2>2. session[owner.session] \in Live /\ owner.plan = Plan(g)
    BY <1>6, <2>1 DEF Adoptable, Cleaned, Live
  <2>3. loop' = loop
    BY <1>6, <2>1 DEF Begin
  <2>4. Own(g) \notin strays
    <3>1. Own(g) \in Sessions /\ Own(g)[1] = g /\ Own(g)[2] = gw[g].index
      BY <1>2, OwnFacts DEF RunTypeOK
    <3>2. gw[g].index \in Nat
      BY <1>2, BatchFacts DEF RunTypeOK, ProcsOK, LocalsOK
    <3>3. ~Past(Own(g))
      BY <1>2, <3>1, <3>2 DEF Past, Early
    <3> QED
      BY <3>1, <3>3 DEF LoopInv, SessionsPast
  <2>5. strays' \subseteq {Own(g)'} => strays = {}
    BY <1>4, <1>6, <2>4
  <2>6. strays' \subseteq {Own(g)'} => ActivePlan' \in {None, Plan(g)}
    BY <1>6, <2>2, <2>3, <2>5 DEF LoopInv, IdleLoop, ActivePlan
  <2> QED
    BY <1>3, <1>4, <2>6 DEF LoopOf
<1> QED
  BY <1>1, <1>5, <1>6

(* Each step of a gw in its run.                                           *)
LEMMA DrivingLoop ==
  ASSUME RunTypeOK, LoopInv, NEW g \in Gws, pc[g] \in Driving, pc'[g] \in Driving, Step(g)
  PROVE  LoopOf(g)'
<1>0. DOMAIN pc = Gws /\ DOMAIN gw = Gws /\ DOMAIN gw[g] = Fields
  BY DEF RunTypeOK, ProcsOK, LocalsOK
<1>1. gw'[g].index = gw[g].index /\ LoopOf(g)
  BY StepKept DEF Kept, LoopInv, OwnLoop
<1>2. Plan(g)' = Plan(g) /\ Own(g)' = Own(g)
  BY <1>1, StepFrame DEF Plan, Own
<1>3. cp' = cp /\ loop' = loop /\ ActivePlan' = ActivePlan
  BY StepLoop DEF Start, Driving, ActivePlan
<1>4. strays' \subseteq {Own(g)} => strays \subseteq {Own(g)}
  BY StraysStay
<1>5. pc'[g] = "watch" => gw'[g].reads = ActivePlan
  <2>1. ASSUME pc'[g] = "watch" PROVE Adopt(g) \/ Dispatch(g)
    <3>1. ~(Return(g) \/ SpawnFails(g) \/ FindDone(g))
      <4>1. Succeed(g) => pc'[g] # "watch"
        BY SucceedLeaves DEF RunTypeOK
      <4>2. FindDone(g) => Succeed(g)
        BY DEF FindDone
      <4>3. SpawnFails(g) => pc'[g] # "watch"
        BY CrashLeaves DEF SpawnFails, RunTypeOK
      <4>4. Return(g) => pc'[g] # "watch"
        <5>1. ASSUME Return(g) PROVE \E v, d, lost : After(g, v, d, lost)
          BY <5>1, Zenon DEF Return
        <5> QED
          BY <4>1, <5>1, CrashLeaves DEF After, RunTypeOK
      <4> QED
        BY <2>1, <4>1, <4>2, <4>3, <4>4
    <3> QED
      BY <1>0, <2>1, <3>1
      DEF Step, CheckOwner, OpenLock, Flock, UnlinkLock, CloseLock, Start, StartFails, Decide,
          TimeIsUp, Spawn, SpawnAborts, WriteOwner, Wake, GwDies, Goto, Fail, Driving
  <2> QED
    BY <1>0, <2>1 DEF Adopt, Dispatch, Fields
<1>6. ActivePlan # None => loop # None
  BY DEF ActivePlan
<1> QED
  BY <1>1, <1>2, <1>3, <1>4, <1>5, <1>6 DEF LoopOf

(* The session on record.                                                  *)
LEMMA StepIdle ==
  ASSUME RunTypeOK, LoopInv, NEW g \in Gws, Step(g)
  PROVE  IdleLoop'
<1> SUFFICES ASSUME owner' # None, strays' = {}, session'[owner'.session] \in Live
             PROVE  ActivePlan' \in {None, owner'.plan}
  BY DEF IdleLoop
<1>1. loop' \in {loop, None} /\ ActivePlan' \in {ActivePlan, None}
  BY StepLoop DEF ActivePlan
<1>2. strays \subseteq {Own(g)} /\ (~WriteOwner(g) => strays = {})
  BY StraysStay
<1>3. pc[g] \in Driving => ActivePlan \in {None, Plan(g)}
  BY <1>2 DEF LoopInv, OwnLoop, LoopOf
<1>4. CASE WriteOwner(g)
  <2>1. owner' = [gw |-> g, session |-> Own(g), plan |-> Plan(g)] /\ pc[g] \in Driving
    BY <1>4 DEF WriteOwner, Driving
  <2> QED
    BY <1>1, <1>3, <2>1
<1>5. CASE Adopt(g) /\ owner' = [gw |-> g, session |-> gw[g].adopts, plan |-> Plan(g)]
  <2>1. pc[g] \in Driving
    BY <1>5 DEF Adopt, Driving
  <2> QED
    BY <1>1, <1>3, <1>5, <2>1
<1>6. CASE ~WriteOwner(g) /\ owner' = owner
  <2>1. owner.session \in Sessions
    BY <1>6 DEF RunTypeOK, FilesOK, OwnerFile
  <2>2. session[owner.session] \in Live \/ (owner.session = Own(g) /\ (Spawn(g) \/ SpawnFails(g)))
    BY <1>6, <2>1, NewSessions
  <2>3. CASE session[owner.session] \in Live
    BY <1>1, <1>2, <1>6, <2>3 DEF LoopInv, IdleLoop
  <2>4. CASE owner.session = Own(g) /\ (Spawn(g) \/ SpawnFails(g))
    <3>1. pc[g] \in Driving /\ pc[g] \notin Gone
      BY <2>4 DEF Spawn, SpawnFails, Driving, Gone
    <3>2. owner.plan = Plan(g)
      BY <1>6, <2>4, <3>1, OwnFacts DEF LoopInv, OwnerPlan, RunTypeOK
    <3> QED
      BY <1>1, <1>3, <1>6, <3>1, <3>2
  <2> QED
    BY <2>2, <2>3, <2>4
<1> QED
  BY <1>4, <1>5, <1>6, StepOwner

(* The loop files of a step of a gw.                                       *)
LEMMA StepOwnLoop ==
  ASSUME RunTypeOK, LoopInv, InstanceExclusive, InstanceExclusive', NEW g \in Gws, Step(g)
  PROVE  OwnLoop'
<1>1. \A h \in Gws : h # g => /\ pc'[h] = pc[h] /\ gw'[h] = gw[h]
                              /\ Own(h)' = Own(h) /\ Plan(h)' = Plan(h)
  BY StepFrame
<1>2. CASE pc[g] \notin Driving /\ ~Start(g)
  <2>1. CheckOwner(g) \/ OpenLock(g) \/ Flock(g) \/ UnlinkLock(g) \/ CloseLock(g) \/ StartFails(g)
    BY <1>2
    DEF Step, Adopt, Decide, FindDone, TimeIsUp, Spawn, SpawnAborts, SpawnFails, WriteOwner,
        Dispatch, Return, Wake, GwDies, Driving
  <2>2. UNCHANGED <<loop, cp, strays>> /\ pc'[g] \notin Driving
    BY <2>1 DEF CheckOwner, OpenLock, Flock, UnlinkLock, CloseLock, StartFails, Goto, Driving, world,
       RunTypeOK, ProcsOK
  <2>3. ASSUME NEW h \in Gws, pc'[h] \in Driving PROVE LoopOf(h)'
    <3>1. h # g /\ LoopOf(h)
      BY <1>1, <2>2, <2>3 DEF LoopInv, OwnLoop
    <3> QED
      BY <1>1, <2>2, <3>1 DEF LoopOf, ActivePlan
  <2> QED
    BY <2>3 DEF OwnLoop
<1>3. CASE Start(g)
  <2>1. pc'[g] \in Driving
    <3>1. PICK a : Begin(g, a)
      BY <1>3 DEF Start
    <3> QED
      BY <3>1, BeginLeaves DEF RunTypeOK, Driving
  <2> QED
    BY <1>3, <2>1, StartLoop DEF OwnLoop, InstanceExclusive
<1>4. CASE pc[g] \in Driving
  <2>1. \A h \in Gws : h # g => pc'[h] \notin Driving
    BY <1>1, <1>4 DEF InstanceExclusive
  <2> QED
    BY <1>4, <2>1, DrivingLoop DEF OwnLoop
<1> QED
  BY <1>2, <1>3, <1>4

(* An arc touches the loop file of its own plan only.                      *)
LEMMA WorldOwnLoop ==
  ASSUME RunTypeOK, LoopInv, NEW s \in Sessions,
         ArcBegins(s) \/ ArcAdvances(s) \/ ArcEnds(s) \/ SessionDies(s),
         NEW g \in Gws, pc[g] \in Driving
  PROVE  LoopOf(g)'
<1>0. /\ LoopOf(g) /\ Watches(g) /\ pc[g] \notin Gone
      /\ loop \in LoopFile \cup {None} /\ cp \in [Plans -> Checkpoints \cup {None}]
      /\ None \notin Plans /\ None \notin Checkpoints /\ None \notin LoopFile
  BY GwAssumption
  DEF LoopInv, OwnLoop, SessionInv, OnlyWatched, Driving, Gone, RunTypeOK, FilesOK, GwAssumption
<1>1. /\ pc' = pc /\ strays' = strays
      /\ Own(g)' = Own(g) /\ Plan(g)' = Plan(g) /\ gw'[g].adopts = gw[g].adopts
  BY WorldFrame
<1>2. Own(g) \in Sessions /\ Plan(g) \in Plans /\ PlanOf(Own(g)) = Plan(g)
  BY <1>0, OwnFacts DEF RunTypeOK
<1> SUFFICES ASSUME strays \subseteq {Own(g)}
             PROVE  /\ ActivePlan' \in {None, Plan(g)}
                    /\ pc[g] = "watch" /\ gw'[g].reads # None =>
                         gw'[g].reads = Plan(g) /\ (loop' = None => cp'[gw'[g].reads] # None)
  BY <1>1 DEF LoopOf
<1>3. /\ ActivePlan \in {None, Plan(g)}
      /\ pc[g] = "watch" /\ gw[g].reads # None =>
            gw[g].reads = Plan(g) /\ (loop = None => cp[Plan(g)] # None)
  BY <1>0 DEF LoopOf
<1>4. CASE ArcBegins(s)
  <2>1. session[s] \in Live
    BY <1>4 DEF ArcBegins, Live
  <2>2. PlanOf(s) = Plan(g)
    <3>1. s = Own(g) \/ s = Watched(g)
      BY <1>0, <2>1 DEF Watches
    <3> QED
      BY <1>2, <3>1 DEF Watched, LoopInv, OwnerPlan
  <2>3. loop' = [plan |-> Plan(g), active |-> TRUE]
    BY <1>4, <2>2 DEF ArcBegins
  <2>4. loop' # None /\ loop'.plan = Plan(g)
    <3>1. [plan |-> Plan(g), active |-> TRUE] \in LoopFile
      BY <1>2 DEF LoopFile
    <3> QED
      BY <1>0, <2>3, <3>1
  <2>5. gw'[g].reads \in {gw[g].reads, Plan(g)}
    <3>1. gw'[g] = gw[g] \/ gw'[g] = [gw[g] EXCEPT !.reads = loop'.plan]
      BY <1>4 DEF ArcBegins, Noticed
    <3>2. DOMAIN gw[g] = Fields
      BY DEF RunTypeOK, ProcsOK, LocalsOK
    <3> QED
      BY <2>4, <3>1, <3>2 DEF Fields
  <2>6. ActivePlan' = Plan(g) \/ ActivePlan' = None
    BY <2>4 DEF ActivePlan
  <2> QED
    BY <1>3, <2>4, <2>5, <2>6
<1>5. CASE ArcEnds(s)
  <2>1. /\ gw' = gw /\ cp' = cp /\ loop # None /\ loop.active /\ cp[loop.plan] # None
        /\ loop' = None \/ loop' = [loop EXCEPT !.active = FALSE]
    BY <1>5 DEF ArcEnds
  <2>2. loop.plan = Plan(g)
    BY <1>0, <1>3, <2>1 DEF ActivePlan, LoopFile
  <2>3. ActivePlan' = None
    BY <1>0, <2>1 DEF ActivePlan, LoopFile
  <2> QED
    BY <1>3, <2>1, <2>2, <2>3
<1>6. CASE ArcAdvances(s)
  <2>1. /\ gw' = gw /\ loop' = loop
        /\ cp' = [cp EXCEPT ![PlanOf(s)] = IF cp[PlanOf(s)] = None THEN NewArc
                                           ELSE ArcStep(cp[PlanOf(s)])]
    BY <1>6 DEF ArcAdvances
  <2>2. cp[Plan(g)] # None => cp'[Plan(g)] # None
    BY <1>0, <1>2, <2>1, ArcStepType
  <2>3. ActivePlan' = ActivePlan
    BY <2>1 DEF ActivePlan
  <2> QED
    BY <1>3, <2>1, <2>2, <2>3
<1>7. CASE SessionDies(s)
  BY <1>3, <1>7 DEF SessionDies, ActivePlan
<1> QED
  BY <1>4, <1>5, <1>6, <1>7

(* Nor while nobody drives.                                                *)
LEMMA WorldIdle ==
  ASSUME RunTypeOK, LoopInv, NEW s \in Sessions,
         ArcBegins(s) \/ ArcAdvances(s) \/ ArcEnds(s) \/ SessionDies(s)
  PROVE  IdleLoop'
<1>1. owner' = owner /\ strays' = strays
  BY WorldFrame
<1> SUFFICES ASSUME owner # None, strays = {}, session'[owner.session] \in Live
             PROVE  ActivePlan' \in {None, owner.plan}
  BY <1>1 DEF IdleLoop
<1>2. session[owner.session] \in Live /\ owner.session \in Sessions
  BY WorldSessions DEF RunTypeOK, FilesOK, OwnerFile
<1>3. ActivePlan \in {None, owner.plan}
  BY <1>2 DEF LoopInv, IdleLoop
<1>4. CASE ArcBegins(s)
  <2>1. session[s] \in Live /\ s[1] \in Gws
    BY <1>4 DEF ArcBegins, Live, Sessions
  <2>2. owner.session = s
    <3>1. CASE pc[s[1]] = "own" /\ Own(s[1]) = s
      <4>1. Watches(s[1])
        BY <2>1, <3>1 DEF LoopInv, SessionInv, OnlyWatched, Driving
      <4> QED
        BY <1>2, <2>1, <4>1 DEF Watches
    <3> QED
      BY <2>1, <3>1 DEF LoopInv, SessionInv, LiveSessionIsOwned
  <2>3. loop' = [plan |-> owner.plan, active |-> TRUE]
    BY <1>4, <2>2 DEF ArcBegins, LoopInv, OwnerPlan
  <2> QED
    BY <2>3 DEF ActivePlan
<1>5. CASE ArcEnds(s)
  <2>1. loop' = None \/ loop' = [loop EXCEPT !.active = FALSE]
    BY <1>5 DEF ArcEnds
  <2>2. loop \in LoopFile \cup {None} /\ loop # None
    BY <1>5 DEF RunTypeOK, FilesOK, ArcEnds
  <2>3. ActivePlan' = None
    BY <2>1, <2>2 DEF ActivePlan, LoopFile
  <2> QED
    BY <2>3
<1>6. CASE ArcAdvances(s) \/ SessionDies(s)
  BY <1>3, <1>6 DEF ArcAdvances, SessionDies, ActivePlan
<1> QED
  BY <1>4, <1>5, <1>6

(* Two gws never find each other's loop file.                              *)
LEMMA NextLoop ==
  ASSUME RunTypeOK, LoopInv, SessionInv', InstanceExclusive, InstanceExclusive', [Next]_vars
  PROVE  LoopInv'
<1>1. OwnerPlan' /\ SessionsPast'
  BY NextOwnerPlan, NextSessionsPast DEF LoopInv
<1>2. ASSUME NEW g \in Gws, Step(g) PROVE OwnLoop' /\ IdleLoop'
  BY <1>2, StepOwnLoop, StepIdle
<1>3. ASSUME NEW s \in Sessions, ArcBegins(s) \/ ArcAdvances(s) \/ ArcEnds(s) \/ SessionDies(s)
      PROVE  OwnLoop' /\ IdleLoop'
  <2>1. pc' = pc
    BY <1>3, WorldFrame
  <2> QED
    BY <1>3, <2>1, WorldOwnLoop, WorldIdle DEF OwnLoop
<1>4. CASE UNCHANGED vars
  <2>1. UNCHANGED <<batch, pc, gw, session, owner, loop, cp, strays>> /\ ActivePlan' = ActivePlan
    BY <1>4 DEF vars, world, ActivePlan
  <2>2. IdleLoop'
    BY <2>1 DEF LoopInv, IdleLoop
  <2>3. \A g \in Gws : LoopOf(g) => LoopOf(g)'
    BY <2>1 DEF LoopOf, Own, Plan
  <2>4. OwnLoop'
    BY <2>1, <2>3 DEF LoopInv, OwnLoop
  <2> QED
    BY <1>1, <2>2, <2>4 DEF LoopInv
<1> QED
  BY <1>1, <1>2, <1>3, <1>4 DEF LoopInv, Next, World

(* A plan is reported done by a verdict, or on a checkpoint.               *)
LEMMA Successes ==
  ASSUME RunTypeOK, NEW g \in Gws, Step(g), gw'[g].done \notin {gw[g].done, 0}
  PROVE  FindDone(g) \/ (pc[g] = "watch" /\ Ended(g))
<1>0. DOMAIN gw = Gws /\ DOMAIN gw[g] = Fields /\ Left(g).done = gw[g].done
  BY LocalsFacts DEF RunTypeOK, ProcsOK, LocalsOK
<1>1. ~Fail(g) /\ \A det, d, next : ~Restart(g, det, d, next)
  <2>1. ASSUME Fail(g) PROVE FALSE
    BY <1>0, <2>1 DEF Fail
  <2>2. ASSUME NEW det, NEW d, NEW next, Restart(g, det, d, next) PROVE FALSE
    BY <1>0, <2>2 DEF Restart, Fields
  <2> QED
    BY <2>1, <2>2
<1>2. \A v, d : ~AfterCrash(g, v, d)
  BY <1>1 DEF AfterCrash
<1>3. \A d, lost : ~AfterError(g, d, lost)
  BY <1>1 DEF AfterError
<1>4. CASE Return(g)
  <2>1. PICK v \in {"completed", "crashed", "failed", "stuck", "error"}, d \in Durations,
             spared \in BOOLEAN, lost \in BOOLEAN :
           (Verdict(g, v) \/ (v = "crashed" /\ spared)) /\ After(g, v, d, lost)
    BY <1>4 DEF Return
  <2>2. v = "completed"
    BY <1>1, <1>2, <1>3, <2>1 DEF After
  <2> QED
    BY <1>4, <2>1, <2>2 DEF Return, Verdict
<1>5. CASE Start(g)
  <2>1. PICK a : Begin(g, a)
    BY <1>5 DEF Start
  <2> QED
    BY <1>0, <2>1 DEF Begin, Fields
<1>6. CASE TimeIsUp(g) \/ SpawnAborts(g) \/ SpawnFails(g)
  BY <1>1, <1>2, <1>6 DEF TimeIsUp, SpawnAborts, SpawnFails
<1>7. CASE CloseLock(g) \/ GwDies(g)
  BY <1>0, <1>7 DEF CloseLock, GwDies, Locals
<1>8. CASE \/ CheckOwner(g) \/ OpenLock(g) \/ Flock(g) \/ UnlinkLock(g) \/ StartFails(g)
           \/ Adopt(g) \/ Decide(g) \/ Spawn(g) \/ WriteOwner(g) \/ Dispatch(g) \/ Wake(g)
  BY <1>0, <1>8
  DEF CheckOwner, OpenLock, Flock, UnlinkLock, StartFails, Adopt, Decide, Spawn, WriteOwner,
      Dispatch, Wake, Fields
<1> QED
  BY <1>4, <1>5, <1>6, <1>7, <1>8 DEF Step

(* The plans a gw has reported done.                                       *)
DoneOK == \A g \in Gws : gw[g].done \in Nat

(* Their number only grows.                                                *)
LEMMA NextDone ==
  ASSUME RunTypeOK, DoneOK, [Next]_vars
  PROVE  DoneOK'
<1>1. ASSUME NEW g \in Gws, Step(g) PROVE DoneOK'
  BY <1>1, StepFrame, StepKept DEF Kept, DoneOK
<1>2. ASSUME NEW s \in Sessions, ArcBegins(s) \/ ArcAdvances(s) \/ ArcEnds(s) \/ SessionDies(s)
      PROVE  DoneOK'
  BY <1>2, WorldFrame DEF DoneOK
<1>3. CASE UNCHANGED vars
  BY <1>3 DEF DoneOK, vars
<1> QED
  BY <1>1, <1>2, <1>3 DEF Next, World

(* What a success rests on.                                                *)
LEMMA Evidence ==
  ASSUME RunTypeOK, LoopInv, CpInOrder, LoopEnded, NEW g \in Gws, strays = {},
         FindDone(g) \/ (pc[g] = "watch" /\ Ended(g))
  PROVE  \E p \in {Plan(g), IF loop = None THEN Plan(g) ELSE loop.plan} :
            cp[p] # None /\ IsNearCompletion(cp[p])
<1>1. /\ \A p \in Plans : cp[p] # None => cp[p] \in Checkpoints /\ InOrder(cp[p])
      /\ loop # None => loop.plan \in Plans
  BY DEF RunTypeOK, FilesOK, LoopFile, CpInOrder
<1>2. CASE FindDone(g)
  <2>1. loop # None /\ cp[loop.plan] # None /\ Done(cp[loop.plan])
    BY <1>2 DEF FindDone, AlreadyDone, Target
  <2>2. IsNearCompletion(cp[loop.plan])
    BY <1>1, <2>1, DoneIsNear
  <2> QED
    BY <2>1, <2>2
<1>3. CASE pc[g] = "watch" /\ Ended(g)
  <2>1. gw[g].reads # None =>
           gw[g].reads = Plan(g) /\ (loop = None => cp[Plan(g)] # None)
    BY <1>3 DEF LoopInv, OwnLoop, LoopOf, Driving
  <2>2. CASE ReadCp(g) # None /\ IsNearCompletion(ReadCp(g))
    BY <2>1, <2>2 DEF ReadCp
  <2>3. CASE gw[g].reads # None /\ loop # None /\ ~loop.active
    <3>1. cp[loop.plan] # None /\ With(cp[loop.plan], "pending") = {}
      BY <2>3 DEF LoopEnded
    <3>2. IsNearCompletion(cp[loop.plan])
      BY <1>1, <2>3, <3>1, NoPendingIsNear
    <3> QED
      BY <2>3, <3>1, <3>2
  <2>4. CASE gw[g].reads # None /\ loop = None /\ ReadCp(g) = None
    BY <2>1, <2>4 DEF ReadCp
  <2> QED
    BY <1>3, <2>2, <2>3, <2>4 DEF Ended
<1> QED
  BY <1>2, <1>3

(* While the lock holds, and with the merge phase on, a plan is reported   *)
(* done only near the completion of a checkpoint, its own or, if another   *)
(* plan's loop file was left, that plan's: completions of the watch, finds *)
(* at a restart and adoptions alike.                                       *)
THEOREM SuccessNeedsEvidence ==
  AutoMerge = TRUE => (Spec /\ []InstanceExclusive => SuccessHasEvidence)
<1> SUFFICES ASSUME AutoMerge = TRUE PROVE Spec /\ []InstanceExclusive => SuccessHasEvidence
  OBVIOUS
<1> DEFINE I == RunTypeOK /\ LoopInv /\ CpInOrder /\ LoopEnded /\ DoneOK
           A == \A g \in Gws : Succeeds(g) /\ strays = {} =>
                   \E p \in {Plan(g), IF loop = None THEN Plan(g) ELSE loop.plan} :
                      cp[p] # None /\ IsNearCompletion(cp[p])
<1>1. Spec => [](RunTypeOK)
  BY InitRunTypes, NextRunTypes, PTL DEF Spec
<1>2. Spec /\ []InstanceExclusive => []SessionInv
  BY SessionsAreKept
<1>3. Init /\ SessionInv => I
  <2>1. ASSUME Init
        PROVE  /\ CpInOrder /\ LoopEnded /\ DoneOK /\ OwnerPlan
               /\ SessionsPast /\ OwnLoop /\ IdleLoop
    <3>1. /\ \A p \in Plans : cp[p] = None /\ loop = None /\ owner = None /\ strays = {}
          /\ \A g \in Gws : gw[g] = Locals /\ pc[g] \notin Driving
          /\ \A s \in Sessions : session[s] = "absent"
      BY <2>1 DEF Init, Driving
    <3>2. loop = None /\ owner = None /\ strays = {} /\ Locals.done = 0
      BY <2>1 DEF Init, Locals
    <3> QED
      BY <3>1, <3>2 DEF CpInOrder, LoopEnded, DoneOK, OwnerPlan, SessionsPast, OwnLoop, IdleLoop
  <2> QED
    BY <2>1, InitRunTypes DEF LoopInv
<1>4. I /\ SessionInv' /\ InstanceExclusive /\ InstanceExclusive' /\ [Next]_vars => I'
  BY NextRunTypes, NextLoop, NextCheckpoints, NextDone
<1>5. I /\ [Next]_vars => [A]_vars
  <2> SUFFICES ASSUME I, Next, NEW g \in Gws, Succeeds(g), strays = {}
               PROVE  \E p \in {Plan(g), IF loop = None THEN Plan(g) ELSE loop.plan} :
                         cp[p] # None /\ IsNearCompletion(cp[p])
    OBVIOUS
  <2>1. pc'[g] # pc[g] /\ gw'[g].done > gw[g].done /\ gw[g].done \in Nat
    BY DEF Succeeds, DoneOK
  <2>2. Step(g)
    <3>1. ASSUME NEW s \in Sessions, ArcBegins(s) \/ ArcAdvances(s) \/ ArcEnds(s) \/ SessionDies(s)
          PROVE  FALSE
      BY <2>1, <3>1, WorldFrame
    <3>2. ASSUME NEW h \in Gws, Step(h), h # g PROVE FALSE
      BY <2>1, <3>2, StepFrame
    <3> QED
      BY <3>1, <3>2 DEF Next, World
  <2>3. gw'[g].done \notin {gw[g].done, 0}
    BY <2>1, <2>2, StepKept DEF Kept
  <2> QED
    BY <2>2, <2>3, Successes, Evidence
<1> HIDE DEF I, A
<1>6. I => RunTypeOK
  BY DEF I
<1>7. Spec /\ []InstanceExclusive => [][A]_vars
  BY <1>1, <1>2, <1>3, <1>4, <1>5, PTL DEF Spec
<1> QED
  BY <1>7 DEF SuccessHasEvidence, A

(* So two processes forget no session and no restart, ...                  *)
THEOREM TwoForgetNothing ==
  AtMostTwo => (Spec => [](LiveSessionIsOwned /\ RestartsAreRemembered))
<1> SUFFICES ASSUME AtMostTwo PROVE Spec => [](LiveSessionIsOwned /\ RestartsAreRemembered)
  OBVIOUS
<1>1. Spec => []InstanceExclusive
  BY LockExcludesTwo
<1> QED
  BY <1>1, NoSessionIsForgotten, NoRestartIsForgotten, PTL

(* ... and report no plan done without evidence.                           *)
THEOREM TwoHaveEvidence == AtMostTwo /\ AutoMerge = TRUE => (Spec => SuccessHasEvidence)
<1> SUFFICES ASSUME AtMostTwo, AutoMerge = TRUE PROVE Spec => SuccessHasEvidence
  OBVIOUS
<1>1. Spec => []InstanceExclusive
  BY LockExcludesTwo
<1>2. Spec /\ []InstanceExclusive => SuccessHasEvidence
  BY SuccessNeedsEvidence
<1> QED
  BY <1>1, <1>2, PTL
=============================================================================

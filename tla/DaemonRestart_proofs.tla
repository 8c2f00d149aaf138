------------------------ MODULE DaemonRestart_proofs -------------------------
(***************************************************************************)
(* Theorems about crash and restart, for every finite set of repositories, *)
(* every set of runs and any number of crashes.                            *)
(***************************************************************************)
EXTENDS DaemonRestart, RunRegistry_proofs, FiniteSetTheorems

(* The types of the variables DaemonRestart adds to the registry.          *)
Staged == [Actor -> SUBSET [run : Runs, entry : Entry]]

Snapshot == [by : Actor, file : Wire]

BootType == [pc : BootPC, live : SUBSET Runs, todo : SUBSET Runs,
             drop : SUBSET Runs]

ActorTypeOK ==
    /\ task \in [Runs -> TaskPC]
    /\ ender \in [Runs -> EnderPC]
    /\ submit \in [Runs -> SubmitPC]
    /\ client \in [Runs -> ClientPC]

QueueTypeOK ==
    /\ snaps \in Seq(Snapshot)
    /\ tracked \in Wire
    /\ renames \subseteq Snapshot
    /\ queueFile \in Wire
    /\ raced \in BOOLEAN

MetaTypeOK == meta \in [Runs -> Entry] /\ overtaken \subseteq Runs

OtherTypeOK ==
    /\ restartable \subseteq Runs
    /\ strays \subseteq Runs
    /\ boot \in BootType
    /\ crashes \in 0..MaxCrashes
    /\ alive \subseteq Runs

(* TypeOK in parts.                                                        *)
Types == /\ RegistryTypeOK /\ ActorTypeOK /\ staged \in Staged
         /\ QueueTypeOK /\ MetaTypeOK /\ OtherTypeOK

(* The parts are the type invariant the run checks.                        *)
LEMMA TypesSplit == Types <=> TypeOK
BY DEF Types, TypeOK, ActorTypeOK, QueueTypeOK, MetaTypeOK, OtherTypeOK, Staged,
     Snapshot, BootType

(* The statuses the actions assign are proper ones.                        *)
LEMMA Statuses ==
  {"Queued", "Running", "Succeeded", "Failed", "Stopped"} = RunStatus
BY DEF RunStatus, Terminal

(* The entry write_meta serialises is a proper one.                        *)
LEMMA EntryTypes ==
  ASSUME NEW r \in Runs, status' \in [Runs -> RunStatus \union {"absent"}]
  PROVE  EntryAfter(r) \in Entry
BY DEF EntryAfter, Entry

(* A direct write of meta.json stores a proper entry                       *)
(* (registry::write_meta).                                                 *)
LEMMA WriteMetaTypes ==
  ASSUME MetaTypeOK, NEW r \in Runs, WriteMeta(r),
         status' \in [Runs -> RunStatus \union {"absent"}]
  PROVE  MetaTypeOK'
BY EntryTypes DEF MetaTypeOK, WriteMeta

(* A snapshot of well typed queues is well typed.                          *)
LEMMA StageQueueTypes ==
  ASSUME QueueTypeOK, NEW a \in Actor, StageQueue(a),
         UNCHANGED <<tracked, renames, queueFile, raced>>,
         queue' \in [Repos -> Seq(Runs)],
         fails' \in [Repos -> 0..(MaxConsecutiveFailures - 1)]
  PROVE  QueueTypeOK'
<1>1. [by |-> a, file |-> QueueWire(queue', fails')] \in Snapshot
  BY DEF QueueWire, Wire, Snapshot
<1>2. snaps' \in Seq(Snapshot)
  BY <1>1, AppendProperties DEF StageQueue, QueueTypeOK
<1> QED
  BY <1>2 DEF QueueTypeOK

(* What is left of a sequence behind one of its elements.                  *)
LEMMA RestOfSequence ==
  ASSUME NEW S, NEW s \in Seq(S), NEW i \in DOMAIN s
  PROVE  s[i] \in S /\ SubSeq(s, i + 1, Len(s)) \in Seq(S)
<1>1. Len(s) \in Nat /\ i \in 1..Len(s)
  OBVIOUS
<1>2. \A j \in (i + 1)..Len(s) : s[j] \in S
  BY <1>1
<1> QED
  BY <1>1, <1>2, SubSeqProperties

(* The tracker and queue.json become what was staged.                      *)
LEMMA FlushQueueTypes ==
  ASSUME QueueTypeOK, NEW a, AdvanceQueue(a) \/ ReturnFromFlush(a)
  PROVE  QueueTypeOK'
<1>1. ASSUME NEW i \in Mine(a),
             tracked' = snaps[i].file, renames' = renames \union {snaps[i]},
             snaps' = SubSeq(snaps, i + 1, Len(snaps)),
             raced' = (raced \/ renames # {}), UNCHANGED queueFile
      PROVE  QueueTypeOK'
  <2>1. snaps[i] \in Snapshot /\ SubSeq(snaps, i + 1, Len(snaps)) \in Seq(Snapshot)
    BY RestOfSequence DEF QueueTypeOK, Mine
  <2>2. snaps[i].file \in Wire
    BY <2>1 DEF Snapshot
  <2> QED
    BY <1>1, <2>1, <2>2 DEF QueueTypeOK
<1>2. CASE ReturnFromFlush(a)
  <2>1. ASSUME NEW m \in renames, queueFile' = m.file, renames' = renames \ {m},
               raced' = (raced /\ ~(renames' = {} /\ queueFile' = tracked)),
               UNCHANGED <<snaps, tracked>>
        PROVE  QueueTypeOK'
    BY <2>1 DEF QueueTypeOK, Snapshot
  <2> QED
    BY <1>2, <2>1 DEF ReturnFromFlush, QueueTypeOK
<1> QED
  BY <1>1, <1>2 DEF AdvanceQueue

(* A write of an entry that was carried.                                   *)
LEMMA WriteLateTypes ==
  ASSUME MetaTypeOK, NEW r \in Runs, NEW e \in Entry, WriteLate(r, e)
  PROVE  MetaTypeOK'
BY DEF MetaTypeOK, WriteLate

(* flush_status writes one of the actor's staged entries.                  *)
LEMMA FlushStatusTypes ==
  ASSUME staged \in Staged, MetaTypeOK, NEW a \in Actor, FlushStatus(a)
  PROVE  staged' \in Staged /\ MetaTypeOK'
<1>1. PICK w \in staged[a] : /\ WriteLate(w.run, w.entry)
                             /\ staged' = [staged EXCEPT ![a] = @ \ {w}]
  BY DEF FlushStatus
<1>2. w \in [run : Runs, entry : Entry]
  BY DEF Staged
<1>3. w.run \in Runs /\ w.entry \in Entry
  BY <1>2
<1> QED
  BY <1>1, <1>2, <1>3, WriteLateTypes DEF Staged

(* An actor's program counter.                                             *)
LEMMA ActorTypes ==
  ASSUME ActorTypeOK, NEW r \in Runs, NEW pc,
         \/ SetTask(r, pc) /\ pc \in TaskPC
         \/ SetEnder(r, pc) /\ pc \in EnderPC
         \/ SetSubmit(r, pc) /\ pc \in SubmitPC
         \/ SetClient(r, pc) /\ pc \in ClientPC
         \/ UNCHANGED actorVars
  PROVE  ActorTypeOK'
BY DEF ActorTypeOK, SetTask, SetEnder, SetSubmit, SetClient, actorVars

(* remove_pending.                                                         *)
LEMMA RemovePendingTypes ==
  ASSUME RegistryTypeOK, NEW r, RemovePending(r)
  PROVE  queue' \in [Repos -> Seq(Runs)]
<1>1. PICK p \in Repos : \E i \in DOMAIN queue[p] :
         queue' = [queue EXCEPT ![p] = RemoveAt(@, i)]
  BY DEF RemovePending
<1>2. PICK i \in DOMAIN queue[p] : queue' = [queue EXCEPT ![p] = RemoveAt(@, i)]
  BY <1>1
<1>3. RemoveAt(queue[p], i) \in Seq(Runs)
  BY RemoveAtOfDistinct DEF RegistryTypeOK
<1> QED
  BY <1>2, <1>3 DEF RegistryTypeOK

(* A new daemon starts well typed.                                         *)
LEMMA InitTypes == Init => Types
<1> SUFFICES ASSUME Init PROVE Types
  OBVIOUS
<1>1. \A S : <<>> \in Seq(S)
  BY EmptyQueue
<1>2. 0 \in 0..(MaxConsecutiveFailures - 1)
  BY LimitsAssumption
<1>3. RegistryTypeOK
  BY <1>1, <1>2 DEF Init, InitMemory, InitRegistry, RegistryTypeOK
<1>4. ActorTypeOK /\ staged \in Staged
  BY DEF Init, InitMemory, Idle, ActorTypeOK, Staged, TaskPC, EnderPC, SubmitPC,
       ClientPC
<1>5. QueueTypeOK
  BY <1>1, <1>2 DEF Init, InitMemory, QueueTypeOK, EmptyWire, QueueWire, Wire
<1>6. MetaTypeOK
  BY DEF Init, MetaTypeOK, NoEntry, Entry
<1>7. OtherTypeOK
  BY MaxCrashesAssumption DEF Init, InitMemory, OtherTypeOK, Boot, BootType, BootPC
<1> QED
  BY <1>3, <1>4, <1>5, <1>6, <1>7 DEF Types

----------------------------------------------------------------------------
(* Each action keeps the types.                                            *)

(* The actors.                                                             *)
LEMMA Actors ==
  ASSUME NEW r \in Runs
  PROVE  /\ <<"task", r>> \in Actor /\ <<"end", r>> \in Actor
         /\ <<"submit", r>> \in Actor /\ <<"client", r>> \in Actor
         /\ <<"heartbeat", r>> \in Actor
BY DEF Actor

(* The client's requests: submit, stop or remove a queued run, detach.     *)
LEMMA RequestTypes ==
  ASSUME Types, NEW r \in Runs, Request(r)
  PROVE  Types'
<1> USE Statuses DEF Types
<1>0. RepoOf[r] \in Repos /\ <<"client", r>> \in Actor /\ <<"submit", r>> \in Actor
  BY RepoOfAssumption, Actors
<1>1. CASE SubmitDirect(r)
  <2>1. status' \in [Runs -> RunStatus \union {"absent"}] /\ locks' \subseteq Repos
    BY <1>0, <1>1 DEF SubmitDirect, RegisterRun, StatusAfter, RegistryTypeOK
  <2>2. MetaTypeOK'
    BY <1>1, <2>1, WriteMetaTypes DEF SubmitDirect
  <2>3. ActorTypeOK'
    BY <1>1, ActorTypes DEF SubmitDirect, TaskPC
  <2> QED
    BY <1>1, <2>1, <2>2, <2>3 DEF SubmitDirect, RegistryTypeOK, queueVars,
         QueueTypeOK, OtherTypeOK
<1>2. CASE SubmitQueued(r)
  <2>1. RegistryTypeOK'
    BY <1>2, EnqueueTypes DEF SubmitQueued
  <2>2. QueueTypeOK'
    BY <1>0, <1>2, <2>1, StageQueueTypes DEF SubmitQueued, RegistryTypeOK
  <2>3. ActorTypeOK'
    BY <1>2, ActorTypes DEF SubmitQueued, SubmitPC
  <2> QED
    BY <1>2, <2>1, <2>2, <2>3 DEF SubmitQueued, metaVars, MetaTypeOK, OtherTypeOK
<1>3. CASE RemoveQueued(r)
  <2>1. status' \in [Runs -> RunStatus \union {"absent"}] /\ locks' \subseteq Repos
    BY <1>3, StageStatusTypes DEF RemoveQueued
  <2>2. queue' \in [Repos -> Seq(Runs)]
    BY <1>3, RemovePendingTypes DEF RemoveQueued
  <2>3. RegistryTypeOK'
    BY <1>3, <2>1, <2>2 DEF RemoveQueued, RegistryTypeOK
  <2>4. staged' \in Staged
    BY <1>0, <1>3, <2>1, EntryTypes DEF RemoveQueued, Staged
  <2>5. QueueTypeOK'
    BY <1>0, <1>3, <2>3, StageQueueTypes DEF RemoveQueued, RegistryTypeOK
  <2>6. ActorTypeOK'
    BY <1>3, ActorTypes DEF RemoveQueued, ClientPC
  <2> QED
    BY <1>3, <2>3, <2>4, <2>5, <2>6 DEF RemoveQueued, metaVars, MetaTypeOK,
         OtherTypeOK
<1>4. CASE Detach(r)
  <2>1. status' \in [Runs -> RunStatus \union {"absent"}] /\ locks' \subseteq Repos
    BY <1>4, StageStatusTypes DEF Detach
  <2>2. staged' \in Staged
    BY <1>0, <1>4, <2>1, EntryTypes DEF Detach, Staged
  <2>3. ActorTypeOK'
    BY <1>4, ActorTypes DEF Detach, ClientPC
  <2> QED
    BY <1>4, <2>1, <2>2, <2>3 DEF Detach, RegistryTypeOK, queueVars, QueueTypeOK,
         metaVars, MetaTypeOK, OtherTypeOK
<1> QED
  BY <1>1, <1>2, <1>3, <1>4 DEF Request

(* A flush of queue.json returns, and its actor goes on.                   *)
LEMMA ReturnTypes ==
  ASSUME Types, NEW a, ReturnFromFlush(a), ActorTypeOK',
         UNCHANGED <<registryVars, restartable, staged, metaVars, strays, boot,
                     crashes, alive>>
  PROVE  Types'
<1>1. QueueTypeOK'
  BY FlushQueueTypes DEF Types
<1> QED
  BY <1>1 DEF Types, registryVars, RegistryTypeOK, metaVars, MetaTypeOK, OtherTypeOK

(* An actor writes one of its staged entries, and goes on.                 *)
LEMMA FlushTypes ==
  ASSUME Types, NEW a \in Actor, FlushStatus(a), ActorTypeOK',
         UNCHANGED <<registryVars, restartable, queueVars, strays, boot,
                     crashes, alive>>
  PROVE  Types'
<1>1. staged' \in Staged /\ MetaTypeOK'
  BY FlushStatusTypes DEF Types
<1> QED
  BY <1>1 DEF Types, registryVars, RegistryTypeOK, queueVars, QueueTypeOK, OtherTypeOK

(* The rest of a request, after its critical section: the staged writes.   *)
LEMMA ClientTypes ==
  ASSUME Types, NEW r \in Runs, ClientStep(r)
  PROVE  Types'
<1>0. <<"client", r>> \in Actor /\ <<"submit", r>> \in Actor /\ ActorTypeOK
  BY Actors DEF Types
<1>1. CASE EnqueueFlush(r)
  <2>1. ActorTypeOK'
    BY <1>0, <1>1, ActorTypes DEF EnqueueFlush, SubmitPC
  <2> QED
    BY <1>1, <2>1, ReturnTypes DEF EnqueueFlush
<1>2. CASE EnqueueMeta(r)
  <2>1. [NoEntry EXCEPT !.status = "Queued"] \in Entry
    BY Statuses DEF NoEntry, Entry
  <2>2. ActorTypeOK' /\ MetaTypeOK'
    BY <1>0, <1>2, <2>1, ActorTypes, WriteLateTypes DEF EnqueueMeta, SubmitPC, Types
  <2> QED
    BY <1>2, <2>2 DEF EnqueueMeta, Types, registryVars, RegistryTypeOK, queueVars,
         QueueTypeOK, OtherTypeOK
<1>3. CASE RemoveFlushStatus(r)
  <2>1. ActorTypeOK'
    BY <1>0, <1>3, ActorTypes DEF RemoveFlushStatus
  <2> QED
    BY <1>0, <1>3, <2>1, FlushTypes DEF RemoveFlushStatus
<1>4. CASE RemoveEnds(r)
  <2>1. ActorTypeOK'
    BY <1>0, <1>4, ActorTypes DEF RemoveEnds, ClientPC
  <2> QED
    BY <1>4, <2>1, ReturnTypes DEF RemoveEnds
<1>5. CASE DetachFlush(r)
  <2>1. ActorTypeOK'
    BY <1>0, <1>5, ActorTypes DEF DetachFlush, ClientPC
  <2> QED
    BY <1>0, <1>5, <2>1, FlushTypes DEF DetachFlush
<1> QED
  BY <1>1, <1>2, <1>3, <1>4, <1>5 DEF ClientStep

(* The steps of spawn_run and spawn_queued_run.                            *)
LEMMA SpawnTypes ==
  ASSUME Types, NEW r \in Runs,
         Promote(r) \/ SpawnSession(r) \/ Dispatch(r) \/ DispatchFlush(r)
  PROVE  Types'
<1> USE Statuses DEF Types
<1>0. <<"task", r>> \in Actor /\ RepoOf[r] \in Repos
  BY RepoOfAssumption, Actors
<1>1. CASE Promote(r)
  <2>1. status' \in [Runs -> RunStatus \union {"absent"}] /\ locks' \subseteq Repos
    BY <1>0, <1>1 DEF Promote, PromoteQueued, RegistryTypeOK
  <2>2. MetaTypeOK'
    BY <1>1, <2>1, WriteMetaTypes DEF Promote
  <2>3. ActorTypeOK'
    BY <1>1, ActorTypes DEF Promote, TaskPC
  <2> QED
    BY <1>1, <2>1, <2>2, <2>3 DEF Promote, RegistryTypeOK, queueVars, QueueTypeOK,
         OtherTypeOK
<1>2. CASE SpawnSession(r)
  <2>1. ActorTypeOK'
    BY <1>2, ActorTypes DEF SpawnSession, TaskPC
  <2> QED
    BY <1>2, <2>1 DEF SpawnSession, registryVars, queueVars, metaVars,
         RegistryTypeOK, QueueTypeOK, MetaTypeOK, OtherTypeOK
<1>3. CASE Dispatch(r)
  <2>1. status' \in [Runs -> RunStatus \union {"absent"}] /\ locks' \subseteq Repos
    BY <1>3, StageStatusTypes DEF Dispatch
  <2>2. staged' \in Staged
    BY <1>0, <1>3, <2>1, EntryTypes DEF Dispatch, Staged
  <2>3. ActorTypeOK'
    BY <1>3, ActorTypes DEF Dispatch, TaskPC
  <2>4. tmux' \subseteq Runs
    BY <1>3 DEF Dispatch, RegistryTypeOK
  <2> QED
    BY <1>3, <2>1, <2>2, <2>3, <2>4 DEF Dispatch, RegistryTypeOK, queueVars,
         QueueTypeOK, metaVars, MetaTypeOK, OtherTypeOK
<1>4. CASE DispatchFlush(r)
  <2>1. ActorTypeOK'
    BY <1>4, ActorTypes DEF DispatchFlush, TaskPC
  <2> QED
    BY <1>0, <1>4, <2>1, FlushTypes DEF DispatchFlush
<1> QED
  BY <1>1, <1>2, <1>3, <1>4

(* The heartbeat's writes and the ends of a run: completion, reaping, stop *)
(* and crash recovery.                                                     *)
LEMMA EndTypes ==
  ASSUME Types, NEW r \in Runs,
         \/ Complete(r) \/ Reap(r) \/ StopKill(r) \/ StopMark(r)
         \/ HeartbeatStep(r)
  PROVE  Types'
<1> USE Statuses DEF Types
<1>0. <<"heartbeat", r>> \in Actor
  BY Actors
<1>1. CASE Complete(r) \/ StopMark(r) \/ HeartbeatComplete(r)
  <2>1. status' \in [Runs -> RunStatus \union {"absent"}] /\ locks' \subseteq Repos
    BY <1>1, StageStatusTypes DEF Complete, StopMark, HeartbeatComplete
  <2>2. MetaTypeOK'
    BY <1>1, <2>1, WriteMetaTypes DEF Complete, StopMark, HeartbeatComplete
  <2>3. ActorTypeOK'
    BY <1>1, ActorTypes DEF Complete, StopMark, HeartbeatComplete, EnderPC
  <2> QED
    BY <1>1, <2>1, <2>2, <2>3 DEF Complete, StopMark, HeartbeatComplete,
         RegistryTypeOK, queueVars, QueueTypeOK, OtherTypeOK
<1>2. CASE Reap(r) \/ StopKill(r)
  <2>1. ActorTypeOK'
    BY <1>2, ActorTypes DEF Reap, StopKill, EnderPC
  <2> QED
    BY <1>2, <2>1 DEF Reap, StopKill, registryVars, queueVars, metaVars,
         RegistryTypeOK, QueueTypeOK, MetaTypeOK, OtherTypeOK
<1>3. CASE HeartbeatStage(r)
  <2>1. status' \in [Runs -> RunStatus \union {"absent"}] /\ locks' \subseteq Repos
    BY <1>3, StageStatusTypes DEF HeartbeatStage
  <2>2. staged' \in Staged
    BY <1>0, <1>3, <2>1, EntryTypes DEF HeartbeatStage, Staged
  <2> QED
    BY <1>3, <2>1, <2>2 DEF HeartbeatStage, RegistryTypeOK, actorVars, ActorTypeOK,
         queueVars, QueueTypeOK, metaVars, MetaTypeOK, OtherTypeOK
<1>4. CASE HeartbeatFlush(r)
  <2>1. ActorTypeOK'
    BY <1>4, ActorTypes DEF HeartbeatFlush
  <2> QED
    BY <1>0, <1>4, <2>1, FlushTypes DEF HeartbeatFlush
<1>5. CASE Recover(r)
  BY <1>5 DEF Recover, memoryVars, registryVars, actorVars, queueVars, metaVars,
       RegistryTypeOK, ActorTypeOK, QueueTypeOK, MetaTypeOK, OtherTypeOK
<1> QED
  BY <1>1, <1>2, <1>3, <1>4, <1>5 DEF HeartbeatStep

(* The actor a drain's writes are named after.                             *)
LEMMA FlusherIsActor ==
  ASSUME NEW a \in Actor, NEW N, N \subseteq Runs
  PROVE  Flusher(a, N) \in Actor
<1>1. CASE N = {}
  BY <1>1 DEF Flusher
<1>2. CASE N # {}
  <2>1. (CHOOSE x \in N : TRUE) \in N
    BY <1>2
  <2>2. (CHOOSE x \in N : TRUE) \in Runs
    BY <2>1
  <2> QED
    BY <1>2, <2>2, Actors DEF Flusher
<1> QED
  BY <1>1, <1>2

(* The critical section of a drain.                                        *)
LEMMA RecordAndPopTypes ==
  ASSUME Types, NEW a \in Actor, NEW F \in SUBSET Runs, NEW failed \in BOOLEAN,
         NEW src,
         \A x \in src : x \in Repos /\ QueueAfter(RepoOf[a[2]], failed)[x] # <<>>,
         RecordAndPop(a, F, failed, src)
  PROVE  Types'
<1> USE Statuses DEF Types
<1> DEFINE p == RepoOf[a[2]]
           q == QueueAfter(p, failed)
           drained == Drained(p, failed)
           next == {Head(q[x]) : x \in src}
           owner == Flusher(a, next)
<1>0. p \in Repos
  BY RepoOfAssumption DEF Actor
<1>1. q \in [Repos -> Seq(Runs)] /\ drained \subseteq Pending(p)
  BY <1>0, QueueAfterFacts
<1>2. Pending(p) \subseteq Runs
  BY <1>0 DEF Pending, ToSet, RegistryTypeOK
<1>3. \A x \in src : Head(q[x]) \in Runs /\ Tail(q[x]) \in Seq(Runs)
  BY <1>1
<1>4. owner \in Actor
  <2>1. next \subseteq Runs
    BY <1>3
  <2> HIDE DEF next
  <2> QED
    BY <2>1, FlusherIsActor
<1>5. status' \in [Runs -> RunStatus \union {"absent"}] /\ locks' \subseteq Repos
  BY DEF RecordAndPop, RegistryTypeOK
<1>6. fails' \in [Repos -> 0..(MaxConsecutiveFailures - 1)]
  BY <1>0, FailsAfterType DEF RecordAndPop
<1>7. queue' \in [Repos -> Seq(Runs)]
  <2>1. queue' = [x \in Repos |-> IF x \in src THEN Tail(q[x]) ELSE q[x]]
    BY DEF RecordAndPop
  <2> QED
    BY <1>1, <1>3, <2>1
<1>8. RegistryTypeOK'
  BY <1>5, <1>6, <1>7 DEF RecordAndPop, RegistryTypeOK
<1>9. staged' \in Staged
  <2> DEFINE W == {[run |-> x, entry |-> EntryAfter(x)] :
                     x \in {y \in F \union drained : status[y] # "absent"}}
  <2>1. staged' = [staged EXCEPT ![owner] = W]
    BY DEF RecordAndPop
  <2>2. W \in SUBSET [run : Runs, entry : Entry]
    BY <1>1, <1>2, <1>5, EntryTypes
  <2> HIDE DEF W, owner
  <2> QED
    BY <1>4, <2>1, <2>2 DEF Staged
<1>10. QueueTypeOK'
  <2>1. StageQueue(owner) /\ UNCHANGED <<tracked, renames, queueFile, raced>>
    BY DEF RecordAndPop
  <2> HIDE DEF owner
  <2> QED
    BY <1>4, <1>6, <1>7, <2>1, StageQueueTypes
<1>11. ActorTypeOK'
  <2>1. AfterPop(a, next) /\ UNCHANGED <<submit, client>>
    BY DEF RecordAndPop
  <2> HIDE DEF next
  <2> QED
    BY <2>1 DEF AfterPop, ActorTypeOK, TaskPC, EnderPC
<1> QED
  BY <1>8, <1>9, <1>10, <1>11 DEF RecordAndPop, metaVars, MetaTypeOK, OtherTypeOK

(* Both drains pop from a queue with something in it.                      *)
LEMMA DrainSources ==
  ASSUME Types, NEW r \in Runs, DrainIfAvailable(r) \/ PromoteFails(r)
  PROVE  \E a \in Actor, F \in SUBSET Runs, failed \in BOOLEAN : \E src :
            /\ RecordAndPop(a, F, failed, src)
            /\ \A x \in src : x \in Repos /\ QueueAfter(RepoOf[a[2]], failed)[x] # <<>>
<1>0. RepoOf[r] \in Repos /\ <<"task", r>> \in Actor /\ <<"end", r>> \in Actor
  BY RepoOfAssumption, Actors
<1>1. CASE DrainIfAvailable(r)
  <2> DEFINE src == OwnElseAny(RepoOf[r], queue, FailsAfter(RepoOf[r], FALSE))
             a == <<"end", r>>
  <2>1. QueueAfter(RepoOf[r], FALSE) = queue
    BY DEF QueueAfter, Trips
  <2>2. queue \in [Repos -> Seq(Runs)] /\ RegistryTypeOK
    BY DEF Types, RegistryTypeOK
  <2>3. \A x \in src : x \in Repos /\ queue[x] # <<>>
    BY <1>0, <2>2, SourceFacts
  <2>4. RecordAndPop(a, {}, FALSE, src) /\ a \in Actor /\ a[2] = r
    BY <1>0, <1>1 DEF DrainIfAvailable
  <2> HIDE DEF src, a
  <2> QED
    BY <2>1, <2>3, <2>4
<1>2. CASE PromoteFails(r)
  <2> DEFINE q == QueueAfter(RepoOf[r], TRUE)
             src == OwnQueue(RepoOf[r], q, FailsAfter(RepoOf[r], TRUE))
             a == <<"task", r>>
  <2>1. q \in [Repos -> Seq(Runs)] /\ RegistryTypeOK
    BY <1>0, QueueAfterFacts DEF Types
  <2>2. \A x \in src : x \in Repos /\ q[x] # <<>>
    BY <1>0, <2>1, SourceFacts
  <2>3. RecordAndPop(a, {r}, TRUE, src) /\ a \in Actor /\ a[2] = r
    BY <1>0, <1>2 DEF PromoteFails
  <2> HIDE DEF src, a
  <2> QED
    BY <2>2, <2>3
<1> QED
  BY <1>1, <1>2

(* The drains and the writes they staged.                                  *)
LEMMA DrainTypes ==
  ASSUME Types, NEW r \in Runs,
         \/ DrainIfAvailable(r) \/ PromoteFails(r)
         \/ TaskFlushStatus(r) \/ TaskFlushQueue(r)
         \/ EndFlushQueue(r)
  PROVE  Types'
<1>0. <<"task", r>> \in Actor /\ <<"end", r>> \in Actor /\ ActorTypeOK
  BY Actors DEF Types
<1>1. CASE DrainIfAvailable(r) \/ PromoteFails(r)
  BY <1>1, DrainSources, RecordAndPopTypes
<1>2. CASE TaskFlushStatus(r)
  <2>1. ActorTypeOK'
    BY <1>0, <1>2, ActorTypes DEF TaskFlushStatus
  <2> QED
    BY <1>0, <1>2, <2>1, FlushTypes DEF TaskFlushStatus
<1>3. CASE TaskFlushQueue(r) \/ EndFlushQueue(r)
  <2>1. ActorTypeOK'
    BY <1>0, <1>3, ActorTypes DEF TaskFlushQueue, EndFlushQueue, TaskPC, EnderPC
  <2> QED
    BY <1>3, <2>1, ReturnTypes DEF TaskFlushQueue, EndFlushQueue
<1> QED
  BY <1>1, <1>2, <1>3

----------------------------------------------------------------------------
(* What was memory is lost with the daemon.                                *)
LEMMA CrashTypes ==
  ASSUME Types, Crash
  PROVE  Types'
<1>1. \A S : <<>> \in Seq(S)
  BY EmptyQueue
<1>2. 0 \in 0..(MaxConsecutiveFailures - 1)
  BY LimitsAssumption
<1>3. RegistryTypeOK'
  BY <1>1, <1>2 DEF Crash, RegistryTypeOK
<1>4. ActorTypeOK' /\ staged' \in Staged
  BY DEF Crash, Idle, ActorTypeOK, Staged, TaskPC, EnderPC, SubmitPC, ClientPC
<1>5. QueueTypeOK' /\ MetaTypeOK'
  BY <1>1 DEF Crash, Types, QueueTypeOK, MetaTypeOK
<1>6. crashes' \in 0..MaxCrashes
  BY MaxCrashesAssumption DEF Crash, Types, OtherTypeOK
<1>7. strays' \subseteq Runs
  BY DEF Crash, Misplaced, Types, OtherTypeOK
<1> QED
  BY <1>3, <1>4, <1>5, <1>6, <1>7 DEF Crash, Types, OtherTypeOK, Boot, BootType,
       BootPC

(* restore_queue takes the repositories of queue.json in some order.       *)
LEMMA LoadTypes ==
  ASSUME Types, Load
  PROVE  Types'
<1> DEFINE P == {p \in Repos : queueFile.queues[p] # <<>>}
<1>1. Cardinality(P) \in Nat
  BY ReposAssumption, FS_Subset, FS_CardinalityType
<1>2. order' \in [1..Cardinality(P) -> P]
  BY DEF Load, SetToSeqs
<1>3. order' \in Seq(Repos)
  <2> DEFINE n == Cardinality(P)
  <2>1. n \in Nat /\ order' \in [1..n -> Repos]
    BY <1>1, <1>2
  <2> HIDE DEF n
  <2> QED
    BY <2>1
<1>4. queue' \in [Repos -> Seq(Runs)]
      /\ fails' \in [Repos -> 0..(MaxConsecutiveFailures - 1)]
  BY DEF Load, Types, QueueTypeOK, Wire
<1>5. status' \in [Runs -> RunStatus \union {"absent"}]
  BY DEF Load, Types, MetaTypeOK, Entry
<1>6. locks' \subseteq Repos
  BY RepoOfAssumption DEF Load, Relocked
<1>7. RegistryTypeOK'
  BY <1>3, <1>4, <1>5, <1>6 DEF Load, RegistryTypeOK
<1>8. ActorTypeOK' /\ staged' \in Staged /\ QueueTypeOK' /\ MetaTypeOK'
  BY DEF Load, Types, actorVars, ActorTypeOK, queueVars, QueueTypeOK, metaVars,
       MetaTypeOK
<1> QED
  BY <1>7, <1>8 DEF Load, Types, OtherTypeOK, Boot, BootType, BootPC

(* The reconciler's steps.                                                 *)
LEMMA ReconcileRunTypes ==
  ASSUME Types, NEW r \in Runs,
         \/ ReconcileSession(r) \/ ResumeStale(r) \/ FailStale(r)
         \/ KeepPending(r) \/ DropPending(r) \/ FailDropped(r)
  PROVE  Types'
<1> USE Statuses DEF Types, actorVars, ActorTypeOK
<1>1. CASE ReconcileSession(r) \/ KeepPending(r)
  <2>1. boot' \in BootType /\ alive' \subseteq Runs
    BY <1>1 DEF ReconcileSession, KeepPending, OtherTypeOK, BootType
  <2> QED
    BY <1>1, <2>1 DEF ReconcileSession, KeepPending, memoryVars, registryVars,
         queueVars, metaVars, RegistryTypeOK, QueueTypeOK, MetaTypeOK, OtherTypeOK
<1>2. CASE ResumeStale(r) \/ FailStale(r)
  <2>1. status' \in [Runs -> RunStatus \union {"absent"}] /\ locks' \subseteq Repos
    BY <1>2, StageStatusTypes DEF ResumeStale, FailStale
  <2>2. MetaTypeOK'
    BY <1>2, <2>1, WriteMetaTypes DEF ResumeStale, FailStale
  <2>3. tmux' \subseteq Runs
    BY <1>2 DEF ResumeStale, FailStale, RegistryTypeOK
  <2>4. boot' \in BootType
    BY <1>2 DEF ResumeStale, FailStale, OtherTypeOK, BootType
  <2> QED
    BY <1>2, <2>1, <2>2, <2>3, <2>4 DEF ResumeStale, FailStale, RegistryTypeOK,
         queueVars, QueueTypeOK, OtherTypeOK
<1>3. CASE DropPending(r)
  <2>1. queue' \in [Repos -> Seq(Runs)]
    BY <1>3, RemovePendingTypes DEF DropPending
  <2>2. queueFile' \in Wire /\ tracked' \in Wire
    BY <1>3, <2>1 DEF DropPending, QueueWire, Wire, RegistryTypeOK
  <2>3. boot' \in BootType
    BY <1>3 DEF DropPending, OtherTypeOK, BootType
  <2> QED
    BY <1>3, <2>1, <2>2, <2>3 DEF DropPending, RegistryTypeOK, QueueTypeOK,
         metaVars, MetaTypeOK, OtherTypeOK
<1>4. CASE FailDropped(r)
  <2>1. status' \in [Runs -> RunStatus \union {"absent"}] /\ locks' \subseteq Repos
    BY <1>4, StageStatusTypes DEF FailDropped
  <2>2. MetaTypeOK'
    BY <1>4, <2>1, WriteMetaTypes DEF FailDropped, metaVars, MetaTypeOK
  <2>3. boot' \in BootType
    BY <1>4 DEF FailDropped, OtherTypeOK, BootType
  <2> QED
    BY <1>4, <2>1, <2>2, <2>3 DEF FailDropped, RegistryTypeOK, queueVars,
         QueueTypeOK, OtherTypeOK
<1> QED
  BY <1>1, <1>2, <1>3, <1>4

(* The steps of a start of the daemon, from the load to the server.        *)
LEMMA ReconcileTypes ==
  ASSUME Types, Reconcile
  PROVE  Types'
<1>1. CASE SessionsDone \/ StaleDone \/ Start
  <2>1. UNCHANGED <<memoryVars, queueVars, metaVars, strays, crashes, alive>>
    BY <1>1 DEF SessionsDone, StaleDone, Start
  <2>2. boot \in BootType
    BY DEF Types, OtherTypeOK
  <2>3. ASSUME SessionsDone PROVE boot' \in BootType
    <3>1. Stale \in SUBSET Runs
      BY DEF Stale
    <3> QED
      BY <2>2, <2>3, <3>1 DEF SessionsDone, BootType, BootPC
  <2>4. ASSUME StaleDone PROVE boot' \in BootType
    BY <2>2, <2>4 DEF StaleDone, BootType, BootPC
  <2>5. ASSUME Start PROVE boot' \in BootType
    BY <2>5 DEF Start, Boot, BootType, BootPC
  <2>6. boot' \in BootType
    BY <1>1, <2>3, <2>4, <2>5
  <2> QED
    BY <2>1, <2>6 DEF memoryVars, registryVars, actorVars, queueVars, metaVars,
         Types, RegistryTypeOK, ActorTypeOK, QueueTypeOK, MetaTypeOK, OtherTypeOK
<1> QED
  BY <1>1, LoadTypes, ReconcileRunTypes DEF Reconcile

(* Every step keeps the types.                                             *)
LEMMA NextTypes == Types /\ [Next]_vars => Types'
<1> SUFFICES ASSUME Types, [Next]_vars PROVE Types'
  OBVIOUS
<1>1. CASE UNCHANGED vars
  BY <1>1 DEF vars, memoryVars, registryVars, actorVars, queueVars, metaVars, Types,
       RegistryTypeOK, ActorTypeOK, QueueTypeOK, MetaTypeOK, OtherTypeOK
<1>2. ASSUME NEW r \in Runs, RunStep(r) PROVE Types'
  BY <1>2, SpawnTypes, EndTypes, DrainTypes DEF RunStep, SpawnStep, EndStep
<1>3. ASSUME NEW r \in Runs, SessionDies(r) PROVE Types'
  BY <1>3 DEF SessionDies, memoryVars, registryVars, actorVars, queueVars, metaVars,
       Types, RegistryTypeOK, ActorTypeOK, QueueTypeOK, MetaTypeOK, OtherTypeOK
<1>4. CASE FlushBegins
  <2>1. QueueTypeOK'
    BY <1>4, FlushQueueTypes DEF FlushBegins, Types
  <2> QED
    BY <1>4, <2>1 DEF FlushBegins, memoryVars, registryVars, actorVars, metaVars,
         Types, RegistryTypeOK, ActorTypeOK, MetaTypeOK, OtherTypeOK
<1> QED
  BY <1>1, <1>2, <1>3, <1>4, RequestTypes, ClientTypes, CrashTypes, ReconcileTypes
     DEF Next

(* The types of memory, disk and start-up hold in every life of the        *)
(* daemon: in particular a snapshot a handler still carries, a queue.json  *)
(* and an order rebuilt from it are always loadable (registry.rs:1093,     *)
(* restore_queue).                                                         *)
THEOREM RestartTypeCorrect == Spec => []TypeOK
<1>1. Spec => []Types
  BY InitTypes, NextTypes, PTL DEF Spec
<1> QED
  BY <1>1, TypesSplit, PTL

----------------------------------------------------------------------------
(* A Running run has a session name.  The invariant of memory alone is not *)
(* inductive: Load takes it from meta.json, and meta.json from whatever a  *)
(* handler has staged, so that all three places must have it.              *)

Watchable(e) == e.status = "Running" => e.tmux

MemoryWatchable == \A r \in Runs : status[r] = "Running" => r \in tmux

DiskWatchable == \A r \in Runs : Watchable(meta[r])

StagedWatchable == \A a \in Actor : \A w \in staged[a] : Watchable(w.entry)

AllWatchable == MemoryWatchable /\ DiskWatchable /\ StagedWatchable

SubmittedEntry == [NoEntry EXCEPT !.status = "Queued"]

(* The only ways meta.json changes: to what memory then says of the run,   *)
(* to the entry as submitted, or to what was staged.                       *)
MetaWritten ==
    \/ UNCHANGED metaVars
    \/ UNCHANGED meta /\ overtaken' = {} /\ ~Up'
    \/ \E r \in Runs : /\ WriteMeta(r) /\ status'[r] # "absent"
                       /\ UNCHANGED staged
    \/ \E r \in Runs : EnqueueMeta(r) /\ WriteLate(r, SubmittedEntry)
    \/ \E a \in Actor : FlushStatus(a) /\ UNCHANGED registryVars

(* No action writes meta.json in another way.                              *)
LEMMA HowMetaIsWritten == Next => MetaWritten
<1> SUFFICES ASSUME Next PROVE MetaWritten
  OBVIOUS
<1> USE Actors DEF MetaWritten, SubmittedEntry
<1>0. ASSUME NEW r \in Runs, NEW to, to # "absent",
             status' = StatusAfter({r}, to), WriteMeta(r), UNCHANGED staged
      PROVE  MetaWritten
  BY <1>0 DEF StatusAfter
<1>1. ASSUME NEW r \in Runs, Request(r) PROVE MetaWritten
  BY <1>0, <1>1 DEF Request, SubmitDirect, RegisterRun, SubmitQueued, RemoveQueued, Detach
<1>2. ASSUME NEW r \in Runs, ClientStep(r) PROVE MetaWritten
  <2>1. CASE EnqueueMeta(r)
    BY <2>1 DEF EnqueueMeta
  <2> QED
    BY <1>2, <2>1 DEF ClientStep, EnqueueFlush, RemoveFlushStatus, RemoveEnds,
         DetachFlush
<1>3. ASSUME NEW r \in Runs, SpawnStep(r) PROVE MetaWritten
  <2>1. CASE Promote(r)
    BY <2>1 DEF Promote, PromoteQueued, CanPromote
  <2> QED
    BY <1>3, <2>1 DEF SpawnStep, PromoteFails, SpawnSession, Dispatch,
         DispatchFlush, RecordAndPop, TaskFlushStatus, TaskFlushQueue
<1>4. ASSUME NEW r \in Runs, EndStep(r) PROVE MetaWritten
  <2>1. CASE Complete(r) \/ StopMark(r)
    BY <1>0, <2>1 DEF Complete, StopMark, StageStatus
  <2> QED
    BY <1>4, <2>1 DEF EndStep, Reap, StopKill, DrainIfAvailable, RecordAndPop,
         EndFlushQueue
<1>5. ASSUME NEW r \in Runs, HeartbeatStep(r) PROVE MetaWritten
  <2>1. CASE HeartbeatComplete(r)
    BY <1>0, <2>1 DEF HeartbeatComplete, StageStatus
  <2> QED
    BY <1>5, <2>1 DEF HeartbeatStep, HeartbeatStage, HeartbeatFlush, Recover
<1>6. CASE Reconcile
  <2>1. ASSUME NEW r \in Runs, ResumeStale(r) \/ FailStale(r) \/ FailDropped(r)
        PROVE  MetaWritten
    BY <1>0, <2>1 DEF ResumeStale, FailStale, FailDropped, StageStatus, TryStageStatus
  <2> QED
    BY <1>6, <2>1 DEF Reconcile, Load, SessionsDone, StaleDone, Start, ReconcileSession,
         KeepPending, DropPending
<1>7. CASE FlushBegins
  BY <1>7 DEF FlushBegins
<1>8. CASE Crash
  BY <1>8 DEF Crash, Up, Boot
<1> QED
  BY <1>1, <1>2, <1>3, <1>4, <1>5, <1>6, <1>7, <1>8 DEF Next, RunStep, SessionDies

(* The only ways a meta.json write is staged: entries as memory has them.  *)
StagedAs(a, R) ==
    staged' = [staged EXCEPT ![a] = {[run |-> r, entry |-> EntryAfter(r)] : r \in R}]

StatusStaged ==
    \/ UNCHANGED staged
    \/ staged' = [a \in Actor |-> {}]
    \/ \E a \in Actor : \E R \in SUBSET Runs : StagedAs(a, R)
    \/ \E a \in Actor : FlushStatus(a)

(* The critical section of a drain stages for its owner.                   *)
LEMMA RecordAndPopStages ==
  ASSUME Types, NEW a \in Actor, NEW F \in SUBSET Runs, NEW failed \in BOOLEAN,
         NEW src,
         \A x \in src : x \in Repos /\ QueueAfter(RepoOf[a[2]], failed)[x] # <<>>,
         RecordAndPop(a, F, failed, src)
  PROVE  \E b \in Actor : \E R \in SUBSET Runs : StagedAs(b, R)
<1> DEFINE p == RepoOf[a[2]]
           q == QueueAfter(p, failed)
           drained == Drained(p, failed)
           next == {Head(q[x]) : x \in src}
           owner == Flusher(a, next)
           R == {y \in F \union drained : status[y] # "absent"}
<1>0. p \in Repos
  BY RepoOfAssumption DEF Actor
<1>1. q \in [Repos -> Seq(Runs)] /\ drained \subseteq Pending(p)
  BY <1>0, QueueAfterFacts DEF Types
<1>2. Pending(p) \subseteq Runs
  BY <1>0 DEF Pending, ToSet, Types, RegistryTypeOK
<1>3. \A x \in src : Head(q[x]) \in Runs
  BY <1>1
<1>4. owner \in Actor
  <2>1. next \subseteq Runs
    BY <1>3
  <2> HIDE DEF next
  <2> QED
    BY <2>1, FlusherIsActor
<1>5. R \in SUBSET Runs
  BY <1>1, <1>2
<1>6. StagedAs(owner, R)
  <2>1. staged' = [staged EXCEPT ![owner] =
                     {[run |-> x, entry |-> EntryAfter(x)] : x \in R}]
    BY DEF RecordAndPop
  <2> HIDE DEF owner, R
  <2> QED
    BY <2>1 DEF StagedAs
<1> HIDE DEF owner, R
<1> QED
  BY <1>4, <1>5, <1>6

(* No action stages a meta.json write in another way.                      *)
LEMMA HowStatusIsStaged == Types /\ Next => StatusStaged
<1> SUFFICES ASSUME Types, Next PROVE StatusStaged
  OBVIOUS
<1>1. ASSUME NEW r \in Runs, NEW a \in Actor,
             staged' = [staged EXCEPT ![a] = {[run |-> r, entry |-> EntryAfter(r)]}]
      PROVE  StatusStaged
  <2>1. StagedAs(a, {r})
    BY <1>1 DEF StagedAs
  <2> QED
    BY <2>1 DEF StatusStaged
<1>2. ASSUME NEW r \in Runs, NEW a \in Actor, staged' = [staged EXCEPT ![a] = {}]
      PROVE  StatusStaged
  <2>1. StagedAs(a, {})
    BY <1>2 DEF StagedAs
  <2> QED
    BY <2>1 DEF StatusStaged
<1>4. ASSUME NEW r \in Runs, Request(r) PROVE StatusStaged
  <2>1. CASE SubmitDirect(r) \/ SubmitQueued(r)
    BY <2>1 DEF SubmitDirect, SubmitQueued, StatusStaged
  <2>2. CASE RemoveQueued(r)
    BY <1>1, <1>2, Actors, <2>2 DEF RemoveQueued
  <2>3. CASE Detach(r)
    BY <1>1, Actors, <2>3 DEF Detach
  <2> QED
    BY <1>4, <2>1, <2>2, <2>3 DEF Request
<1>5. ASSUME NEW r \in Runs, ClientStep(r) PROVE StatusStaged
  BY Actors, <1>5 DEF ClientStep, EnqueueFlush, EnqueueMeta, RemoveFlushStatus,
       RemoveEnds, DetachFlush, StatusStaged
<1>6. ASSUME NEW r \in Runs, DrainIfAvailable(r) \/ PromoteFails(r)
      PROVE  StatusStaged
  <2>1. PICK a \in Actor, F \in SUBSET Runs, failed \in BOOLEAN : \E src :
          /\ RecordAndPop(a, F, failed, src)
          /\ \A x \in src : x \in Repos /\ QueueAfter(RepoOf[a[2]], failed)[x] # <<>>
    BY <1>6, DrainSources
  <2> QED
    BY <2>1, RecordAndPopStages DEF StatusStaged
<1>7. ASSUME NEW r \in Runs, SpawnStep(r) PROVE StatusStaged
  <2>1. CASE Dispatch(r)
    BY <1>1, Actors, <2>1 DEF Dispatch
  <2>2. CASE DispatchFlush(r) \/ TaskFlushStatus(r)
    BY Actors, <2>2 DEF DispatchFlush, TaskFlushStatus, StatusStaged
  <2> QED
    BY <1>6, <1>7, <2>1, <2>2 DEF SpawnStep, Promote, SpawnSession, TaskFlushQueue,
         StatusStaged
<1>8. ASSUME NEW r \in Runs, EndStep(r) PROVE StatusStaged
  BY <1>6, <1>8 DEF EndStep, Complete, Reap, StopKill, StopMark, EndFlushQueue,
       StatusStaged
<1>9. ASSUME NEW r \in Runs, HeartbeatStep(r) PROVE StatusStaged
  <2>1. CASE HeartbeatStage(r)
    BY <1>1, Actors, <2>1 DEF HeartbeatStage
  <2>2. CASE HeartbeatFlush(r)
    BY Actors, <2>2 DEF HeartbeatFlush, StatusStaged
  <2> QED
    BY <1>9, <2>1, <2>2 DEF HeartbeatStep, HeartbeatComplete, Recover, memoryVars,
         StatusStaged
<1>10. CASE Reconcile
  BY <1>10 DEF Reconcile, Load, SessionsDone, StaleDone, Start, ReconcileSession,
       ResumeStale, FailStale, KeepPending, DropPending, FailDropped, memoryVars,
       StatusStaged
<1>11. CASE FlushBegins
  BY <1>11 DEF FlushBegins, memoryVars, StatusStaged
<1>12. CASE Crash
  BY <1>12 DEF Crash, StatusStaged
<1> QED
  BY <1>4, <1>5, <1>7, <1>8, <1>9, <1>10, <1>11, <1>12
     DEF Next, RunStep, SessionDies, memoryVars, StatusStaged

(* In memory: Dispatch and ResumeStale record the session with the status, *)
(* Load takes both from meta.json.                                         *)
LEMMA MemoryStaysWatchable == AllWatchable /\ Next => MemoryWatchable'
<1> SUFFICES ASSUME AllWatchable, Next PROVE MemoryWatchable'
  OBVIOUS
<1> USE DEF AllWatchable, MemoryWatchable, registryVars, StatusAfter
<1>1. ASSUME NEW r \in Runs, NEW to,
             StageStatus(r, to) \/ TryStageStatus(r, to),
             tmux \subseteq tmux', to = "Running" => r \in tmux'
      PROVE  MemoryWatchable'
  BY <1>1 DEF StageStatus, TryStageStatus
<1>2. ASSUME NEW r \in Runs, Request(r) PROVE MemoryWatchable'
  <2>1. CASE SubmitDirect(r)
    BY <2>1 DEF SubmitDirect, RegisterRun
  <2>2. CASE SubmitQueued(r)
    BY <2>2 DEF SubmitQueued, EnqueueRun
  <2>3. CASE RemoveQueued(r) \/ Detach(r)
    BY <1>1, <2>3 DEF RemoveQueued, Detach
  <2> QED
    BY <1>2, <2>1, <2>2, <2>3 DEF Request
<1>3. ASSUME NEW r \in Runs, ClientStep(r) PROVE MemoryWatchable'
  BY <1>3 DEF ClientStep, EnqueueFlush, EnqueueMeta, RemoveFlushStatus, RemoveEnds,
       DetachFlush
<1>4. ASSUME NEW r \in Runs, DrainIfAvailable(r) \/ PromoteFails(r)
      PROVE  MemoryWatchable'
  BY <1>4 DEF DrainIfAvailable, PromoteFails, RecordAndPop
<1>5. ASSUME NEW r \in Runs, SpawnStep(r) PROVE MemoryWatchable'
  <2>1. CASE Promote(r)
    BY <2>1 DEF Promote, PromoteQueued
  <2>2. CASE Dispatch(r)
    BY <1>1, <2>2 DEF Dispatch
  <2> QED
    BY <1>4, <1>5, <2>1, <2>2 DEF SpawnStep, SpawnSession, DispatchFlush,
         TaskFlushStatus, TaskFlushQueue
<1>6. ASSUME NEW r \in Runs, EndStep(r) PROVE MemoryWatchable'
  <2>1. CASE Complete(r) \/ StopMark(r)
    BY <1>1, <2>1 DEF Complete, StopMark
  <2> QED
    BY <1>4, <1>6, <2>1 DEF EndStep, Reap, StopKill, EndFlushQueue
<1>7. ASSUME NEW r \in Runs, HeartbeatStep(r) PROVE MemoryWatchable'
  <2>1. CASE HeartbeatStage(r) \/ HeartbeatComplete(r)
    BY <1>1, <2>1 DEF HeartbeatStage, HeartbeatComplete
  <2> QED
    BY <1>7, <2>1 DEF HeartbeatStep, HeartbeatFlush, Recover, memoryVars
<1>8. CASE Reconcile
  <2>1. CASE Load
    BY <2>1 DEF Load, DiskWatchable, Watchable
  <2>2. ASSUME NEW r \in Runs, ResumeStale(r) \/ FailStale(r) \/ FailDropped(r)
        PROVE  MemoryWatchable'
    BY <1>1, <2>2 DEF ResumeStale, FailStale, FailDropped
  <2> QED
    BY <1>8, <2>1, <2>2 DEF Reconcile, SessionsDone, StaleDone, Start,
         ReconcileSession, KeepPending, DropPending, memoryVars
<1>9. CASE FlushBegins
  BY <1>9 DEF FlushBegins, memoryVars
<1> QED
  BY <1>2, <1>3, <1>5, <1>6, <1>7, <1>8, <1>9 DEF Next, RunStep, SessionDies,
     memoryVars, Crash

(* Every step keeps every entry watchable, in memory, on disk and staged.  *)
LEMMA NextWatchable == Types /\ AllWatchable /\ [Next]_vars => AllWatchable'
<1> SUFFICES ASSUME Types, AllWatchable, Next PROVE AllWatchable'
  BY DEF AllWatchable, MemoryWatchable, DiskWatchable, StagedWatchable, vars,
       memoryVars, registryVars, metaVars
<1>1. MemoryWatchable'
  BY MemoryStaysWatchable
<1>2. ASSUME NEW r \in Runs PROVE Watchable(EntryAfter(r))
  BY <1>1 DEF MemoryWatchable, Watchable, EntryAfter
<1>3. DiskWatchable'
  <2>1. CASE UNCHANGED meta
    BY <2>1 DEF AllWatchable, DiskWatchable
  <2>2. ASSUME NEW r \in Runs, WriteMeta(r) PROVE DiskWatchable'
    BY <1>2, <2>2 DEF AllWatchable, DiskWatchable, WriteMeta, Types, MetaTypeOK
  <2>3. ASSUME NEW r \in Runs, WriteLate(r, SubmittedEntry) PROVE DiskWatchable'
    BY <2>3 DEF AllWatchable, DiskWatchable, Watchable, NoEntry, SubmittedEntry,
         WriteLate, Types, MetaTypeOK
  <2>4. ASSUME NEW a \in Actor, FlushStatus(a) PROVE DiskWatchable'
    BY <2>4 DEF FlushStatus, WriteLate, AllWatchable, DiskWatchable, StagedWatchable,
         Types, MetaTypeOK
  <2> QED
    BY <2>1, <2>2, <2>3, <2>4, HowMetaIsWritten DEF MetaWritten, metaVars
<1>4. StagedWatchable'
  <2>1. CASE UNCHANGED staged \/ staged' = [a \in Actor |-> {}]
    BY <2>1 DEF AllWatchable, StagedWatchable
  <2>2. ASSUME NEW a \in Actor, NEW R \in SUBSET Runs, StagedAs(a, R)
        PROVE  StagedWatchable'
    BY <1>2, <2>2 DEF StagedAs, AllWatchable, StagedWatchable, Types, Staged
  <2>3. ASSUME NEW a \in Actor, FlushStatus(a) PROVE StagedWatchable'
    BY <2>3 DEF FlushStatus, AllWatchable, StagedWatchable, Types, Staged
  <2> QED
    BY <2>1, <2>2, <2>3, HowStatusIsStaged DEF StatusStaged
<1> QED
  BY <1>1, <1>3, <1>4 DEF AllWatchable

(* In every life of the daemon a Running run has a session name, in memory *)
(* and on disk, so that the heartbeat watches it: "leaving the run         *)
(* permanently stuck" otherwise (reconciler.rs:206).                       *)
THEOREM RunningAlwaysWatchable == Spec => []RunningIsWatchable
<1>1. Init => AllWatchable
  BY DEF Init, InitMemory, InitRegistry, NoEntry, AllWatchable, MemoryWatchable,
       DiskWatchable, StagedWatchable, Watchable
<1>2. AllWatchable => RunningIsWatchable
  BY DEF AllWatchable, MemoryWatchable, DiskWatchable, Watchable, RunningIsWatchable
<1>3. Spec => []Types
  BY InitTypes, NextTypes, PTL DEF Spec
<1> QED
  BY <1>1, <1>2, <1>3, NextWatchable, PTL DEF Spec

----------------------------------------------------------------------------
(* Nobody is forgotten by a restart.  The reconciler's steps run before    *)
(* the server and its tasks do; between them the invariant says who is     *)
(* accounted for, and who is still on the reconciler's list.               *)

Accounted(r) == status[r] = "Running" \/ IsPending(r) \/ r \in boot.live

BootIsAlone ==
    ~Up => /\ \A r \in Runs : /\ task[r] = "none" /\ ender[r] = "none"
                              /\ submit[r] = "none" /\ client[r] = "none"
           /\ \A a \in Actor : staged[a] = {}

RestartInv ==
    /\ BootIsAlone
    /\ boot.pc = "stale"
          => \A r \in Runs : Active(r) => Accounted(r) \/ r \in boot.todo
    /\ boot.pc = "pending"
          => \A r \in Runs : Active(r) => Accounted(r) \/ r \in boot.drop
    /\ \A x, y \in boot.drop : x = y

(* While the daemon starts, no handler, task or tick takes a step.         *)
LEMMA OnlyBootSteps ==
  ASSUME BootIsAlone, ~Up, NEW r \in Runs
  PROVE  ~Request(r) /\ ~ClientStep(r) /\ ~RunStep(r)
<1>1. /\ task[r] = "none" /\ ender[r] = "none"
      /\ submit[r] = "none" /\ client[r] = "none"
      /\ staged[<<"heartbeat", r>>] = {}
  BY Actors DEF BootIsAlone
<1>2. ~Request(r)
  BY DEF Request, SubmitDirect, SubmitQueued, Fresh, RemoveQueued, Detach
<1>3. ~ClientStep(r)
  BY <1>1 DEF ClientStep, EnqueueFlush, EnqueueMeta, RemoveFlushStatus, RemoveEnds,
       DetachFlush
<1>4. ~SpawnStep(r)
  BY <1>1 DEF SpawnStep, Promote, PromoteFails, SpawnSession, Dispatch,
       DispatchFlush, TaskFlushStatus, TaskFlushQueue
<1>5. ~EndStep(r)
  BY <1>1 DEF EndStep, Complete, Reap, StopKill, StopMark, DrainIfAvailable,
       EndFlushQueue
<1>6. ~HeartbeatStep(r)
  BY <1>1 DEF HeartbeatStep, HeartbeatStage, HeartbeatFlush, FlushStatus,
       HeartbeatComplete, Recover
<1> QED
  BY <1>2, <1>3, <1>4, <1>5, <1>6 DEF RunStep

(* Handlers, tasks and the heartbeat leave the start-up alone.             *)
LEMMA BootUnchanged ==
  ASSUME NEW r \in Runs, Request(r) \/ ClientStep(r) \/ RunStep(r)
  PROVE  boot' = boot
<1>1. CASE Request(r)
  BY <1>1 DEF Request, SubmitDirect, SubmitQueued, RemoveQueued, Detach
<1>2. CASE ClientStep(r)
  BY <1>2 DEF ClientStep, EnqueueFlush, EnqueueMeta, RemoveFlushStatus, RemoveEnds,
       DetachFlush
<1>3. CASE SpawnStep(r)
  BY <1>3 DEF SpawnStep, Promote, PromoteFails, SpawnSession, Dispatch,
       DispatchFlush, RecordAndPop, TaskFlushStatus, TaskFlushQueue
<1>4. CASE EndStep(r)
  BY <1>4 DEF EndStep, Complete, Reap, StopKill, StopMark, DrainIfAvailable,
       RecordAndPop, EndFlushQueue
<1>5. CASE HeartbeatStep(r)
  BY <1>5 DEF HeartbeatStep, HeartbeatStage, HeartbeatFlush, HeartbeatComplete,
       Recover
<1> QED
  BY <1>1, <1>2, <1>3, <1>4, <1>5 DEF RunStep

(* remove_pending of one run leaves every other run where it waits.        *)
LEMMA RemoveKeepsOthers ==
  ASSUME RegistryTypeOK, NEW r \in Runs, RemovePending(r), NEW x \in Runs,
         x # r, IsPending(x)
  PROVE  IsPending(x)'
<1>1. PICK p \in Repos : \E i \in DOMAIN queue[p] :
         /\ queue[p][i] = r
         /\ queue' = [queue EXCEPT ![p] = RemoveAt(@, i)]
  BY DEF RemovePending
<1>2. PICK i \in DOMAIN queue[p] :
         /\ queue[p][i] = r
         /\ queue' = [queue EXCEPT ![p] = RemoveAt(@, i)]
  BY <1>1
<1>3. PICK y \in Repos : \E j \in DOMAIN queue[y] : queue[y][j] = x
  BY DEF IsPending, Pending, ToSet
<1>4. PICK j \in DOMAIN queue[y] : queue[y][j] = x
  BY <1>3
<1>5. \E k \in DOMAIN queue'[y] : queue'[y][k] = x
  <2>1. CASE y # p
    BY <1>2, <1>4, <2>1 DEF RegistryTypeOK
  <2>2. CASE y = p
    <3>1. queue[p] \in Seq(Runs) /\ queue'[y] = RemoveAt(queue[p], i)
      BY <1>2, <2>2 DEF RegistryTypeOK
    <3>2. j \in DOMAIN queue[p] /\ j # i /\ queue[p][j] = x
      BY <1>2, <1>4, <2>2
    <3> QED
      BY <3>1, <3>2, RemoveAtKeepsOthers
  <2> QED
    BY <2>1, <2>2
<1> QED
  BY <1>5 DEF IsPending, Pending, ToSet

(* Each step of the reconciler keeps everybody accounted for.              *)
LEMMA ReconcileAccounts ==
  ASSUME Types, RestartInv, Reconcile
  PROVE  RestartInv'
<1> USE DEF RestartInv, BootIsAlone, Up, Accounted, Active, memoryVars,
         registryVars, actorVars
<1>0. boot \in BootType /\ status \in [Runs -> RunStatus \union {"absent"}]
  BY DEF Types, OtherTypeOK, RegistryTypeOK
<1>1. CASE Load
  BY <1>1 DEF Load, Boot
<1>2. CASE SessionsDone
  <2>1. /\ boot' = [boot EXCEPT !.pc = "stale", !.todo = Stale]
        /\ boot.pc = "sessions"
        /\ UNCHANGED <<status, queue, actorVars, staged>>
    BY <1>2 DEF SessionsDone
  <2>2. /\ boot'.pc = "stale" /\ boot'.todo = Stale
        /\ boot'.drop = boot.drop /\ boot'.live = boot.live
    BY <1>0, <2>1 DEF BootType
  <2>3. \A r \in Runs : Active(r) => r \in boot.live \/ IsPending(r) \/ r \in Stale
    BY DEF Stale
  <2>4. \A r \in Runs : IsPending(r)' = IsPending(r)
    BY <2>1 DEF IsPending, Pending
  <2> QED
    BY <2>1, <2>2, <2>3, <2>4
<1>3. CASE StaleDone
  <2>1. /\ boot'.pc = "pending" /\ boot'.drop = boot.drop
        /\ boot'.live = boot.live /\ boot.pc = "stale" /\ boot.todo = {}
        /\ UNCHANGED <<status, queue, actorVars, staged>>
    BY <1>0, <1>3 DEF StaleDone, BootType
  <2>2. \A r \in Runs : IsPending(r)' = IsPending(r)
    BY <2>1 DEF IsPending, Pending
  <2> QED
    BY <2>1, <2>2
<1>4. CASE Start
  BY <1>4 DEF Start, Boot
<1>5. ASSUME NEW r \in Runs, ReconcileSession(r) \/ KeepPending(r)
      PROVE  RestartInv'
  <2>1. /\ boot'.pc = boot.pc /\ boot.pc \in {"sessions", "pending"}
        /\ boot'.drop = boot.drop /\ boot'.live = boot.live
        /\ UNCHANGED <<status, queue, actorVars, staged>>
    BY <1>0, <1>5 DEF ReconcileSession, KeepPending, BootType
  <2>2. \A x \in Runs : IsPending(x)' = IsPending(x)
    BY <2>1 DEF IsPending, Pending
  <2> QED
    BY <2>1, <2>2
<1>6. ASSUME NEW r \in Runs, ResumeStale(r) \/ FailStale(r)
      PROVE  RestartInv'
  <2>1. /\ boot'.pc = "stale" /\ boot.pc = "stale"
        /\ boot'.todo = boot.todo \ {r}
        /\ boot'.drop = boot.drop /\ boot'.live = boot.live
        /\ UNCHANGED <<queue, actorVars, staged>>
    BY <1>0, <1>6 DEF ResumeStale, FailStale, BootType
  <2>2. \A x \in Runs : IsPending(x)' = IsPending(x)
    BY <2>1 DEF IsPending, Pending
  <2>3. /\ status'[r] \in {"Running", "Failed"}
        /\ \A x \in Runs \ {r} : status'[x] = status[x]
    BY <1>6 DEF ResumeStale, FailStale, StageStatus, StatusAfter
  <2> QED
    BY <2>1, <2>2, <2>3
<1>7. ASSUME NEW r \in Runs, DropPending(r)
      PROVE  RestartInv'
  <2>1. /\ boot'.pc = "pending" /\ boot.pc = "pending"
        /\ boot.drop = {} /\ boot'.drop = {r} /\ boot'.live = boot.live
        /\ UNCHANGED <<status, actorVars, staged>>
    BY <1>0, <1>7 DEF DropPending, BootType
  <2>2. \A x \in Runs \ {r} : IsPending(x) => IsPending(x)'
    BY <1>7, RemoveKeepsOthers DEF DropPending, Types
  <2> QED
    BY <2>1, <2>2
<1>8. ASSUME NEW r \in Runs, FailDropped(r)
      PROVE  RestartInv'
  <2>1. /\ boot'.pc = boot.pc /\ boot'.todo = boot.todo
        /\ r \in boot.drop /\ boot'.drop = {} /\ boot'.live = boot.live
        /\ UNCHANGED <<queue, actorVars, staged>>
    BY <1>0, <1>8 DEF FailDropped, BootType
  <2>2. \A x \in Runs : IsPending(x)' = IsPending(x)
    BY <2>1 DEF IsPending, Pending
  <2>3. ~Active(r)' /\ \A x \in Runs \ {r} : status'[x] = status[x]
    BY <1>0, <1>8 DEF FailDropped, TryStageStatus, CanStage, StageStatus,
         StatusAfter, Terminal
  <2> QED
    BY <2>1, <2>2, <2>3
<1> QED
  BY <1>1, <1>2, <1>3, <1>4, <1>5, <1>6, <1>7, <1>8 DEF Reconcile

(* Every step keeps the account of the unfinished runs, a crash included.  *)
LEMMA NextAccounts == Types /\ RestartInv /\ [Next]_vars => RestartInv'
<1> SUFFICES ASSUME Types, RestartInv, [Next]_vars PROVE RestartInv'
  OBVIOUS
<1>1. ASSUME UNCHANGED <<status, queue, actorVars, staged, boot>>
      PROVE  RestartInv'
  BY <1>1 DEF RestartInv, BootIsAlone, Up, Accounted, Active, IsPending, Pending,
       actorVars
<1>2. CASE UNCHANGED vars
  BY <1>1, <1>2 DEF vars, memoryVars, registryVars
<1>3. ASSUME NEW r \in Runs, Request(r) \/ ClientStep(r) \/ RunStep(r)
      PROVE  RestartInv'
  <2>1. Up
    BY <1>3, OnlyBootSteps DEF RestartInv
  <2>2. boot' = boot
    BY <1>3, BootUnchanged
  <2> QED
    BY <2>1, <2>2 DEF RestartInv, BootIsAlone, Up
<1>4. ASSUME NEW r \in Runs, SessionDies(r) PROVE RestartInv'
  BY <1>1, <1>4 DEF SessionDies, memoryVars, registryVars
<1>5. CASE Crash
  BY <1>5 DEF Crash, Idle, Boot, RestartInv, BootIsAlone, Up
<1>6. CASE FlushBegins
  BY <1>1, <1>6 DEF FlushBegins, memoryVars, registryVars
<1> QED
  BY <1>2, <1>3, <1>4, <1>5, <1>6, ReconcileAccounts DEF Next

(* The server starts after the last step of the reconciler.                *)
LEMMA StartsAtStart == Types /\ Next /\ Starts => Start
<1> SUFFICES ASSUME Types, Next, Starts PROVE Start
  OBVIOUS
<1>1. Reconcile \/ Crash \/ boot' = boot
  BY BootUnchanged DEF Next, SessionDies, FlushBegins
<1>2. boot.pc # "up" /\ boot'.pc = "up" /\ boot \in BootType
  BY DEF Starts, Up, Types, OtherTypeOK
<1>3. ~Crash /\ ~Load
  BY <1>2 DEF Crash, Load, Boot
<1>4. ~SessionsDone /\ ~StaleDone
  BY <1>2 DEF SessionsDone, StaleDone, BootType
<1>5. ASSUME NEW x \in Runs
      PROVE  /\ ~ReconcileSession(x) /\ ~KeepPending(x) /\ ~DropPending(x)
             /\ ~ResumeStale(x) /\ ~FailStale(x) /\ ~FailDropped(x)
  BY <1>2 DEF ReconcileSession, KeepPending, DropPending, ResumeStale,
       FailStale, FailDropped, BootType
<1> QED
  BY <1>1, <1>2, <1>3, <1>4, <1>5 DEF Reconcile

(* When the server starts, every unfinished run is Running, waits in the   *)
(* queue, or had a live session when the reconciler looked, whatever       *)
(* meta.json and queue.json said when the daemon died, and however many    *)
(* times it died while starting (find_stale_runs).                         *)
THEOREM NobodyIsForgotten == Spec => NobodyForgotten
<1>1. Init => RestartInv
  BY DEF Init, Boot, RestartInv, BootIsAlone, Up
<1>2. Types /\ RestartInv /\ [Next]_vars
        => [Starts => \A r \in Runs :
              Active(r) => status[r] = "Running" \/ IsPending(r) \/ r \in boot.live]_vars
  <2> SUFFICES ASSUME Types, RestartInv, Next, Starts, NEW r \in Runs, Active(r)
               PROVE  status[r] = "Running" \/ IsPending(r) \/ r \in boot.live
    BY Zenon
  <2>1. Start
    BY StartsAtStart
  <2> QED
    BY <2>1 DEF Start, RestartInv, Accounted
<1>3. Spec => []Types
  BY InitTypes, NextTypes, PTL DEF Spec
<1> QED
  BY <1>1, <1>2, <1>3, NextAccounts, PTL DEF Spec, NobodyForgotten

----------------------------------------------------------------------------
(* What is in the queue, in the snapshots under way, in the file of the    *)
(* tracker and in queue.json.                                              *)

Sound(q) ==
    \A p \in Repos : Distinct(q[p]) /\ \A x \in ToSet(q[p]) : RepoOf[x] = p

SoundFiles == {f \in Wire : Sound(f.queues)}

(* The files in which r waits for its turn, and the others.                *)
Holding(r) == {f \in Wire : r \in ToSet(f.queues[RepoOf[r]])}

Without(r) == Wire \ Holding(r)

(* The file the tracker stands for, and all that may still follow it, is   *)
(* in Q; and so is queue.json, unless flushes race.                        *)
Everywhere(Q) ==
    /\ tracked \in Q /\ \A j \in DOMAIN snaps : snaps[j].file \in Q
    /\ raced \/ queueFile \in Q

(* ... from an actor's own snapshot on; once that snapshot is flushed or   *)
(* overtaken, the rename may be to come, by this actor or by another.      *)
Since(a, Q) ==
    IF Mine(a) = {}
    THEN /\ tracked \in Q /\ \A j \in DOMAIN snaps : snaps[j].file \in Q
         /\ raced \/ renames # {} \/ queueFile \in Q
    ELSE \A i \in Mine(a) : \A j \in DOMAIN snaps : i <= j => snaps[j].file \in Q

(* What `raced' excludes: queue.json is the file of the tracker, or is     *)
(* about to be.                                                            *)
RaceInv ==
    ~raced => \/ renames = {} /\ queueFile = tracked
              \/ \E m \in renames : renames = {m} /\ m.file = tracked

(* Every file is a sound one, whatever is renamed over what.               *)
SoundDisk ==
    /\ queueFile \in SoundFiles /\ tracked \in SoundFiles
    /\ \A m \in renames : m.file \in SoundFiles
    /\ \A j \in DOMAIN snaps : snaps[j].file \in SoundFiles

OneEach == \A i, j \in DOMAIN snaps : snaps[i].by = snaps[j].by => i = j

(* The actors that may have a snapshot under way.                          *)
Flushes(a) ==
    \/ a[1] = "task" /\ task[a[2]] \in {"popped", "flush"}
    \/ a[1] = "end" /\ ender[a[2]] = "flush"
    \/ a[1] = "submit" /\ submit[a[2]] = "enq_queue"
    \/ a[1] = "client" /\ client[a[2]] = "dequeue"

Carriers == OneEach /\ \A a \in Actor : Mine(a) # {} => Flushes(a)

(* A run that runs, or is about to.                                        *)
Going(r) ==
    \/ status[r] = "Running"
    \/ task[r] \in {"preflight", "registered", "waiting", "dispatched"}

(* meta.json says Running, or will when what is staged is written.         *)
SaysRunning(r) ==
    \/ meta[r].status = "Running"
    \/ \E a \in Actor : \E w \in staged[a] :
          w.run = r /\ w.entry.status = "Running"

(* ... so that it runs, or would after a restart.                          *)
HasRun(r) == Going(r) \/ SaysRunning(r)

RunnersAreOut ==
    /\ \A r \in Runs \ strays : HasRun(r) => ~IsPending(r) /\ Everywhere(Without(r))
    /\ \A r \in Runs : task[r] = "popped" => Since(<<"task", r>>, Without(r))

Saved(r) == IF submit[r] = "enq_queue" THEN Since(<<"submit", r>>, Holding(r))
            ELSE Everywhere(Holding(r))

PendingIsSaved ==
    \A r \in Runs : IsPending(r) => task[r] = "none" /\ Saved(r)

(* Nobody waits twice.  A run is in a queue, or has been popped, or runs,  *)
(* and this must be so in memory, in the file of the tracker and in every  *)
(* snapshot that may follow it.                                            *)
FilesInv ==
    /\ Sound(queue) /\ SoundDisk /\ RaceInv
    /\ Carriers /\ RunnersAreOut /\ PendingIsSaved

(* While the daemon starts, memory is what it read from the disk.          *)
BootInv ==
    /\ BootIsAlone
    /\ Up => boot.drop = {}
    /\ ~Up => snaps = <<>> /\ renames = {} /\ ~raced
    /\ boot.pc \in {"sessions", "stale", "pending"} => queueFile.queues = queue
    /\ boot.pc = "stale" => \A r \in boot.todo \ strays : ~IsPending(r)

(* The actors with meta.json writes under way.                             *)
Carries(a) ==
    \/ a[1] = "task" /\ task[a[2]] \in {"dispatched", "popped", "flush"}
    \/ a[1] = "end" /\ ender[a[2]] = "flush"
    \/ a[1] = "client" /\ client[a[2]] \in {"dequeue", "detach"}
    \/ a[1] = "heartbeat"

OneWrite(a) == \A v, w \in staged[a] : v = w

StagedInv ==
    /\ \A a \in Actor :
        /\ staged[a] # {} => Carries(a)
        /\ \A w \in staged[a] : w.entry.status # "absent" /\ status[w.run] # "absent"
    /\ \A r \in Runs :
        /\ task[r] = "dispatched" => OneWrite(<<"task", r>>)
        /\ client[r] = "detach" => OneWrite(<<"client", r>>)

(* stage_queue_locked adds one snapshot, the newest.                       *)
LEMMA StageEffect ==
  ASSUME snaps \in Seq(Snapshot), NEW b \in Actor, StageQueue(b),
         UNCHANGED <<tracked, renames, queueFile, raced>>, NEW Q, NEW a
  PROVE  LET f == QueueWire(queue', fails') IN
         /\ Everywhere(Q) /\ f \in Q => Everywhere(Q)'
         /\ Since(a, Q) /\ f \in Q => Since(a, Q)'
         /\ Mine(b) = {} /\ f \in Q => Since(b, Q)'
         /\ OneEach /\ Mine(b) = {} => OneEach'
         /\ a # b /\ Mine(a) = {} => Mine(a)' = {}
         /\ SoundDisk /\ f \in SoundFiles => SoundDisk'
         /\ RaceInv => RaceInv'
<1> DEFINE f == QueueWire(queue', fails')
           s == [by |-> b, file |-> f]
<1>1. /\ Len(snaps) \in Nat /\ DOMAIN snaps = 1..Len(snaps)
      /\ snaps' = Append(snaps, s)
  BY DEF StageQueue
<1>2. /\ DOMAIN snaps' = 1..(Len(snaps) + 1)
      /\ \A i \in DOMAIN snaps : snaps'[i] = snaps[i]
      /\ snaps'[Len(snaps) + 1] = s
  BY <1>1
<1>3. s.by = b /\ s.file = f
  OBVIOUS
<1> HIDE DEF f, s
<1>4. DOMAIN snaps' = DOMAIN snaps \union {Len(snaps) + 1}
      /\ \A i \in DOMAIN snaps : i <= Len(snaps) + 1 /\ i # Len(snaps) + 1
  BY <1>1, <1>2
<1>5. \A i \in DOMAIN snaps : i \in Nat /\ i < Len(snaps) + 1
  BY <1>1
<1>6. \A c : Mine(c)' = IF c = b THEN Mine(c) \union {Len(snaps) + 1} ELSE Mine(c)
  BY <1>2, <1>3, <1>4 DEF Mine
<1>7. ASSUME NEW R, \A j \in DOMAIN snaps : snaps[j].file \in R, f \in R
      PROVE  \A j \in DOMAIN snaps' : snaps'[j].file \in R
  BY <1>2, <1>3, <1>4, <1>7
<1>a. Everywhere(Q) /\ f \in Q => Everywhere(Q)'
  BY <1>7 DEF Everywhere
<1>b. ASSUME Since(a, Q), f \in Q PROVE Since(a, Q)'
  <2>1. CASE Mine(a) = {}
    <3>1. CASE a # b
      BY <1>6, <1>7, <1>b, <2>1, <3>1 DEF Since
    <3>2. CASE a = b
      <4>1. Mine(a)' = {Len(snaps) + 1}
        BY <1>6, <2>1, <3>2
      <4>2. \A j \in DOMAIN snaps' : Len(snaps) + 1 <= j => j = Len(snaps) + 1
        BY <1>1, <1>2
      <4> QED
        BY <1>2, <1>3, <1>b, <4>1, <4>2 DEF Since
    <3> QED
      BY <3>1, <3>2
  <2>2. CASE Mine(a) # {}
    <3>1. \A i \in Mine(a) : i \in DOMAIN snaps
      BY DEF Mine
    <3>2. Mine(a)' # {} /\ \A i \in Mine(a)' : i \in Mine(a) \/ i = Len(snaps) + 1
      BY <1>6, <2>2
    <3>3. ASSUME NEW i \in Mine(a)', NEW j \in DOMAIN snaps', i <= j
          PROVE  snaps'[j].file \in Q
      <4>1. CASE j = Len(snaps) + 1
        BY <1>2, <1>3, <1>b, <4>1
      <4>2. CASE j # Len(snaps) + 1
        <5>1. j \in DOMAIN snaps
          BY <1>4, <4>2
        <5>2. i \in Mine(a)
          BY <1>1, <1>5, <3>2, <3>3, <5>1
        <5> QED
          BY <1>2, <1>b, <2>2, <3>3, <5>1, <5>2 DEF Since
      <4> QED
        BY <4>1, <4>2
    <3> QED
      BY <3>2, <3>3 DEF Since
  <2> QED
    BY <2>1, <2>2
<1>c. ASSUME Mine(b) = {}, f \in Q PROVE Since(b, Q)'
  <2>1. Mine(b)' = {Len(snaps) + 1}
    BY <1>6, <1>c
  <2>2. \A j \in DOMAIN snaps' : Len(snaps) + 1 <= j => j = Len(snaps) + 1
    BY <1>1, <1>2
  <2> QED
    BY <1>2, <1>3, <1>c, <2>1, <2>2 DEF Since
<1>d. OneEach /\ Mine(b) = {} => OneEach'
  BY <1>2, <1>3, <1>4 DEF OneEach, Mine
<1>e. SoundDisk /\ f \in SoundFiles => SoundDisk'
  BY <1>7 DEF SoundDisk
<1>f. RaceInv => RaceInv'
  BY DEF RaceInv
<1> QED
  BY <1>a, <1>b, <1>c, <1>d, <1>e, <1>f, <1>6 DEF f

(* Past fetch_max, the actor's snapshot and every older one are gone.      *)
LEMMA AdvanceEffect ==
  ASSUME snaps \in Seq(Snapshot), NEW b, AdvanceQueue(b), NEW Q, NEW a
  PROVE  /\ Everywhere(Q) => Everywhere(Q)'
         /\ Since(a, Q) => Since(a, Q)'
         /\ OneEach => OneEach'
         /\ Mine(a) = {} => Mine(a)' = {}
         /\ SoundDisk => SoundDisk'
         /\ RaceInv => RaceInv'
<1>1. PICK k \in Mine(b) :
         /\ tracked' = snaps[k].file
         /\ renames' = renames \union {snaps[k]}
         /\ snaps' = SubSeq(snaps, k + 1, Len(snaps))
         /\ raced' = (raced \/ renames # {})
         /\ UNCHANGED queueFile
  BY DEF AdvanceQueue
<1>2. /\ Len(snaps) \in Nat /\ DOMAIN snaps = 1..Len(snaps)
      /\ k \in 1..Len(snaps) /\ snaps[k].by = b
  BY DEF Mine
<1>3. /\ DOMAIN snaps' = 1..(Len(snaps) - k)
      /\ \A j \in 1..(Len(snaps) - k) : snaps'[j] = snaps[k + j]
  BY <1>1, <1>2
<1>4. \A j \in DOMAIN snaps' : /\ j \in Nat /\ k + j \in DOMAIN snaps /\ k < k + j
                               /\ snaps'[j] = snaps[k + j]
  BY <1>2, <1>3
<1>5. \A i \in DOMAIN snaps : i > k => i - k \in DOMAIN snaps' /\ k + (i - k) = i
  BY <1>2, <1>3
<1>6. k \in DOMAIN snaps /\ k \in Nat
  BY <1>2
<1>7. renames' # {} /\ snaps[k] \in renames'
  BY <1>1
<1>a. Everywhere(Q) => Everywhere(Q)'
  BY <1>1, <1>4, <1>6 DEF Everywhere
<1>b. ASSUME Since(a, Q) PROVE Since(a, Q)'
  <2>1. CASE Mine(a) = {}
    <3>1. Mine(a)' = {}
      BY <1>4, <2>1 DEF Mine
    <3> QED
      BY <1>1, <1>4, <1>6, <1>7, <1>b, <2>1, <3>1 DEF Since
  <2>2. CASE Mine(a) # {}
    <3>1. ASSUME NEW i \in Mine(a), i <= k PROVE Since(a, Q)'
      <4>1. i \in Nat /\ \A j \in DOMAIN snaps : j \in Nat /\ (k <= j => i <= j)
        BY <1>2, <3>1 DEF Mine
      <4>2. \A j \in DOMAIN snaps : k <= j => snaps[j].file \in Q
        BY <1>b, <2>2, <3>1, <4>1 DEF Since
      <4>3. tracked' \in Q /\ \A j \in DOMAIN snaps' : snaps'[j].file \in Q
        BY <1>1, <1>4, <1>6, <4>2
      <4> QED
        BY <1>7, <4>3 DEF Since
    <3>2. ASSUME \A i \in Mine(a) : i > k PROVE Since(a, Q)'
      <4>1. Mine(a)' # {}
        BY <1>4, <1>5, <2>2, <3>2 DEF Mine
      <4>2. ASSUME NEW i \in Mine(a)', NEW j \in DOMAIN snaps', i <= j
            PROVE  snaps'[j].file \in Q
        <5>1. k + i \in Mine(a) /\ k + i <= k + j
          BY <1>4, <1>6, <4>2 DEF Mine
        <5> QED
          BY <1>4, <1>b, <2>2, <5>1 DEF Since
      <4> QED
        BY <4>1, <4>2 DEF Since
    <3>3. \A i \in Mine(a) : i \in Nat
      BY <1>2 DEF Mine
    <3> QED
      BY <1>6, <3>1, <3>2, <3>3
  <2> QED
    BY <2>1, <2>2
<1>c. ASSUME OneEach PROVE OneEach'
  <2> SUFFICES ASSUME NEW i \in DOMAIN snaps', NEW j \in DOMAIN snaps',
                      snaps'[i].by = snaps'[j].by
               PROVE  i = j
    BY DEF OneEach
  <2>1. k + i = k + j
    BY <1>4, <1>c DEF OneEach
  <2> QED
    BY <1>4, <1>6, <2>1
<1>d. Mine(a) = {} => Mine(a)' = {}
  BY <1>4 DEF Mine
<1>e. SoundDisk => SoundDisk'
  BY <1>1, <1>4, <1>6 DEF SoundDisk
<1>f. RaceInv => RaceInv'
  BY <1>1 DEF RaceInv
<1> QED
  BY <1>a, <1>b, <1>c, <1>d, <1>e, <1>f

(* A flush that returns has its file, or a later one, in place; or it      *)
(* raced.                                                                  *)
LEMMA ReturnEffect ==
  ASSUME RaceInv, NEW b, ReturnFromFlush(b), NEW Q, NEW a
  PROVE  /\ Everywhere(Q) => Everywhere(Q)'
         /\ Since(a, Q) => Since(a, Q)'
         /\ Since(b, Q) => Everywhere(Q)'
         /\ OneEach => OneEach'
         /\ Mine(b) = {} /\ Mine(a)' = Mine(a)
         /\ SoundDisk => SoundDisk'
         /\ RaceInv'
<1>0. Mine(b) = {} /\ UNCHANGED <<snaps, tracked>> /\ Mine(a)' = Mine(a)
  BY DEF ReturnFromFlush, Mine
<1>1. CASE \E m \in renames :
             /\ queueFile' = m.file
             /\ renames' = renames \ {m}
             /\ raced' = (raced /\ ~(renames' = {} /\ queueFile' = tracked))
  <2>1. PICK m \in renames :
             /\ queueFile' = m.file
             /\ renames' = renames \ {m}
             /\ raced' = (raced /\ ~(renames' = {} /\ queueFile' = tracked))
    BY <1>1
  <2>2. raced' \/ queueFile' = tracked
    BY <2>1 DEF RaceInv
  <2>3. Everywhere(Q) => Everywhere(Q)'
    BY <1>0, <2>2 DEF Everywhere
  <2>4. Since(a, Q) => Since(a, Q)'
    BY <1>0, <2>2 DEF Since
  <2>5. Since(b, Q) => Everywhere(Q)'
    BY <1>0, <2>2 DEF Since, Everywhere
  <2>6. SoundDisk => SoundDisk'
    BY <1>0, <2>1 DEF SoundDisk
  <2>7. RaceInv'
    BY <1>0, <2>1 DEF RaceInv
  <2> QED
    BY <1>0, <2>3, <2>4, <2>5, <2>6, <2>7 DEF OneEach
<1>2. CASE raced' = (raced \/ renames # {}) /\ UNCHANGED <<renames, queueFile>>
  <2>1. Everywhere(Q) => Everywhere(Q)'
    BY <1>0, <1>2 DEF Everywhere
  <2>2. Since(a, Q) => Since(a, Q)'
    BY <1>0, <1>2 DEF Since
  <2>3. Since(b, Q) => Everywhere(Q)'
    BY <1>0, <1>2 DEF Since, Everywhere
  <2>4. (SoundDisk => SoundDisk') /\ RaceInv'
    BY <1>0, <1>2 DEF SoundDisk, RaceInv
  <2> QED
    BY <1>0, <2>1, <2>2, <2>3, <2>4 DEF OneEach
<1> QED
  BY <1>1, <1>2 DEF ReturnFromFlush

(* An actor is a kind and a run.                                           *)
LEMMA ActorPairs ==
  ASSUME NEW a \in Actor
  PROVE  a = <<a[1], a[2]>> /\ a[2] \in Runs
BY DEF Actor

(* An actor whose program counter stays where it is goes on flushing.      *)
LEMMA FlushersStay ==
  ASSUME \A x \in Runs :
            /\ task[x] \in {"popped", "flush"} => task'[x] \in {"popped", "flush"}
            /\ ender[x] = "flush" => ender'[x] = "flush"
            /\ submit[x] = "enq_queue" => submit'[x] = "enq_queue"
            /\ client[x] = "dequeue" => client'[x] = "dequeue"
  PROVE  \A a \in Actor : Flushes(a) => Flushes(a)'
BY ActorPairs DEF Flushes

(* No write says Running of a run that is not, except one staged before.   *)
LEMMA SaysAsMemory ==
  ASSUME Types, Next, NEW x \in Runs, SaysRunning(x)'
  PROVE  SaysRunning(x) \/ status'[x] = "Running"
<1>1. CASE meta'[x].status = "Running"
  <2>1. CASE UNCHANGED meta
    BY <1>1, <2>1 DEF SaysRunning
  <2>2. ASSUME NEW r \in Runs, WriteMeta(r) PROVE meta[x].status = "Running" \/ status'[x] = "Running"
    BY <1>1, <2>2 DEF WriteMeta, EntryAfter, Types, MetaTypeOK
  <2>3. ASSUME NEW r \in Runs, WriteLate(r, SubmittedEntry) PROVE meta[x].status = "Running"
    BY <1>1, <2>3 DEF WriteLate, SubmittedEntry, NoEntry, Types, MetaTypeOK
  <2>4. ASSUME NEW a \in Actor, FlushStatus(a) PROVE SaysRunning(x)
    <3>1. PICK w \in staged[a] : WriteLate(w.run, w.entry)
      BY <2>4 DEF FlushStatus
    <3>2. CASE x = w.run
      BY <1>1, <3>1, <3>2 DEF WriteLate, SaysRunning, Types, MetaTypeOK
    <3>3. CASE x # w.run
      BY <1>1, <3>1, <3>3 DEF WriteLate, SaysRunning, Types, MetaTypeOK
    <3> QED
      BY <3>2, <3>3
  <2> QED
    BY <2>1, <2>2, <2>3, <2>4, HowMetaIsWritten DEF MetaWritten, metaVars, SaysRunning
<1>2. ASSUME NEW a \in Actor, NEW w \in staged'[a], w.run = x, w.entry.status = "Running"
      PROVE  SaysRunning(x) \/ status'[x] = "Running"
  <2>1. CASE UNCHANGED staged
    BY <1>2, <2>1 DEF SaysRunning
  <2>2. CASE staged' = [b \in Actor |-> {}]
    BY <1>2, <2>2
  <2>3. ASSUME NEW b \in Actor, NEW R \in SUBSET Runs, StagedAs(b, R)
        PROVE  SaysRunning(x) \/ status'[x] = "Running"
    <3>1. CASE a = b
      <4>1. PICK r \in R : w = [run |-> r, entry |-> EntryAfter(r)]
        BY <1>2, <2>3, <3>1 DEF StagedAs, Types, Staged
      <4> QED
        BY <1>2, <4>1 DEF EntryAfter
    <3>2. CASE a # b
      BY <1>2, <2>3, <3>2 DEF StagedAs, Types, Staged, SaysRunning
    <3> QED
      BY <3>1, <3>2
  <2>4. ASSUME NEW b \in Actor, FlushStatus(b) PROVE SaysRunning(x)
    BY <1>2, <2>4 DEF FlushStatus, Types, Staged, SaysRunning
  <2> QED
    BY <2>1, <2>2, <2>3, <2>4, HowStatusIsStaged DEF StatusStaged
<1> QED
  BY <1>1, <1>2 DEF SaysRunning

(* ... so that nobody has a run who does not go.                           *)
LEMMA HasRunGrows ==
  ASSUME Types, Next, NEW x \in Runs, HasRun(x)'
  PROVE  HasRun(x) \/ Going(x)'
BY SaysAsMemory DEF HasRun, Going

(* A well formed queue as a file.                                          *)
LEMMA WireFacts ==
  ASSUME NEW q \in [Repos -> Seq(Runs)], Sound(q),
         NEW f \in [Repos -> 0..(MaxConsecutiveFailures - 1)]
  PROVE  /\ QueueWire(q, f) \in SoundFiles
         /\ \A r \in Runs : QueueWire(q, f) \in Holding(r) <=> \E p \in Repos : r \in ToSet(q[p])
         /\ \A r \in Runs : QueueWire(q, f) \in Without(r) <=> ~\E p \in Repos : r \in ToSet(q[p])
<1>1. QueueWire(q, f) \in Wire /\ QueueWire(q, f).queues = q
  BY DEF QueueWire, Wire
<1>2. \A r \in Runs : RepoOf[r] \in Repos
  BY RepoOfAssumption
<1> QED
  BY <1>1, <1>2 DEF SoundFiles, Holding, Without, Sound

(* A step that touches neither queue nor file.                             *)
LEMMA KeepsFiles ==
  ASSUME Types, Next, FilesInv, UNCHANGED <<queue, queueVars, strays>>,
         \A x \in Runs :
            /\ Going(x)' => \/ HasRun(x) \/ x \in strays
                            \/ ~IsPending(x) /\ Everywhere(Without(x))
            /\ task'[x] = "popped" => task[x] = "popped"
            /\ submit'[x] = "enq_queue" <=> submit[x] = "enq_queue"
            /\ IsPending(x) => task'[x] = "none",
         \A a \in Actor : Flushes(a) => Flushes(a)'
  PROVE  FilesInv'
<1>0. UNCHANGED <<snaps, tracked, renames, queueFile, raced>>
  BY DEF queueVars
<1>1. \A Q : Everywhere(Q)' = Everywhere(Q)
  BY <1>0 DEF Everywhere
<1>2. \A a : Mine(a)' = Mine(a)
  BY <1>0 DEF Mine
<1>3. \A a, Q : Since(a, Q)' = Since(a, Q)
  BY <1>0, <1>2 DEF Since
<1>4. \A x \in Runs : IsPending(x)' = IsPending(x)
  BY DEF IsPending, Pending
<1>5. Sound(queue)' /\ SoundDisk' /\ RaceInv'
  BY <1>0 DEF FilesInv, Sound, SoundDisk, RaceInv
<1>6. Carriers'
  BY <1>0, <1>2 DEF FilesInv, Carriers, OneEach
<1>7. RunnersAreOut'
  <2>1. ASSUME NEW x \in Runs \ strays, HasRun(x)'
        PROVE  ~IsPending(x)' /\ Everywhere(Without(x))'
    BY <1>1, <1>4, <2>1, HasRunGrows DEF FilesInv, RunnersAreOut
  <2> QED
    BY <1>3, <2>1 DEF FilesInv, RunnersAreOut
<1>8. PendingIsSaved'
  BY <1>1, <1>3, <1>4 DEF FilesInv, PendingIsSaved, Saved
<1> QED
  BY <1>5, <1>6, <1>7, <1>8 DEF FilesInv

(* A step that stages a snapshot of the queue it leaves.                   *)
LEMMA StageKeepsFiles ==
  ASSUME Types, Types', Next, FilesInv, NEW b \in Actor, StageQueue(b),
         UNCHANGED <<tracked, renames, queueFile, raced, strays>>,
         Sound(queue'), Mine(b) = {}, Flushes(b)',
         \A x \in Runs :
            /\ Going(x)' => HasRun(x) \/ x \in strays
            /\ x \notin strays /\ HasRun(x) => ~IsPending(x)'
            /\ task'[x] = "popped" =>
                  ~IsPending(x)' /\ (task[x] = "popped" \/ b = <<"task", x>>)
            /\ IsPending(x)' =>
                  /\ task'[x] = "none"
                  /\ \/ IsPending(x) /\ (submit'[x] = "enq_queue" <=> submit[x] = "enq_queue")
                     \/ b = <<"submit", x>> /\ submit'[x] = "enq_queue",
         \A a \in Actor : Flushes(a) => Flushes(a)'
  PROVE  FilesInv'
<1> DEFINE f == QueueWire(queue', fails')
<1>0. snaps \in Seq(Snapshot)
  BY DEF Types, QueueTypeOK
<1>1. /\ f \in SoundFiles
      /\ \A x \in Runs : /\ f \in Holding(x) <=> IsPending(x)'
                         /\ f \in Without(x) <=> ~IsPending(x)'
  <2>1. queue' \in [Repos -> Seq(Runs)] /\ fails' \in [Repos -> 0..(MaxConsecutiveFailures - 1)]
    BY DEF Types, RegistryTypeOK
  <2>2. \A x \in Runs : IsPending(x)' = \E p \in Repos : x \in ToSet(queue'[p])
    BY DEF IsPending, Pending
  <2> QED
    BY <2>1, <2>2, WireFacts
<1>2. \A Q, a : /\ Everywhere(Q) /\ f \in Q => Everywhere(Q)'
                /\ Since(a, Q) /\ f \in Q => Since(a, Q)'
                /\ f \in Q => Since(b, Q)'
                /\ OneEach => OneEach'
                /\ a # b /\ Mine(a) = {} => Mine(a)' = {}
                /\ SoundDisk /\ f \in SoundFiles => SoundDisk'
                /\ RaceInv => RaceInv'
  <2> SUFFICES ASSUME NEW Q, NEW a
               PROVE  /\ Everywhere(Q) /\ f \in Q => Everywhere(Q)'
                      /\ Since(a, Q) /\ f \in Q => Since(a, Q)'
                      /\ f \in Q => Since(b, Q)'
                      /\ OneEach => OneEach'
                      /\ a # b /\ Mine(a) = {} => Mine(a)' = {}
                      /\ SoundDisk /\ f \in SoundFiles => SoundDisk'
                      /\ RaceInv => RaceInv'
    OBVIOUS
  <2> QED
    BY <1>0, StageEffect
<1> HIDE DEF f
<1>3. Sound(queue)' /\ SoundDisk' /\ RaceInv'
  BY <1>1, <1>2 DEF FilesInv, Sound
<1>4. Carriers'
  BY <1>2 DEF FilesInv, Carriers
<1>5. RunnersAreOut'
  <2>1. ASSUME NEW r \in Runs \ strays, HasRun(r)'
        PROVE  ~IsPending(r)' /\ Everywhere(Without(r))'
    <3>1. HasRun(r)
      BY <2>1, HasRunGrows
    <3> QED
      BY <1>1, <1>2, <3>1 DEF FilesInv, RunnersAreOut
  <2>2. ASSUME NEW r \in Runs, task'[r] = "popped" PROVE Since(<<"task", r>>, Without(r))'
    BY <1>1, <1>2, <2>2 DEF FilesInv, RunnersAreOut
  <2> QED
    BY <2>1, <2>2 DEF RunnersAreOut
<1>6. PendingIsSaved'
  <2> SUFFICES ASSUME NEW r \in Runs, IsPending(r)' PROVE Saved(r)'
    BY DEF PendingIsSaved
  <2>1. f \in Holding(r)
    BY <1>1
  <2>2. CASE IsPending(r) /\ (submit'[r] = "enq_queue" <=> submit[r] = "enq_queue")
    BY <1>2, <2>1, <2>2 DEF FilesInv, PendingIsSaved, Saved
  <2>3. CASE b = <<"submit", r>> /\ submit'[r] = "enq_queue"
    BY <1>2, <2>1, <2>3 DEF Saved
  <2> QED
    BY <2>2, <2>3
<1> QED
  BY <1>3, <1>4, <1>5, <1>6 DEF FilesInv

(* A flush passes fetch_max.                                               *)
LEMMA FlushBeginsKeepsFiles ==
  ASSUME Types, Next, FilesInv, FlushBegins
  PROVE  FilesInv'
<1>0. /\ snaps \in Seq(Snapshot)
      /\ UNCHANGED <<status, task, ender, submit, client, queue, strays>>
  BY DEF Types, QueueTypeOK, FlushBegins, memoryVars, registryVars, actorVars
<1>1. PICK b \in Actor : AdvanceQueue(b)
  BY DEF FlushBegins
<1>2. \A Q, a : /\ Everywhere(Q) => Everywhere(Q)'
                /\ Since(a, Q) => Since(a, Q)'
                /\ OneEach => OneEach'
                /\ Mine(a) = {} => Mine(a)' = {}
                /\ SoundDisk => SoundDisk'
                /\ RaceInv => RaceInv'
  BY <1>0, <1>1, AdvanceEffect
<1>3. \A x \in Runs : IsPending(x)' = IsPending(x) /\ Going(x)' = Going(x)
  BY <1>0 DEF IsPending, Pending, Going
<1>4. \A a \in Actor : Flushes(a)' = Flushes(a)
  BY <1>0 DEF Flushes
<1>5. Sound(queue)' /\ SoundDisk' /\ RaceInv'
  BY <1>0, <1>2 DEF FilesInv, Sound
<1>6. Carriers'
  BY <1>2, <1>4 DEF FilesInv, Carriers
<1>7. RunnersAreOut'
  <2>1. ASSUME NEW x \in Runs \ strays, HasRun(x)'
        PROVE  ~IsPending(x)' /\ Everywhere(Without(x))'
    <3>1. HasRun(x)
      BY <1>3, <2>1, HasRunGrows DEF HasRun
    <3> QED
      BY <1>2, <1>3, <3>1 DEF FilesInv, RunnersAreOut
  <2> QED
    BY <1>0, <1>2, <2>1 DEF FilesInv, RunnersAreOut
<1>8. PendingIsSaved'
  BY <1>0, <1>2, <1>3 DEF FilesInv, PendingIsSaved, Saved
<1> QED
  BY <1>5, <1>6, <1>7, <1>8 DEF FilesInv

(* A flush of queue.json returns.                                          *)
LEMMA ReturnKeepsFiles ==
  ASSUME Types, Next, FilesInv, NEW b \in Actor, ReturnFromFlush(b),
         UNCHANGED <<queue, strays>>,
         \A x \in Runs :
            /\ Going(x)' => HasRun(x) \/ (task[x] = "popped" /\ b = <<"task", x>>)
            /\ task'[x] = "popped" => task[x] = "popped"
            /\ \/ submit'[x] = "enq_queue" <=> submit[x] = "enq_queue"
               \/ submit[x] = "enq_queue" /\ submit'[x] # "enq_queue" /\ b = <<"submit", x>>
            /\ IsPending(x) => task'[x] = "none",
         \A a \in Actor : Flushes(a) => Flushes(a)' \/ a = b
  PROVE  FilesInv'
<1>0. RaceInv
  BY DEF FilesInv
<1>1. \A Q, a : /\ Everywhere(Q) => Everywhere(Q)'
                /\ Since(a, Q) => Since(a, Q)'
                /\ Since(b, Q) => Everywhere(Q)'
                /\ OneEach => OneEach'
                /\ Mine(b) = {} /\ Mine(a)' = Mine(a)
                /\ SoundDisk => SoundDisk'
                /\ RaceInv'
  BY <1>0, ReturnEffect
<1>2. \A x \in Runs : IsPending(x)' = IsPending(x)
  BY DEF IsPending, Pending
<1>3. Sound(queue)' /\ SoundDisk' /\ RaceInv'
  BY <1>1 DEF FilesInv, Sound
<1>4. Carriers'
  BY <1>1 DEF FilesInv, Carriers
<1>5. RunnersAreOut'
  <2>1. ASSUME NEW r \in Runs \ strays, HasRun(r)'
        PROVE  ~IsPending(r)' /\ Everywhere(Without(r))'
    <3>1. CASE HasRun(r)
      BY <1>1, <1>2, <3>1 DEF FilesInv, RunnersAreOut
    <3>2. CASE task[r] = "popped" /\ b = <<"task", r>>
      BY <1>1, <1>2, <3>2 DEF FilesInv, RunnersAreOut, PendingIsSaved
    <3> QED
      BY <2>1, <3>1, <3>2, HasRunGrows
  <2>2. ASSUME NEW r \in Runs, task'[r] = "popped" PROVE Since(<<"task", r>>, Without(r))'
    BY <1>1, <2>2 DEF FilesInv, RunnersAreOut
  <2> QED
    BY <2>1, <2>2 DEF RunnersAreOut
<1>6. PendingIsSaved'
  <2> SUFFICES ASSUME NEW r \in Runs, IsPending(r)' PROVE Saved(r)'
    BY <1>2 DEF PendingIsSaved
  <2>1. Saved(r)
    BY <1>2 DEF FilesInv, PendingIsSaved
  <2> QED
    BY <1>1, <2>1 DEF Saved
<1> QED
  BY <1>3, <1>4, <1>5, <1>6 DEF FilesInv


(* A new run is in no file, and nothing says that it runs.                 *)
LEMMA FreshIsOut ==
  ASSUME Types, StagedInv, NEW r \in Runs, Fresh(r)
  PROVE  ~HasRun(r) /\ ~IsPending(r) /\ r \notin strays /\ Everywhere(Without(r))
<1>1. ~Going(r) /\ ~SaysRunning(r)
  BY DEF Fresh, Going, SaysRunning, NoEntry, StagedInv
<1>2. \A f \in Files : f \notin Holding(r)
  BY DEF Fresh, Holding, ToSet, Range
<1>3. tracked \in Files /\ queueFile \in Files /\ \A j \in DOMAIN snaps : snaps[j].file \in Files
  BY DEF Files
<1>4. tracked \in Wire /\ queueFile \in Wire /\ \A j \in DOMAIN snaps : snaps[j].file \in Wire
  <2>1. \A j \in DOMAIN snaps : snaps[j] \in Snapshot
    BY DEF Types, QueueTypeOK
  <2> QED
    BY <2>1 DEF Types, QueueTypeOK, Snapshot
<1> QED
  BY <1>1, <1>2, <1>3, <1>4 DEF Fresh, HasRun, Everywhere, Without

(* The steps that leave the queue and its files alone.                     *)
LEMMA QuietKeepsFiles ==
  ASSUME Types, Next, FilesInv, StagedInv, NEW r \in Runs,
         \/ SubmitDirect(r) \/ Detach(r) \/ EnqueueMeta(r) \/ RemoveFlushStatus(r)
         \/ DetachFlush(r) \/ Promote(r) \/ SpawnSession(r) \/ Dispatch(r)
         \/ DispatchFlush(r) \/ TaskFlushStatus(r) \/ Complete(r) \/ Reap(r)
         \/ StopKill(r) \/ StopMark(r) \/ HeartbeatStep(r)
         \/ SessionDies(r)
  PROVE  FilesInv'
<1>0. /\ DOMAIN task = Runs /\ DOMAIN ender = Runs /\ DOMAIN submit = Runs
      /\ DOMAIN client = Runs
      /\ \A x \in Runs : IsPending(x) => task[x] = "none"
  BY DEF Types, ActorTypeOK, FilesInv, PendingIsSaved
<1>1. ASSUME UNCHANGED <<queue, queueVars, strays, actorVars>>,
             \A x \in Runs : status'[x] = "Running" => status[x] = "Running"
      PROVE  FilesInv'
  <2>1. UNCHANGED <<task, ender, submit, client>>
    BY <1>1 DEF actorVars
  <2>2. \A a \in Actor : Flushes(a) => Flushes(a)'
    BY <2>1, FlushersStay
  <2> QED
    BY <1>0, <1>1, <2>1, <2>2, KeepsFiles DEF Going, HasRun
<1>2. ASSUME UNCHANGED <<queue, queueVars, strays>>, NEW pc, SetTask(r, pc),
             pc \notin {"popped", "flush"},
             task[r] \in {"preflight", "registered", "waiting", "dispatched"},
             \A x \in Runs \ {r} : status'[x] = "Running" => status[x] = "Running"
      PROVE  FilesInv'
  <2>1. /\ \A x \in Runs : task'[x] = IF x = r THEN pc ELSE task[x]
        /\ UNCHANGED <<ender, submit, client>>
    BY <1>0, <1>2 DEF SetTask
  <2>2. \A a \in Actor : Flushes(a) => Flushes(a)'
    BY <1>2, <2>1, FlushersStay
  <2> QED
    BY <1>0, <1>2, <2>1, <2>2, KeepsFiles DEF Going, HasRun
<1>3. ASSUME UNCHANGED <<queue, queueVars, strays, task>>, NEW pc,
             \/ SetEnder(r, pc) /\ ender[r] # "flush"
             \/ SetSubmit(r, pc) /\ submit[r] # "enq_queue" /\ pc # "enq_queue"
             \/ SetClient(r, pc) /\ client[r] # "dequeue",
             \A x \in Runs : status'[x] = "Running" => status[x] = "Running"
      PROVE  FilesInv'
  <2>1. /\ \A x \in Runs : /\ ender[x] = "flush" => ender'[x] = "flush"
                           /\ submit'[x] = "enq_queue" <=> submit[x] = "enq_queue"
                           /\ client[x] = "dequeue" => client'[x] = "dequeue"
    BY <1>0, <1>3 DEF SetEnder, SetSubmit, SetClient
  <2>2. \A a \in Actor : Flushes(a) => Flushes(a)'
    BY <1>3, <2>1, FlushersStay
  <2> QED
    BY <1>0, <1>3, <2>1, <2>2, KeepsFiles DEF Going, HasRun
<1>4. CASE SubmitDirect(r)
  <2>1. /\ Fresh(r) /\ UNCHANGED <<queue, queueVars, strays, ender, submit, client>>
        /\ status' = StatusAfter({r}, "Queued")
        /\ task' = [task EXCEPT ![r] = "registered"]
    BY <1>4 DEF SubmitDirect, SetTask, RegisterRun
  <2>2. task[r] = "none" /\ ~IsPending(r) /\ Everywhere(Without(r))
    BY <2>1, FreshIsOut DEF Fresh
  <2>3. \A x \in Runs : /\ task'[x] = IF x = r THEN "registered" ELSE task[x]
                        /\ status'[x] = "Running" => status[x] = "Running"
    BY <1>0, <2>1 DEF StatusAfter
  <2>4. \A a \in Actor : Flushes(a) => Flushes(a)'
    BY <2>1, <2>2, <2>3, FlushersStay
  <2> QED
    BY <1>0, <2>1, <2>2, <2>3, <2>4, KeepsFiles DEF Going, HasRun
<1>5. CASE Detach(r) \/ Complete(r) \/ StopMark(r) \/ HeartbeatStage(r) \/ HeartbeatComplete(r)
  <2>1. /\ UNCHANGED <<queue, queueVars, strays>>
        /\ \E to \in {"Stopped", "Succeeded", "Running"} :
              status' = StatusAfter({r}, to) /\ (to = "Running" => status[r] = "Running")
    BY <1>5 DEF Detach, Complete, StopMark, HeartbeatStage, HeartbeatComplete, StageStatus
  <2>2. \A x \in Runs : status'[x] = "Running" => status[x] = "Running"
    BY <2>1 DEF StatusAfter
  <2>3. CASE HeartbeatStage(r) \/ HeartbeatComplete(r)
    BY <1>1, <2>1, <2>2, <2>3 DEF HeartbeatStage, HeartbeatComplete
  <2>4. CASE Complete(r) \/ StopMark(r)
    BY <1>3, <2>1, <2>2, <2>4 DEF Complete, StopMark, SetEnder
  <2>5. CASE Detach(r)
    BY <1>3, <2>1, <2>2, <2>5 DEF Detach, SetClient
  <2> QED
    BY <1>5, <2>3, <2>4, <2>5
<1>6. CASE EnqueueMeta(r) \/ DetachFlush(r) \/ Reap(r) \/ StopKill(r)
  <2>1. UNCHANGED <<queue, queueVars, strays, status, task>>
    BY <1>6 DEF EnqueueMeta, DetachFlush, Reap, StopKill, registryVars, SetSubmit,
         SetClient, SetEnder
  <2>2. CASE EnqueueMeta(r)
    BY <1>3, <2>1, <2>2 DEF EnqueueMeta
  <2>3. CASE DetachFlush(r)
    BY <1>3, <2>1, <2>3 DEF DetachFlush
  <2>4. CASE Reap(r) \/ StopKill(r)
    BY <1>3, <2>1, <2>4 DEF Reap, StopKill
  <2> QED
    BY <1>6, <2>2, <2>3, <2>4
<1>7. CASE \/ RemoveFlushStatus(r) \/ TaskFlushStatus(r)
           \/ HeartbeatFlush(r) \/ Recover(r) \/ SessionDies(r)
  <2>1. UNCHANGED <<queue, queueVars, strays, status, actorVars>>
    BY <1>7 DEF RemoveFlushStatus, TaskFlushStatus, HeartbeatFlush, Recover,
         SessionDies, memoryVars, registryVars
  <2> QED
    BY <1>1, <2>1
<1>8. CASE Promote(r) \/ SpawnSession(r) \/ Dispatch(r) \/ DispatchFlush(r)
  <2>1. /\ UNCHANGED <<queue, queueVars, strays>>
        /\ \A x \in Runs \ {r} : status'[x] = "Running" => status[x] = "Running"
    BY <1>8 DEF Promote, SpawnSession, Dispatch, DispatchFlush, registryVars,
         PromoteQueued, StageStatus, StatusAfter
  <2>2. \E pc \in {"registered", "waiting", "dispatched", "none"} :
          SetTask(r, pc) /\ task[r] \in {"preflight", "registered", "waiting", "dispatched"}
    BY <1>8 DEF Promote, SpawnSession, Dispatch, DispatchFlush
  <2> QED
    BY <1>2, <2>1, <2>2
<1> QED
  BY <1>4, <1>5, <1>6, <1>7, <1>8 DEF HeartbeatStep
(* remove_pending takes one run out of the queue, wherever it waits.       *)
LEMMA RemoveEffect ==
  ASSUME RegistryTypeOK, Sound(queue), NEW r \in Runs, RemovePending(r)
  PROVE  /\ Sound(queue') /\ IsPending(r)
         /\ \A x \in Runs : IsPending(x)' => IsPending(x) /\ x # r
<1>1. PICK p \in Repos : \E i \in DOMAIN queue[p] :
         /\ queue[p][i] = r
         /\ queue' = [queue EXCEPT ![p] = RemoveAt(@, i)]
  BY DEF RemovePending
<1>2. PICK i \in DOMAIN queue[p] :
         /\ queue[p][i] = r
         /\ queue' = [queue EXCEPT ![p] = RemoveAt(@, i)]
  BY <1>1
<1> DEFINE t == RemoveAt(queue[p], i)
<1>3. queue[p] \in Seq(Runs) /\ Distinct(queue[p]) /\ DOMAIN queue = Repos
  BY DEF RegistryTypeOK, Sound
<1>4. ToSet(t) \subseteq ToSet(queue[p]) /\ Distinct(t) /\ r \notin ToSet(t)
  <2>1. queue[p][i] = r
    BY <1>2
  <2> QED
    BY <1>3, <2>1, RemoveAtOfDistinct
<1>5. queue' = [queue EXCEPT ![p] = t]
  BY <1>2
<1> HIDE DEF t
<1>6. \A y \in Repos : queue'[y] = IF y = p THEN t ELSE queue[y]
  BY <1>3, <1>5
<1>7. Sound(queue')
  BY <1>4, <1>6 DEF Sound
<1>8. IsPending(r) /\ RepoOf[r] = p
  BY <1>2 DEF IsPending, Pending, ToSet, Sound
<1>9. \A x \in Runs : IsPending(x)' => IsPending(x) /\ x # r
  BY <1>4, <1>6, <1>8 DEF IsPending, Pending, Sound
<1> QED
  BY <1>7, <1>8, <1>9

(* enqueue_run puts a run that waits nowhere at the end of its queue.      *)
LEMMA EnqueueEffect ==
  ASSUME RegistryTypeOK, Sound(queue), NEW r \in Runs, ~IsPending(r), EnqueueRun(r)
  PROVE  /\ Sound(queue')
         /\ \A x \in Runs : IsPending(x)' => IsPending(x) \/ x = r
<1> DEFINE p == RepoOf[r]
           t == Append(queue[p], r)
<1>1. p \in Repos /\ queue[p] \in Seq(Runs) /\ DOMAIN queue = Repos
  BY RepoOfAssumption DEF RegistryTypeOK
<1>2. r \notin ToSet(queue[p]) /\ Distinct(queue[p])
  BY <1>1 DEF IsPending, Pending, Sound
<1>3. ToSet(t) \subseteq ToSet(queue[p]) \union {r} /\ Distinct(t)
  BY <1>1, <1>2, AppendToDistinct
<1>4. queue' = [queue EXCEPT ![p] = t]
  BY DEF EnqueueRun
<1> HIDE DEF t
<1>5. \A y \in Repos : queue'[y] = IF y = p THEN t ELSE queue[y]
  BY <1>1, <1>4
<1>6. Sound(queue')
  BY <1>3, <1>5 DEF Sound
<1>7. \A x \in Runs : IsPending(x)' => IsPending(x) \/ x = r
  BY <1>3, <1>5 DEF IsPending, Pending
<1> QED
  BY <1>6, <1>7


(* Requests that change the queue stage a snapshot of it.                  *)
LEMMA QueueRequestKeepsFiles ==
  ASSUME Types, Types', Next, FilesInv, StagedInv, NEW r \in Runs,
         SubmitQueued(r) \/ RemoveQueued(r)
  PROVE  FilesInv'
<1>0. /\ DOMAIN submit = Runs /\ DOMAIN client = Runs /\ RegistryTypeOK /\ Sound(queue)
      /\ \A x \in Runs : IsPending(x) => task[x] = "none"
      /\ \A x \in Runs \ strays : HasRun(x) => ~IsPending(x)
      /\ <<"client", r>> \in Actor /\ <<"submit", r>> \in Actor
  BY Actors DEF Types, ActorTypeOK, FilesInv, PendingIsSaved, RunnersAreOut
<1>1. CASE SubmitQueued(r)
  <2>1. /\ UNCHANGED <<tracked, renames, queueFile, raced, strays, task, ender, client>>
        /\ submit' = [submit EXCEPT ![r] = "enq_queue"] /\ submit[r] = "none"
        /\ StageQueue(<<"submit", r>>) /\ EnqueueRun(r) /\ task[r] = "none"
        /\ status' = StatusAfter({r}, "Queued")
    BY <1>1 DEF SubmitQueued, SetSubmit, EnqueueRun, Fresh
  <2>2. ~HasRun(r) /\ ~IsPending(r)
    BY <1>1, FreshIsOut DEF SubmitQueued
  <2>3. Sound(queue') /\ \A x \in Runs : IsPending(x)' => IsPending(x) \/ x = r
    BY <1>0, <2>1, <2>2, EnqueueEffect
  <2>4. \A x \in Runs : submit'[x] = IF x = r THEN "enq_queue" ELSE submit[x]
    BY <1>0, <2>1
  <2>5. \A x \in Runs : Going(x)' => HasRun(x)
    BY <2>1 DEF Going, HasRun, StatusAfter
  <2>6. ~Flushes(<<"submit", r>>) /\ Flushes(<<"submit", r>>)'
    BY <2>1, <2>4 DEF Flushes
  <2>7. Mine(<<"submit", r>>) = {}
    BY <1>0, <2>6 DEF FilesInv, Carriers
  <2>8. \A a \in Actor : Flushes(a) => Flushes(a)'
    BY <2>1, <2>4, FlushersStay
  <2> QED
    BY <1>0, <2>1, <2>2, <2>3, <2>4, <2>5, <2>6, <2>7, <2>8, StageKeepsFiles
<1>2. CASE RemoveQueued(r)
  <2>1. /\ UNCHANGED <<tracked, renames, queueFile, raced, strays, task, ender, submit>>
        /\ client' = [client EXCEPT ![r] = "dequeue"] /\ client[r] = "none"
        /\ StageQueue(<<"client", r>>) /\ RemovePending(r)
        /\ \A x \in Runs : status'[x] = "Running" => status[x] = "Running"
    BY <1>2 DEF RemoveQueued, SetClient, TryStageStatus, StageStatus, StatusAfter
  <2>2. Sound(queue') /\ \A x \in Runs : IsPending(x)' => IsPending(x)
    BY <1>0, <2>1, RemoveEffect
  <2>3. \A x \in Runs : client'[x] = IF x = r THEN "dequeue" ELSE client[x]
    BY <1>0, <2>1
  <2>4. \A x \in Runs : Going(x)' => HasRun(x)
    BY <2>1 DEF Going, HasRun
  <2>5. ~Flushes(<<"client", r>>) /\ Flushes(<<"client", r>>)'
    BY <2>1, <2>3 DEF Flushes
  <2>6. Mine(<<"client", r>>) = {}
    BY <1>0, <2>5 DEF FilesInv, Carriers
  <2>7. \A a \in Actor : Flushes(a) => Flushes(a)'
    BY <2>1, <2>3, FlushersStay
  <2> QED
    BY <1>0, <2>1, <2>2, <2>4, <2>5, <2>6, <2>7, StageKeepsFiles
<1> QED
  BY <1>1, <1>2

----------------------------------------------------------------------------
(* At most one queue is popped from.                                       *)
LEMMA OneSource ==
  ASSUME order \in Seq(Repos), NEW p, NEW q, NEW f
  PROVE  \A x, y \in OwnElseAny(p, q, f) : x = y
<1>1. \A x, y \in OwnQueue(p, q, f) : x = y
  BY DEF OwnQueue
<1>2. ASSUME NEW x \in AnyQueue(q, f), NEW y \in AnyQueue(q, f) PROVE x = y
  <2>1. PICK i \in DOMAIN order :
           /\ x = order[i] /\ Ready(order[i], q, f)
           /\ \A j \in 1..(i - 1) : ~Ready(order[j], q, f)
    BY <1>2 DEF AnyQueue
  <2>2. PICK j \in DOMAIN order :
           /\ y = order[j] /\ Ready(order[j], q, f)
           /\ \A k \in 1..(j - 1) : ~Ready(order[k], q, f)
    BY <1>2 DEF AnyQueue
  <2>3. i \in Nat \ {0} /\ j \in Nat \ {0}
    OBVIOUS
  <2>4. ~(i < j) /\ ~(j < i)
    <3>1. i < j => i \in 1..(j - 1)
      BY <2>3
    <3>2. j < i => j \in 1..(i - 1)
      BY <2>3
    <3> QED
      BY <2>1, <2>2, <3>1, <3>2
  <2> QED
    BY <2>1, <2>2, <2>3, <2>4
<1> QED
  BY <1>1, <1>2 DEF OwnElseAny

(* Who drains, whom it fails, and from where it pops.                      *)
Drains(a, F, failed, src) ==
    /\ RecordAndPop(a, F, failed, src)
    /\ \A x \in src : x \in Repos /\ QueueAfter(RepoOf[a[2]], failed)[x] # <<>>
    /\ \A x, y \in src : x = y
    /\ \/ a[1] = "end" /\ ender[a[2]] = "drain" /\ F = {}
       \/ a[1] = "task" /\ task[a[2]] = "preflight" /\ F = {a[2]}

(* Both drains are of this form.                                           *)
LEMMA DrainForm ==
  ASSUME Types, NEW r \in Runs, DrainIfAvailable(r) \/ PromoteFails(r)
  PROVE  \E a \in Actor, F \in SUBSET Runs, failed \in BOOLEAN : \E src :
            Drains(a, F, failed, src)
<1>0. /\ RepoOf[r] \in Repos /\ RegistryTypeOK /\ order \in Seq(Repos)
      /\ <<"task", r>> \in Actor /\ <<"end", r>> \in Actor
  BY RepoOfAssumption, Actors DEF Types, RegistryTypeOK
<1>1. CASE DrainIfAvailable(r)
  <2> DEFINE src == OwnElseAny(RepoOf[r], queue, FailsAfter(RepoOf[r], FALSE))
             a == <<"end", r>>
  <2>1. QueueAfter(RepoOf[r], FALSE) = queue
    BY DEF QueueAfter, Trips
  <2>2. queue \in [Repos -> Seq(Runs)] /\ RegistryTypeOK
    BY DEF Types, RegistryTypeOK
  <2>3. \A x \in src : x \in Repos /\ queue[x] # <<>>
    BY <1>0, <2>2, SourceFacts
  <2>4. /\ RecordAndPop(a, {}, FALSE, src) /\ ender[r] = "drain"
        /\ a \in Actor /\ a[1] = "end" /\ a[2] = r
    BY <1>0, <1>1 DEF DrainIfAvailable
  <2>5. \A x, y \in src : x = y
    BY <1>0, OneSource
  <2> HIDE DEF src, a
  <2>6. Drains(a, {}, FALSE, src)
    BY <2>1, <2>3, <2>4, <2>5 DEF Drains
  <2> QED
    BY <2>4, <2>6
<1>2. CASE PromoteFails(r)
  <2> DEFINE q == QueueAfter(RepoOf[r], TRUE)
             src == OwnQueue(RepoOf[r], q, FailsAfter(RepoOf[r], TRUE))
             a == <<"task", r>>
  <2>1. q \in [Repos -> Seq(Runs)] /\ RegistryTypeOK
    BY <1>0, QueueAfterFacts DEF Types
  <2>2. \A x \in src : x \in Repos /\ q[x] # <<>>
    BY <1>0, <2>1, SourceFacts
  <2>3. /\ RecordAndPop(a, {r}, TRUE, src) /\ task[r] = "preflight"
        /\ a \in Actor /\ a[1] = "task" /\ a[2] = r
    BY <1>0, <1>2 DEF PromoteFails
  <2>4. \A x, y \in src : x = y
    BY DEF OwnQueue
  <2> HIDE DEF src, a
  <2>5. Drains(a, {r}, TRUE, src)
    BY <2>2, <2>3, <2>4 DEF Drains
  <2> QED
    BY <2>3, <2>5
<1> QED
  BY <1>1, <1>2

(* What a drain leaves in the queues, and what it pops.                    *)
LEMMA DrainEffect ==
  ASSUME Types, Sound(queue), NEW a \in Actor, NEW F, NEW failed \in BOOLEAN, NEW src,
         Drains(a, F, failed, src)
  PROVE  /\ Sound(queue')
         /\ \A x \in Runs : IsPending(x)' => IsPending(x)
         /\ \A x \in src : \E h \in Runs : /\ h = Head(QueueAfter(RepoOf[a[2]], failed)[x])
                                           /\ IsPending(h) /\ ~IsPending(h)'
<1> DEFINE q == QueueAfter(RepoOf[a[2]], failed)
<1>0. RepoOf[a[2]] \in Repos /\ RegistryTypeOK
  BY RepoOfAssumption DEF Types, Actor
<1>1. \A x \in Repos : q[x] \in {<<>>, queue[x]} /\ queue[x] \in Seq(Runs)
  BY <1>0, QueueAfterFacts DEF RegistryTypeOK
<1>2. \A x \in src : x \in Repos /\ q[x] = queue[x] /\ queue[x] # <<>>
  BY <1>1 DEF Drains
<1>3. queue' = [x \in Repos |-> IF x \in src THEN Tail(q[x]) ELSE q[x]]
  BY DEF Drains, RecordAndPop
<1> HIDE DEF q
<1>5. \A x \in Repos : queue'[x] = IF x \in src THEN Tail(queue[x]) ELSE q[x]
  BY <1>2, <1>3
<1>6. \A x \in src : /\ Head(queue[x]) \in ToSet(queue[x])
                     /\ ToSet(Tail(queue[x])) \subseteq ToSet(queue[x])
                     /\ Distinct(Tail(queue[x]))
                     /\ Head(queue[x]) \notin ToSet(Tail(queue[x]))
  BY <1>1, <1>2, TailOfDistinct DEF Sound
<1>7. \A x \in Repos : /\ ToSet(queue'[x]) \subseteq ToSet(queue[x])
                       /\ Distinct(queue'[x])
  BY <1>1, <1>5, <1>6, EmptyQueue DEF Sound
<1>8. Sound(queue') /\ \A x \in Runs : IsPending(x)' => IsPending(x)
  BY <1>7 DEF Sound, IsPending, Pending
<1>9. ASSUME NEW x \in src
      PROVE  \E h \in Runs : h = Head(q[x]) /\ IsPending(h) /\ ~IsPending(h)'
  <2>1. x \in Repos /\ Head(queue[x]) \in ToSet(queue[x]) /\ queue[x] \in Seq(Runs)
    BY <1>1, <1>2, <1>6
  <2>2. PICK h \in Runs : h = Head(queue[x]) /\ IsPending(h)
    BY <2>1 DEF ToSet, IsPending, Pending
  <2>3. \A y \in Repos : h \in ToSet(queue'[y]) => y = x
    BY <1>7, <2>1, <2>2 DEF Sound
  <2>4. h \notin ToSet(queue'[x])
    BY <1>5, <1>6, <2>1, <2>2
  <2> QED
    BY <1>2, <2>2, <2>3, <2>4 DEF IsPending, Pending
<1> QED
  BY <1>8, <1>9 DEF q

(* The actor b on whose behalf a drain stages its writes: the task of the  *)
(* run it popped, or the one that drains when it popped nobody.            *)
DrainsTo(a, F, failed, b) ==
    /\ StageQueue(b)
    /\ staged' = [staged EXCEPT ![b] =
          {[run |-> x, entry |-> EntryAfter(x)] :
             x \in {y \in F \union Drained(RepoOf[a[2]], failed) : status[y] # "absent"}}]
    /\ ~Flushes(b) /\ ~Carries(b) /\ Flushes(b)' /\ Carries(b)'
    /\ \A x \in Runs :
          /\ task'[x] = "popped" => \/ task[x] = "popped"
                                    \/ b = <<"task", x>> /\ task[x] = "none" /\ ~IsPending(x)'
          /\ task[x] \in {"popped", "flush", "dispatched", "registered", "waiting"}
                => task'[x] = task[x]
          /\ task'[x] \in {"preflight", "registered", "waiting", "dispatched"}
                => task'[x] = task[x]
          /\ task[x] = "none" => task'[x] = "none" \/ ~IsPending(x)'
          /\ ender[x] = "flush" => ender'[x] = "flush"
    /\ UNCHANGED <<submit, client>>

(* Every drain has such an actor.                                          *)
LEMMA DrainTasks ==
  ASSUME Types, FilesInv, NEW a \in Actor, NEW F, NEW failed \in BOOLEAN, NEW src,
         Drains(a, F, failed, src)
  PROVE  \E b \in Actor : DrainsTo(a, F, failed, b)
<1> DEFINE q == QueueAfter(RepoOf[a[2]], failed)
           next == {Head(q[x]) : x \in src}
           owner == Flusher(a, next)
           W == {[run |-> x, entry |-> EntryAfter(x)] :
                  x \in {y \in F \union Drained(RepoOf[a[2]], failed) : status[y] # "absent"}}
<1>0. /\ Sound(queue) /\ \A x \in Runs : IsPending(x) => task[x] = "none"
      /\ a[2] \in Runs /\ a = <<a[1], a[2]>>
  BY ActorPairs DEF FilesInv, PendingIsSaved
<1>1. \A x \in src : \E h \in Runs : h = Head(q[x]) /\ IsPending(h) /\ ~IsPending(h)'
  BY <1>0, DrainEffect
<1>2. /\ StageQueue(owner) /\ staged' = [staged EXCEPT ![owner] = W]
      /\ AfterPop(a, next) /\ UNCHANGED <<submit, client>>
  BY DEF Drains, RecordAndPop
<1>3. \A x, y \in src : x = y
  BY DEF Drains
<1>4. \/ a[1] = "end" /\ ender[a[2]] = "drain"
      \/ a[1] = "task" /\ task[a[2]] = "preflight"
  BY DEF Drains
<1> HIDE DEF W, q
<1>5. CASE src = {}
  <2>1. next = {}
    BY <1>5
  <2>2. owner = a
    BY <2>1 DEF Flusher
  <2> HIDE DEF next, owner
  <2>3. /\ \A x \in Runs : /\ task'[x] = IF a = <<"task", x>> THEN "flush" ELSE task[x]
                           /\ ender'[x] = IF a = <<"end", x>> THEN "flush" ELSE ender[x]
        /\ StageQueue(a) /\ staged' = [staged EXCEPT ![a] = W]
    BY <1>2, <2>1, <2>2 DEF AfterPop
  <2>4. ~Flushes(a) /\ ~Carries(a) /\ Flushes(a)' /\ Carries(a)'
    BY <1>0, <1>4, <2>3 DEF Flushes, Carries
  <2>5. \A x \in Runs : /\ a = <<"task", x>> => x = a[2] /\ a[1] = "task"
                        /\ a = <<"end", x>> => x = a[2] /\ a[1] = "end"
    OBVIOUS
  <2>6. \A x \in Runs :
          /\ task'[x] = "popped" => task[x] = "popped"
          /\ task[x] \in {"popped", "flush", "dispatched", "registered", "waiting"}
                => task'[x] = task[x]
          /\ task'[x] \in {"preflight", "registered", "waiting", "dispatched"}
                => task'[x] = task[x]
          /\ task[x] = "none" => task'[x] = "none"
          /\ ender[x] = "flush" => ender'[x] = "flush"
    BY <1>4, <2>3, <2>5
  <2>7. DrainsTo(a, F, failed, a)
    BY <1>2, <2>3, <2>4, <2>6 DEF DrainsTo, W
  <2> QED
    BY <2>7
<1>6. ASSUME NEW s \in src PROVE \E b \in Actor : DrainsTo(a, F, failed, b)
  <2>0. PICK h \in Runs : h = Head(q[s]) /\ IsPending(h) /\ ~IsPending(h)'
    BY <1>1, <1>6
  <2> DEFINE b == <<"task", h>>
  <2>1. next = {h}
    BY <1>3, <1>6, <2>0
  <2>2. owner = b
    BY <2>1 DEF Flusher
  <2> HIDE DEF next, owner
  <2>3. task[h] = "none" /\ b \in Actor
    BY <1>0, <2>0, Actors
  <2>4. /\ \A x \in Runs : task'[x] = IF x = h THEN "popped"
                                      ELSE IF a = <<"task", x>> THEN "none" ELSE task[x]
        /\ \A x \in Runs : ender'[x] = IF a = <<"end", x>> THEN "none" ELSE ender[x]
        /\ StageQueue(b) /\ staged' = [staged EXCEPT ![b] = W]
    BY <1>2, <2>1, <2>2 DEF AfterPop
  <2>5. ~Flushes(b) /\ ~Carries(b) /\ Flushes(b)' /\ Carries(b)'
    BY <2>3, <2>4 DEF Flushes, Carries
  <2>6. \A x \in Runs : /\ a = <<"task", x>> => x = a[2] /\ a[1] = "task"
                        /\ a = <<"end", x>> => x = a[2] /\ a[1] = "end"
    OBVIOUS
  <2>7. \A x \in Runs :
          /\ task'[x] = "popped" => \/ task[x] = "popped"
                                    \/ b = <<"task", x>> /\ task[x] = "none" /\ ~IsPending(x)'
          /\ task[x] \in {"popped", "flush", "dispatched", "registered", "waiting"}
                => task'[x] = task[x]
          /\ task'[x] \in {"preflight", "registered", "waiting", "dispatched"}
                => task'[x] = task[x]
          /\ task[x] = "none" => task'[x] = "none" \/ ~IsPending(x)'
          /\ ender[x] = "flush" => ender'[x] = "flush"
    BY <1>4, <2>0, <2>3, <2>4, <2>6
  <2>8. DrainsTo(a, F, failed, b)
    BY <1>2, <2>4, <2>5, <2>7 DEF DrainsTo, W
  <2> QED
    BY <2>3, <2>8
<1> QED
  BY <1>5, <1>6

(* A drain keeps the account: its snapshot lacks the popped run.           *)
LEMMA DrainKeepsFiles ==
  ASSUME Types, Types', Next, FilesInv, NEW a \in Actor, NEW F, NEW failed \in BOOLEAN,
         NEW src, Drains(a, F, failed, src)
  PROVE  FilesInv'
<1>0. /\ Sound(queue) /\ \A x \in Runs : IsPending(x) => task[x] = "none"
      /\ \A x \in Runs \ strays : HasRun(x) => ~IsPending(x)
  BY DEF FilesInv, PendingIsSaved, RunnersAreOut
<1>1. Sound(queue') /\ \A x \in Runs : IsPending(x)' => IsPending(x)
  BY <1>0, DrainEffect
<1>2. /\ UNCHANGED <<submit, client, tracked, renames, queueFile, raced, strays>>
      /\ \A x \in Runs : status'[x] = "Running" => status[x] = "Running"
  BY DEF Drains, RecordAndPop
<1>3. PICK b \in Actor : DrainsTo(a, F, failed, b)
  BY DrainTasks
<1>4. Mine(b) = {} /\ StageQueue(b) /\ Flushes(b)'
  BY <1>3 DEF FilesInv, Carriers, DrainsTo
<1>5. \A x \in Runs : Going(x)' => HasRun(x)
  BY <1>2, <1>3 DEF Going, HasRun, DrainsTo
<1>6. \A c \in Actor : Flushes(c) => Flushes(c)'
  BY <1>2, <1>3, FlushersStay DEF DrainsTo
<1>7. ASSUME NEW x \in Runs
      PROVE  /\ task'[x] = "popped" =>
                  ~IsPending(x)' /\ (task[x] = "popped" \/ b = <<"task", x>>)
             /\ IsPending(x)' => task'[x] = "none"
  <2>1. /\ task'[x] = "popped" => \/ task[x] = "popped"
                                  \/ b = <<"task", x>> /\ task[x] = "none" /\ ~IsPending(x)'
        /\ task[x] = "none" => task'[x] = "none" \/ ~IsPending(x)'
    BY <1>3 DEF DrainsTo
  <2> QED
    BY <1>0, <1>1, <2>1
<1> QED
  BY <1>0, <1>1, <1>2, <1>4, <1>5, <1>6, <1>7, StageKeepsFiles

(* The flushes of queue.json; after its own the popped run may start.      *)
LEMMA QueueFlushesKeepFiles ==
  ASSUME Types, Next, FilesInv, NEW r \in Runs,
         EnqueueFlush(r) \/ RemoveEnds(r) \/ TaskFlushQueue(r) \/ EndFlushQueue(r)
  PROVE  FilesInv'
<1>0. /\ DOMAIN task = Runs /\ DOMAIN ender = Runs /\ DOMAIN submit = Runs
      /\ DOMAIN client = Runs
      /\ \A x \in Runs : IsPending(x) => task[x] = "none"
      /\ <<"task", r>> \in Actor /\ <<"end", r>> \in Actor
      /\ <<"submit", r>> \in Actor /\ <<"client", r>> \in Actor
  BY Actors DEF Types, ActorTypeOK, FilesInv, PendingIsSaved
<1>1. UNCHANGED <<queue, strays, status>>
  BY DEF EnqueueFlush, RemoveEnds, TaskFlushQueue, EndFlushQueue, registryVars
<1>2. CASE EnqueueFlush(r)
  <2>1. /\ ReturnFromFlush(<<"submit", r>>) /\ submit[r] = "enq_queue"
        /\ submit' = [submit EXCEPT ![r] = "enq_meta"]
        /\ UNCHANGED <<task, ender, client>>
    BY <1>2 DEF EnqueueFlush, SetSubmit
  <2>2. \A x \in Runs : submit'[x] = IF x = r THEN "enq_meta" ELSE submit[x]
    BY <1>0, <2>1
  <2>3. \A a \in Actor : Flushes(a) => Flushes(a)' \/ a = <<"submit", r>>
    BY <2>1, <2>2, ActorPairs DEF Flushes
  <2> QED
    BY <1>0, <1>1, <2>1, <2>2, <2>3, ReturnKeepsFiles DEF Going, HasRun
<1>3. CASE RemoveEnds(r)
  <2>1. /\ ReturnFromFlush(<<"client", r>>)
        /\ client' = [client EXCEPT ![r] = "none"]
        /\ UNCHANGED <<task, ender, submit>>
    BY <1>3 DEF RemoveEnds, SetClient
  <2>2. \A x \in Runs : client'[x] = IF x = r THEN "none" ELSE client[x]
    BY <1>0, <2>1
  <2>3. \A a \in Actor : Flushes(a) => Flushes(a)' \/ a = <<"client", r>>
    BY <2>1, <2>2, ActorPairs DEF Flushes
  <2> QED
    BY <1>0, <1>1, <2>1, <2>3, ReturnKeepsFiles DEF Going, HasRun
<1>4. CASE EndFlushQueue(r)
  <2>1. /\ ReturnFromFlush(<<"end", r>>)
        /\ ender' = [ender EXCEPT ![r] = "none"]
        /\ UNCHANGED <<task, submit, client>>
    BY <1>4 DEF EndFlushQueue, SetEnder
  <2>2. \A x \in Runs : ender'[x] = IF x = r THEN "none" ELSE ender[x]
    BY <1>0, <2>1
  <2>3. \A a \in Actor : Flushes(a) => Flushes(a)' \/ a = <<"end", r>>
    BY <2>1, <2>2, ActorPairs DEF Flushes
  <2> QED
    BY <1>0, <1>1, <2>1, <2>3, ReturnKeepsFiles DEF Going, HasRun
<1>5. CASE TaskFlushQueue(r)
  <2>1. /\ ReturnFromFlush(<<"task", r>>) /\ task[r] \in {"popped", "flush"}
        /\ task' = [task EXCEPT ![r] = IF task[r] = "popped" THEN "preflight" ELSE "none"]
        /\ UNCHANGED <<ender, submit, client>>
    BY <1>5 DEF TaskFlushQueue, SetTask
  <2>2. \A x \in Runs : task'[x] = IF x = r
                                   THEN IF task[r] = "popped" THEN "preflight" ELSE "none"
                                   ELSE task[x]
    BY <1>0, <2>1
  <2>3. \A a \in Actor : Flushes(a) => Flushes(a)' \/ a = <<"task", r>>
    BY <2>1, <2>2, ActorPairs DEF Flushes
  <2>4. \A x \in Runs :
            /\ Going(x)' => HasRun(x) \/ (task[x] = "popped" /\ <<"task", r>> = <<"task", x>>)
            /\ task'[x] = "popped" => task[x] = "popped"
            /\ IsPending(x) => task'[x] = "none"
    BY <1>0, <1>1, <2>1, <2>2 DEF Going, HasRun
  <2> QED
    BY <1>0, <1>1, <2>1, <2>3, <2>4, ReturnKeepsFiles
<1> QED
  BY <1>2, <1>3, <1>4, <1>5

(* Nothing is under way.                                                   *)
LEMMA NoSnapshots ==
  ASSUME snaps = <<>>, renames = {}, ~raced
  PROVE  /\ \A Q : Everywhere(Q) <=> tracked \in Q /\ queueFile \in Q
         /\ \A a : Mine(a) = {}
         /\ Carriers
         /\ SoundDisk <=> tracked \in SoundFiles /\ queueFile \in SoundFiles
         /\ RaceInv <=> queueFile = tracked
<1>1. DOMAIN snaps = {}
  OBVIOUS
<1> QED
  BY <1>1 DEF Everywhere, Mine, Carriers, OneEach, SoundDisk, RaceInv

(* A queue and a file with the same runs in them, and nothing under way.   *)
Agreement ==
    /\ snaps = <<>> /\ renames = {} /\ ~raced
    /\ Sound(queue) /\ queueFile \in SoundFiles /\ tracked = queueFile
    /\ \A r \in Runs : /\ queueFile \in Holding(r) <=> IsPending(r)
                       /\ task[r] = "none" /\ submit[r] = "none"
                       /\ r \notin strays /\ HasRun(r) => ~IsPending(r)

(* ... are as they should be.                                              *)
LEMMA AgreementSuffices == Agreement => FilesInv
<1> SUFFICES ASSUME Agreement PROVE FilesInv
  OBVIOUS
<1> USE DEF Agreement
<1>1. \A r \in Runs : queueFile \in Without(r) <=> ~IsPending(r)
  BY DEF Without, SoundFiles
<1>2. RunnersAreOut
  BY <1>1, NoSnapshots DEF RunnersAreOut
<1>3. PendingIsSaved
  BY NoSnapshots DEF PendingIsSaved, Saved
<1> QED
  BY <1>2, <1>3, NoSnapshots DEF FilesInv

(* A crash leaves nothing but the files; whom a race has put into          *)
(* queue.json, or out of it, is counted as misplaced.                      *)
LEMMA CrashKeepsFiles ==
  ASSUME Types, Next, FilesInv, Crash
  PROVE  FilesInv'
<1>1. /\ snaps' = <<>> /\ renames' = {} /\ ~raced' /\ queue' = [p \in Repos |-> <<>>]
      /\ \A r \in Runs : task'[r] = "none" /\ submit'[r] = "none" /\ ~Going(r)'
      /\ tracked' = queueFile /\ queueFile' = queueFile
      /\ strays' = strays \union (IF raced THEN Misplaced ELSE {})
  BY DEF Crash, Idle, Going
<1>2. /\ \A Q : Everywhere(Q)' <=> tracked' \in Q /\ queueFile' \in Q
      /\ Carriers' /\ SoundDisk' /\ RaceInv'
  <2>1. DOMAIN snaps' = {}
    BY <1>1
  <2> QED
    BY <1>1, <2>1 DEF Everywhere, Mine, Carriers, OneEach, SoundDisk, RaceInv, FilesInv
<1>3. Sound(queue') /\ \A r \in Runs : ~IsPending(r)'
  BY <1>1, EmptyQueue DEF Sound, IsPending, Pending
<1>4. ASSUME NEW r \in Runs \ strays', HasRun(r)' PROVE Everywhere(Without(r))'
  <2>1. HasRun(r) /\ r \notin strays
    BY <1>1, <1>4, HasRunGrows
  <2>2. Everywhere(Without(r))
    BY <2>1 DEF FilesInv, RunnersAreOut
  <2>3. CASE ~raced
    BY <1>1, <1>2, <2>2, <2>3 DEF Everywhere
  <2>4. CASE raced
    <3>1. tracked \in Without(r) /\ r \notin Misplaced /\ queueFile \in Wire
      BY <1>1, <1>4, <2>2, <2>4 DEF Everywhere, Types, QueueTypeOK
    <3>2. queueFile \in Without(r)
      BY <3>1 DEF Without, Holding, Misplaced, Range, ToSet
    <3> QED
      BY <1>1, <1>2, <3>2
  <2> QED
    BY <2>3, <2>4
<1>5. RunnersAreOut'
  BY <1>1, <1>3, <1>4 DEF RunnersAreOut
<1>6. PendingIsSaved' /\ Sound(queue)'
  BY <1>3 DEF PendingIsSaved, Sound
<1> QED
  BY <1>2, <1>5, <1>6 DEF FilesInv

(* load_from_disk and restore_queue put the files into memory.             *)
LEMMA LoadKeepsFiles ==
  ASSUME Types, Next, FilesInv, BootInv, Load
  PROVE  FilesInv'
<1>1. /\ queue' = queueFile.queues /\ ~Up
      /\ UNCHANGED <<task, submit, snaps, tracked, renames, queueFile, raced, strays, staged, meta>>
      /\ \A r \in Runs : status'[r] = meta[r].status
  BY DEF Load, Up, actorVars, queueVars, metaVars
<1>2. /\ snaps = <<>> /\ renames = {} /\ ~raced
      /\ \A r \in Runs : task[r] = "none" /\ submit[r] = "none"
  BY <1>1 DEF BootInv, BootIsAlone
<1>3. queueFile \in SoundFiles /\ tracked = queueFile
  BY <1>2, NoSnapshots DEF FilesInv
<1>4. \A r \in Runs : queueFile \in Holding(r) <=> IsPending(r)'
  BY <1>1, <1>3, RepoOfAssumption DEF Holding, IsPending, Pending, Sound, SoundFiles
<1>5. ASSUME NEW r \in Runs, r \notin strays, HasRun(r)' PROVE ~IsPending(r)'
  <2>1. HasRun(r)
    BY <1>1, <1>2, <1>5 DEF HasRun, Going, SaysRunning
  <2>2. queueFile \in Without(r)
    BY <1>2, <1>5, <2>1, NoSnapshots DEF FilesInv, RunnersAreOut
  <2> QED
    BY <1>4, <2>2 DEF Without
<1>6. Agreement'
  BY <1>1, <1>2, <1>3, <1>4, <1>5 DEF Agreement, SoundFiles, Holding, Sound
<1>7. Agreement' => FilesInv'
  BY AgreementSuffices, PTL
<1> QED
  BY <1>6, <1>7

(* The steps of the reconciler, behind load_from_disk.                     *)
LEMMA ReconcileKeepsFiles ==
  ASSUME Types, Next, FilesInv, BootInv,
         \/ SessionsDone \/ StaleDone \/ Start
         \/ \E r \in Runs : \/ ReconcileSession(r) \/ KeepPending(r)
                            \/ ResumeStale(r) \/ FailStale(r) \/ FailDropped(r)
  PROVE  FilesInv'
<1>0. \A x \in Runs : IsPending(x) => task[x] = "none"
  BY DEF FilesInv, PendingIsSaved
<1>1. ASSUME UNCHANGED <<queue, queueVars, strays, actorVars>>,
             \A x \in Runs : status'[x] = "Running" =>
                \/ status[x] = "Running" \/ x \in strays
                \/ ~IsPending(x) /\ Everywhere(Without(x))
      PROVE  FilesInv'
  <2>1. UNCHANGED <<task, ender, submit, client>>
    BY <1>1 DEF actorVars
  <2>2. \A a \in Actor : Flushes(a) => Flushes(a)'
    BY <2>1, FlushersStay
  <2> QED
    BY <1>0, <1>1, <2>1, <2>2, KeepsFiles DEF Going, HasRun
<1>2. CASE \/ SessionsDone \/ StaleDone \/ Start
           \/ \E r \in Runs : ReconcileSession(r) \/ KeepPending(r)
  <2>1. UNCHANGED <<queue, queueVars, strays, actorVars, status>>
    BY <1>2 DEF SessionsDone, StaleDone, Start, ReconcileSession, KeepPending, memoryVars,
         registryVars
  <2> QED
    BY <1>1, <2>1
<1>3. ASSUME NEW r \in Runs, FailStale(r) \/ FailDropped(r) PROVE FilesInv'
  <2>1. /\ UNCHANGED <<queue, queueVars, strays, actorVars>>
        /\ \A x \in Runs : status'[x] = "Running" => status[x] = "Running"
    BY <1>3 DEF FailStale, FailDropped, StageStatus, TryStageStatus, StatusAfter
  <2> QED
    BY <1>1, <2>1
<1>4. ASSUME NEW r \in Runs, ResumeStale(r) PROVE FilesInv'
  <2>1. /\ UNCHANGED <<queue, queueVars, strays, actorVars>>
        /\ boot.pc = "stale" /\ r \in boot.todo
        /\ \A x \in Runs \ {r} : status'[x] = "Running" => status[x] = "Running"
    BY <1>4 DEF ResumeStale, StageStatus, StatusAfter
  <2>2. ASSUME r \notin strays PROVE ~IsPending(r) /\ Everywhere(Without(r))
    <3>1. /\ snaps = <<>> /\ renames = {} /\ ~raced /\ queueFile.queues = queue
          /\ ~IsPending(r) /\ queueFile \in Wire
      BY <2>1, <2>2 DEF BootInv, Up, Types, QueueTypeOK
    <3>2. queueFile \in Without(r)
      BY <3>1, RepoOfAssumption DEF Without, Holding, IsPending, Pending
    <3>3. tracked = queueFile
      BY <3>1, NoSnapshots DEF FilesInv
    <3> QED
      BY <3>1, <3>2, <3>3, NoSnapshots
  <2> QED
    BY <1>1, <2>1, <2>2
<1> QED
  BY <1>2, <1>3, <1>4

(* A pending run whose plan is gone leaves the queue and queue.json.       *)
LEMMA DropKeepsFiles ==
  ASSUME Types, Types', Next, FilesInv, BootInv, NEW r \in Runs, DropPending(r)
  PROVE  FilesInv'
<1>1. /\ RemovePending(r) /\ queueFile' = QueueWire(queue', fails) /\ tracked' = queueFile'
      /\ UNCHANGED <<status, task, submit, meta, staged, snaps, renames, raced, strays>>
      /\ ~Up
  BY DEF DropPending, Up, actorVars, metaVars
<1>2. /\ snaps = <<>> /\ renames = {} /\ ~raced /\ RegistryTypeOK /\ Sound(queue)
      /\ queue' \in [Repos -> Seq(Runs)]
      /\ fails \in [Repos -> 0..(MaxConsecutiveFailures - 1)]
      /\ \A x \in Runs : /\ task[x] = "none" /\ submit[x] = "none"
                         /\ x \notin strays /\ HasRun(x) => ~IsPending(x)
  BY <1>1 DEF BootInv, BootIsAlone, FilesInv, RunnersAreOut, Types, RegistryTypeOK
<1>3. Sound(queue') /\ \A x \in Runs : IsPending(x)' => IsPending(x)
  BY <1>1, <1>2, RemoveEffect
<1>4. /\ QueueWire(queue', fails) \in SoundFiles
      /\ \A x \in Runs : QueueWire(queue', fails) \in Holding(x)
                           <=> \E p \in Repos : x \in ToSet(queue'[p])
  BY <1>2, <1>3, WireFacts
<1>5. \A x \in Runs : HasRun(x)' => HasRun(x)
  BY <1>1 DEF HasRun, Going, SaysRunning
<1>6. Agreement'
  BY <1>1, <1>2, <1>3, <1>4, <1>5 DEF Agreement, SoundFiles, Holding, Sound, IsPending, Pending
<1>7. Agreement' => FilesInv'
  BY AgreementSuffices, PTL
<1> QED
  BY <1>6, <1>7

(* Every step, as far as the files go.                                     *)
LEMMA NextKeepsFiles ==
  ASSUME Types, Types', FilesInv, StagedInv, BootInv, Next
  PROVE  FilesInv'
<1>1. ASSUME NEW r \in Runs, Request(r) \/ ClientStep(r) PROVE FilesInv'
  BY <1>1, QuietKeepsFiles, QueueRequestKeepsFiles, QueueFlushesKeepFiles
     DEF Request, ClientStep
<1>2. ASSUME NEW r \in Runs, RunStep(r) \/ SessionDies(r) PROVE FilesInv'
  <2>1. CASE DrainIfAvailable(r) \/ PromoteFails(r)
    BY <2>1, DrainForm, DrainKeepsFiles
  <2> QED
    BY <1>2, <2>1, QuietKeepsFiles, QueueFlushesKeepFiles
       DEF RunStep, SpawnStep, EndStep
<1>3. ASSUME NEW r \in Runs,
             \/ ReconcileSession(r) \/ ResumeStale(r) \/ FailStale(r)
             \/ KeepPending(r) \/ DropPending(r) \/ FailDropped(r)
      PROVE  FilesInv'
  BY <1>3, ReconcileKeepsFiles, DropKeepsFiles
<1>4. CASE SessionsDone \/ StaleDone \/ Start
  BY <1>4, ReconcileKeepsFiles
<1> QED
  BY <1>1, <1>2, <1>3, <1>4, FlushBeginsKeepsFiles, CrashKeepsFiles, LoadKeepsFiles
     DEF Next, Reconcile

(* The start-up keeps its agreement with the disk.                         *)
LEMMA NextKeepsBoot ==
  ASSUME Types, FilesInv, BootInv, Next
  PROVE  BootInv'
<1>0. /\ DOMAIN boot = {"pc", "live", "todo", "drop"} /\ DOMAIN queueFile = {"queues", "failures"}
      /\ boot \in BootType
  BY DEF Types, QueueTypeOK, Wire, OtherTypeOK, BootType
<1>1. ASSUME NEW r \in Runs, Request(r) \/ ClientStep(r) \/ RunStep(r)
      PROVE  BootInv'
  <2>1. Up /\ boot' = boot
    BY <1>1, OnlyBootSteps, BootUnchanged DEF BootInv
  <2> QED
    BY <2>1 DEF BootInv, BootIsAlone, Up
<1>2. ASSUME NEW r \in Runs, SessionDies(r) PROVE BootInv'
  BY <1>2 DEF SessionDies, memoryVars, registryVars, actorVars, queueVars, BootInv,
       BootIsAlone, Up, IsPending, Pending
<1>3. CASE FlushBegins
  <2>1. boot' = boot /\ (~Up => \A a \in Actor : Mine(a) = {})
    BY <1>3, NoSnapshots DEF FlushBegins, BootInv
  <2>2. Up
    BY <1>3, <2>1 DEF FlushBegins, AdvanceQueue
  <2> QED
    BY <2>1, <2>2 DEF BootInv, BootIsAlone, Up
<1>4. CASE Crash
  BY <1>4 DEF Crash, Idle, Boot, BootInv, BootIsAlone, Up
<1>5. CASE Load
  BY <1>5 DEF Load, Boot, BootInv, BootIsAlone, Up, actorVars, queueVars
<1>6. CASE Start
  BY <1>6 DEF Start, Boot, BootInv, BootIsAlone, Up
<1>7. ASSUME boot.pc \in {"sessions", "stale", "pending"}, boot'.pc # "up",
             UNCHANGED <<actorVars, staged, queueVars, queue, strays>>,
             boot'.pc = "stale" => \A x \in boot'.todo \ strays : ~IsPending(x)
      PROVE  BootInv'
  BY <1>7 DEF BootInv, BootIsAlone, Up, IsPending, Pending, actorVars, queueVars
<1>8. CASE SessionsDone
  <2>1. /\ UNCHANGED <<actorVars, staged, queueVars, queue, strays>>
        /\ boot'.todo = Stale /\ boot.pc = "sessions"
        /\ boot'.pc = "stale"
    BY <1>0, <1>8 DEF SessionsDone, memoryVars, registryVars, BootType
  <2>2. \A x \in Stale \ strays : ~IsPending(x)
    BY DEF Stale, Active, FilesInv, RunnersAreOut, HasRun, Going
  <2> QED
    BY <1>7, <2>1, <2>2
<1>9. CASE StaleDone
  BY <1>0, <1>7, <1>9 DEF StaleDone, memoryVars, registryVars, BootType
<1>10. ASSUME NEW r \in Runs,
              \/ ReconcileSession(r) \/ ResumeStale(r) \/ FailStale(r)
              \/ KeepPending(r) \/ FailDropped(r)
       PROVE  BootInv'
  <2>1. /\ UNCHANGED <<actorVars, staged, queueVars, queue, strays>>
        /\ boot'.pc = boot.pc /\ boot'.todo \subseteq boot.todo /\ boot'.drop \subseteq boot.drop
    BY <1>0, <1>10 DEF ReconcileSession, ResumeStale, FailStale, KeepPending, FailDropped,
         memoryVars, registryVars, BootType
  <2> QED
    BY <2>1 DEF BootInv, BootIsAlone, Up, IsPending, Pending, actorVars, queueVars
<1>11. ASSUME NEW r \in Runs, DropPending(r) PROVE BootInv'
  <2>1. /\ UNCHANGED <<actorVars, staged, snaps, renames, raced>>
        /\ boot'.pc = "pending" /\ boot.pc = "pending" /\ queueFile'.queues = queue'
    BY <1>0, <1>11 DEF DropPending, QueueWire, BootType
  <2> QED
    BY <2>1 DEF BootInv, BootIsAlone, Up, actorVars
<1> QED
  BY <1>1, <1>2, <1>3, <1>4, <1>5, <1>6, <1>8, <1>9, <1>10, <1>11 DEF Next, Reconcile

(* What one step may do to the actors with writes under way: they stay, or *)
(* are done with them; and no other actor comes to have a single write.    *)
Stayers(a) ==
    \A r \in Runs :
        /\ task'[r] = "dispatched" => task[r] = "dispatched" \/ a = <<"task", r>>
        /\ client'[r] = "detach" => client[r] = "detach" \/ a = <<"client", r>>

(* An actor stages writes of runs that exist.                              *)
LEMMA StagedElsewhere ==
  ASSUME Types, StagedInv, NEW b \in Actor, NEW R \in SUBSET Runs, StagedAs(b, R),
         Carries(b)', \A a \in Actor : Carries(a) => Carries(a)',
         \A x \in Runs : status[x] # "absent" => status'[x] # "absent",
         \A x \in R : status'[x] # "absent",
         Stayers(b),
         b[1] \in {"task", "client"} /\ ~Flushes(b)' => \A x, y \in R : x = y
  PROVE  StagedInv'
<1> DEFINE W == {[run |-> r, entry |-> EntryAfter(r)] : r \in R}
<1>1. \A a \in Actor : staged'[a] = IF a = b THEN W ELSE staged[a]
  BY DEF StagedAs, Types, Staged
<1>2. \A w \in W : /\ w.run \in R /\ w.entry.status # "absent"
                   /\ w = [run |-> w.run, entry |-> EntryAfter(w.run)]
  BY DEF EntryAfter
<1>3. \A a \in Actor : \A w \in staged[a] : w.run \in Runs
  BY DEF Types, Staged
<1> HIDE DEF W
<1>4. ASSUME NEW a \in Actor
      PROVE  /\ staged'[a] # {} => Carries(a)'
             /\ \A w \in staged'[a] : w.entry.status # "absent" /\ status'[w.run] # "absent"
  BY <1>1, <1>2, <1>3 DEF StagedInv
<1>5. (\A x, y \in R : x = y) => \A v, w \in W : v = w
  BY <1>2
<1>6. ASSUME NEW r \in Runs
      PROVE  /\ task'[r] = "dispatched" => OneWrite(<<"task", r>>)'
             /\ client'[r] = "detach" => OneWrite(<<"client", r>>)'
  <2>1. /\ <<"task", r>> \in Actor /\ <<"client", r>> \in Actor
        /\ Flushes(<<"task", r>>)' <=> task'[r] \in {"popped", "flush"}
        /\ Flushes(<<"client", r>>)' <=> client'[r] = "dequeue"
    BY Actors DEF Flushes
  <2>2. ASSUME task'[r] = "dispatched" PROVE OneWrite(<<"task", r>>)'
    <3>1. CASE b = <<"task", r>>
      BY <1>1, <1>5, <2>1, <2>2, <3>1 DEF OneWrite
    <3>2. CASE b # <<"task", r>>
      BY <1>1, <2>1, <2>2, <3>2 DEF OneWrite, StagedInv, Stayers
    <3> QED
      BY <3>1, <3>2
  <2>3. ASSUME client'[r] = "detach" PROVE OneWrite(<<"client", r>>)'
    <3>1. CASE b = <<"client", r>>
      BY <1>1, <1>5, <2>1, <2>3, <3>1 DEF OneWrite
    <3>2. CASE b # <<"client", r>>
      BY <1>1, <2>1, <2>3, <3>2 DEF OneWrite, StagedInv, Stayers
    <3> QED
      BY <3>1, <3>2
  <2> QED
    BY <2>2, <2>3
<1> QED
  BY <1>4, <1>6 DEF StagedInv

(* Nothing is staged nor written.                                          *)
LEMMA StagedSame ==
  ASSUME StagedInv, UNCHANGED staged,
         \A a \in Actor : Carries(a) => Carries(a)' \/ staged[a] = {},
         \A x \in Runs : status[x] # "absent" => status'[x] # "absent",
         \A a \in Actor : \A w \in staged[a] : w.run \in Runs,
         Stayers(<<>>)
  PROVE  StagedInv'
<1>1. \A r \in Runs : <<>> # <<"task", r>> /\ <<>> # <<"client", r>>
  OBVIOUS
<1> QED
  BY <1>1 DEF StagedInv, OneWrite, Stayers

(* An actor writes one of its entries.                                     *)
LEMMA StagedFlushed ==
  ASSUME Types, StagedInv, NEW b \in Actor, FlushStatus(b), UNCHANGED status,
         \A a \in Actor : Carries(a) => Carries(a)' \/ (a = b /\ OneWrite(a)),
         Stayers(<<>>)
  PROVE  StagedInv'
<1>1. PICK u \in staged[b] : staged' = [staged EXCEPT ![b] = @ \ {u}]
  BY DEF FlushStatus
<1>2. \A a \in Actor : staged'[a] = IF a = b THEN staged[a] \ {u} ELSE staged[a]
  BY <1>1 DEF Types, Staged
<1>3. \A r \in Runs : <<>> # <<"task", r>> /\ <<>> # <<"client", r>>
  OBVIOUS
<1>4. ASSUME NEW a \in Actor
      PROVE  /\ staged'[a] # {} => Carries(a)'
             /\ \A w \in staged'[a] : w.entry.status # "absent" /\ status'[w.run] # "absent"
             /\ OneWrite(a) => OneWrite(a)'
  <2>1. a = b /\ OneWrite(a) => staged'[a] = {}
    BY <1>2 DEF OneWrite
  <2> QED
    BY <1>2, <2>1 DEF StagedInv, OneWrite
<1> QED
  BY <1>3, <1>4, Actors DEF StagedInv, Stayers

(* An actor whose program counter stays goes on writing.                   *)
LEMMA CarriersStay ==
  ASSUME \A x \in Runs :
            /\ task[x] \in {"dispatched", "popped", "flush"}
                  => task'[x] \in {"dispatched", "popped", "flush"}
            /\ ender[x] = "flush" => ender'[x] = "flush"
            /\ client[x] \in {"dequeue", "detach"} => client'[x] \in {"dequeue", "detach"}
  PROVE  \A a \in Actor : Carries(a) => Carries(a)'
BY ActorPairs DEF Carries

(* The steps that stage something.                                         *)
LEMMA StagersKeepStaged ==
  ASSUME Types, FilesInv, StagedInv, NEW r \in Runs,
         \/ RemoveQueued(r) \/ Detach(r) \/ Dispatch(r) \/ HeartbeatStage(r)
         \/ DrainIfAvailable(r) \/ PromoteFails(r)
  PROVE  StagedInv'
<1>0. /\ DOMAIN task = Runs /\ DOMAIN client = Runs
      /\ <<"task", r>> \in Actor /\ <<"client", r>> \in Actor /\ <<"heartbeat", r>> \in Actor
  BY Actors DEF Types, ActorTypeOK
<1>1. CASE RemoveQueued(r)
  <2> DEFINE R == IF CanStage(r, "Stopped") THEN {r} ELSE {}
  <2>1. StagedAs(<<"client", r>>, R)
    BY <1>1 DEF RemoveQueued, StagedAs
  <2>2. /\ \A x \in Runs : client'[x] = IF x = r THEN "dequeue" ELSE client[x]
        /\ UNCHANGED <<task, ender>> /\ client[r] = "none"
    BY <1>0, <1>1 DEF RemoveQueued, SetClient
  <2>3. /\ \A x \in Runs : status[x] # "absent" => status'[x] # "absent"
        /\ \A x \in R : status'[x] # "absent"
    BY <1>1 DEF RemoveQueued, TryStageStatus, StageStatus, StatusAfter
  <2>4. Carries(<<"client", r>>)' /\ Stayers(<<"client", r>>) /\ Flushes(<<"client", r>>)'
    BY <2>2 DEF Carries, Stayers, Flushes
  <2>5. \A a \in Actor : Carries(a) => Carries(a)'
    BY <2>2, CarriersStay
  <2>6. R \in SUBSET Runs
    OBVIOUS
  <2> HIDE DEF R
  <2> QED
    BY <1>0, <2>1, <2>3, <2>4, <2>5, <2>6, StagedElsewhere
<1>2. CASE Detach(r)
  <2>1. StagedAs(<<"client", r>>, {r})
    BY <1>2 DEF Detach, StagedAs
  <2>2. /\ \A x \in Runs : client'[x] = IF x = r THEN "detach" ELSE client[x]
        /\ UNCHANGED <<task, ender>> /\ client[r] = "none"
    BY <1>0, <1>2 DEF Detach, SetClient
  <2>3. \A x \in Runs : /\ status[x] # "absent" => status'[x] # "absent"
                        /\ x \in {r} => status'[x] # "absent"
    BY <1>2 DEF Detach, StageStatus, StatusAfter
  <2>4. Carries(<<"client", r>>)' /\ Stayers(<<"client", r>>)
    BY <2>2 DEF Carries, Stayers
  <2>5. \A a \in Actor : Carries(a) => Carries(a)'
    BY <2>2, CarriersStay
  <2> QED
    BY <1>0, <2>1, <2>3, <2>4, <2>5, StagedElsewhere
<1>3. CASE Dispatch(r)
  <2>1. StagedAs(<<"task", r>>, {r})
    BY <1>3 DEF Dispatch, StagedAs
  <2>2. /\ \A x \in Runs : task'[x] = IF x = r THEN "dispatched" ELSE task[x]
        /\ UNCHANGED <<client, ender>>
    BY <1>0, <1>3 DEF Dispatch, SetTask
  <2>3. \A x \in Runs : /\ status[x] # "absent" => status'[x] # "absent"
                        /\ x \in {r} => status'[x] # "absent"
    BY <1>3 DEF Dispatch, StageStatus, StatusAfter
  <2>4. Carries(<<"task", r>>)' /\ Stayers(<<"task", r>>)
    BY <2>2 DEF Carries, Stayers
  <2>5. \A a \in Actor : Carries(a) => Carries(a)'
    BY <2>2, CarriersStay
  <2> QED
    BY <1>0, <2>1, <2>3, <2>4, <2>5, StagedElsewhere
<1>4. CASE HeartbeatStage(r)
  <2>1. StagedAs(<<"heartbeat", r>>, {r})
    BY <1>4 DEF HeartbeatStage, StagedAs
  <2>2. UNCHANGED <<task, client, ender>>
    BY <1>4 DEF HeartbeatStage, actorVars
  <2>3. \A x \in Runs : /\ status[x] # "absent" => status'[x] # "absent"
                        /\ x \in {r} => status'[x] # "absent"
    BY <1>4 DEF HeartbeatStage, StageStatus, StatusAfter
  <2>4. Carries(<<"heartbeat", r>>)' /\ Stayers(<<"heartbeat", r>>)
    BY <2>2 DEF Carries, Stayers
  <2>5. \A a \in Actor : Carries(a) => Carries(a)'
    BY <2>2, CarriersStay
  <2> QED
    BY <1>0, <2>1, <2>3, <2>4, <2>5, StagedElsewhere
<1>5. CASE DrainIfAvailable(r) \/ PromoteFails(r)
  <2>1. PICK a \in Actor, F \in SUBSET Runs, failed \in BOOLEAN : \E src : Drains(a, F, failed, src)
    BY <1>5, DrainForm
  <2>2. PICK src : Drains(a, F, failed, src)
    BY <2>1
  <2>3. PICK b \in Actor : DrainsTo(a, F, failed, b)
    BY <2>2, DrainTasks
  <2> DEFINE R == {y \in F \union Drained(RepoOf[a[2]], failed) : status[y] # "absent"}
  <2>4. StagedAs(b, R) /\ Carries(b)' /\ Flushes(b)'
    BY <2>3 DEF DrainsTo, StagedAs
  <2>5. \A x \in Runs : status[x] # "absent" => status'[x] # "absent"
    BY <2>2 DEF Drains, RecordAndPop
  <2>6. R \in SUBSET Runs
    <3>1. RepoOf[a[2]] \in Repos
      BY RepoOfAssumption, ActorPairs
    <3>2. Drained(RepoOf[a[2]], failed) \subseteq Pending(RepoOf[a[2]])
      BY <3>1, QueueAfterFacts DEF Types
    <3> QED
      BY <3>1, <3>2 DEF Pending, ToSet, Types, RegistryTypeOK
  <2>7. \A x \in Runs : /\ task[x] \in {"popped", "flush", "dispatched"} => task'[x] = task[x]
                        /\ task'[x] = "dispatched" => task[x] = "dispatched"
                        /\ ender[x] = "flush" => ender'[x] = "flush"
                        /\ client'[x] = client[x]
    BY <2>3 DEF DrainsTo
  <2>8. (\A c \in Actor : Carries(c) => Carries(c)') /\ Stayers(b)
    BY <2>7, CarriersStay DEF Stayers
  <2>9. \A x \in R : status'[x] # "absent"
    BY <2>5, <2>6
  <2> HIDE DEF R
  <2> QED
    BY <2>4, <2>5, <2>6, <2>8, <2>9, StagedElsewhere
<1> QED
  BY <1>1, <1>2, <1>3, <1>4, <1>5

(* The steps that write something staged.                                  *)
LEMMA FlushersKeepStaged ==
  ASSUME Types, StagedInv, NEW r \in Runs,
         \/ RemoveFlushStatus(r) \/ DetachFlush(r) \/ DispatchFlush(r) \/ TaskFlushStatus(r)
         \/ HeartbeatFlush(r)
  PROVE  StagedInv'
<1>0. /\ DOMAIN task = Runs /\ DOMAIN client = Runs
      /\ <<"task", r>> \in Actor /\ <<"client", r>> \in Actor /\ <<"end", r>> \in Actor
      /\ <<"heartbeat", r>> \in Actor
  BY Actors DEF Types, ActorTypeOK
<1>1. UNCHANGED status
  BY DEF RemoveFlushStatus, DetachFlush, DispatchFlush, TaskFlushStatus, HeartbeatFlush, registryVars
<1>2. CASE RemoveFlushStatus(r) \/ TaskFlushStatus(r) \/ HeartbeatFlush(r)
  <2>1. UNCHANGED <<task, ender, client>>
    BY <1>2 DEF RemoveFlushStatus, TaskFlushStatus, HeartbeatFlush, actorVars
  <2>2. (\A a \in Actor : Carries(a) => Carries(a)') /\ Stayers(<<>>)
    BY <2>1, CarriersStay DEF Stayers
  <2>3. \E b \in Actor : FlushStatus(b)
    BY <1>0, <1>2 DEF RemoveFlushStatus, TaskFlushStatus, HeartbeatFlush
  <2> QED
    BY <1>1, <2>2, <2>3, StagedFlushed
<1>3. CASE DetachFlush(r)
  <2>1. /\ FlushStatus(<<"client", r>>) /\ client[r] = "detach"
        /\ \A x \in Runs : client'[x] = IF x = r THEN "none" ELSE client[x]
        /\ UNCHANGED <<task, ender>>
    BY <1>0, <1>3 DEF DetachFlush, SetClient
  <2>2. /\ Stayers(<<>>)
        /\ \A a \in Actor : Carries(a) => Carries(a)' \/ (a = <<"client", r>> /\ OneWrite(a))
    BY <2>1, ActorPairs DEF Stayers, Carries, StagedInv
  <2> QED
    BY <1>0, <1>1, <2>1, <2>2, StagedFlushed
<1>4. CASE DispatchFlush(r)
  <2>1. /\ FlushStatus(<<"task", r>>) /\ task[r] = "dispatched"
        /\ \A x \in Runs : task'[x] = IF x = r THEN "none" ELSE task[x]
        /\ UNCHANGED <<client, ender>>
    BY <1>0, <1>4 DEF DispatchFlush, SetTask
  <2>2. /\ Stayers(<<>>)
        /\ \A a \in Actor : Carries(a) => Carries(a)' \/ (a = <<"task", r>> /\ OneWrite(a))
    BY <2>1, ActorPairs DEF Stayers, Carries, StagedInv
  <2> QED
    BY <1>0, <1>1, <2>1, <2>2, StagedFlushed
<1> QED
  BY <1>2, <1>3, <1>4

(* The other steps of a run's actors.                                      *)
LEMMA OthersKeepStaged ==
  ASSUME Types, StagedInv, NEW r \in Runs,
         \/ SubmitDirect(r) \/ SubmitQueued(r) \/ EnqueueFlush(r) \/ EnqueueMeta(r)
         \/ RemoveEnds(r) \/ Promote(r) \/ SpawnSession(r) \/ TaskFlushQueue(r)
         \/ Complete(r) \/ Reap(r) \/ StopKill(r) \/ StopMark(r) \/ EndFlushQueue(r)
         \/ HeartbeatComplete(r) \/ Recover(r) \/ SessionDies(r)
  PROVE  StagedInv'
<1>0. /\ DOMAIN task = Runs /\ DOMAIN client = Runs /\ DOMAIN ender = Runs
      /\ \A a \in Actor : \A w \in staged[a] : w.run \in Runs
  BY DEF Types, ActorTypeOK, Staged
<1>1. UNCHANGED staged /\ \A x \in Runs : status[x] # "absent" => status'[x] # "absent"
  BY DEF SubmitDirect, RegisterRun, SubmitQueued, EnqueueRun, EnqueueFlush, EnqueueMeta,
     RemoveEnds, Promote, PromoteQueued, SpawnSession, TaskFlushQueue, Complete, Reap,
     StopKill, StopMark, EndFlushQueue, HeartbeatComplete, Recover, SessionDies,
     StageStatus, StatusAfter, memoryVars, registryVars
<1>2. /\ \A x \in Runs \ {r} : task'[x] = task[x] /\ ender'[x] = ender[x] /\ client'[x] = client[x]
      /\ task'[r] # "dispatched" \/ task'[r] = task[r]
      /\ client'[r] # "detach" \/ client'[r] = client[r]
  BY <1>0 DEF SubmitDirect, SubmitQueued, EnqueueFlush, EnqueueMeta,
     RemoveEnds, Promote, SpawnSession, TaskFlushQueue, Complete, Reap,
     StopKill, StopMark, EndFlushQueue, HeartbeatComplete, Recover, SessionDies,
     SetTask, SetEnder, SetSubmit, SetClient, memoryVars, actorVars
<1>3. /\ task[r] \in {"dispatched", "popped", "flush"}
           => task'[r] = task[r] \/ staged[<<"task", r>>] = {}
      /\ ender[r] = "flush" => ender'[r] = "flush" \/ staged[<<"end", r>>] = {}
      /\ client[r] \in {"dequeue", "detach"}
           => client'[r] = client[r] \/ staged[<<"client", r>>] = {}
  BY <1>0 DEF SubmitDirect, Fresh, SubmitQueued, EnqueueFlush, EnqueueMeta,
     RemoveEnds, Promote, SpawnSession, TaskFlushQueue, Complete, Reap,
     StopKill, StopMark, EndFlushQueue, HeartbeatComplete, Recover, SessionDies,
     SetTask, SetEnder, SetSubmit, SetClient, memoryVars, actorVars
<1>4. \A a \in Actor : Carries(a) => Carries(a)' \/ staged[a] = {}
  <2> SUFFICES ASSUME NEW a \in Actor, Carries(a) PROVE Carries(a)' \/ staged[a] = {}
    OBVIOUS
  <2>1. a = <<a[1], a[2]>> /\ a[2] \in Runs
    BY ActorPairs
  <2>2. CASE a[2] = r
    BY <1>3, <2>1, <2>2 DEF Carries
  <2>3. CASE a[2] # r
    BY <1>2, <2>1, <2>3 DEF Carries
  <2> QED
    BY <2>2, <2>3
<1>5. Stayers(<<>>)
  BY <1>2 DEF Stayers
<1> QED
  BY <1>0, <1>1, <1>4, <1>5, StagedSame

(* Nothing is staged while the daemon starts.                              *)
LEMMA NothingStaged ==
  ASSUME BootInv', ~Up'
  PROVE  StagedInv'
BY Actors DEF BootInv, BootIsAlone, StagedInv, OneWrite

(* Every step, as far as the staged writes go.                             *)
LEMMA NextKeepsStaged ==
  ASSUME Types, FilesInv, StagedInv, BootInv, BootInv', Next
  PROVE  StagedInv'
<1>1. ASSUME NEW r \in Runs, Request(r) \/ ClientStep(r) \/ RunStep(r) \/ SessionDies(r)
      PROVE  StagedInv'
  BY <1>1, StagersKeepStaged, FlushersKeepStaged, OthersKeepStaged
     DEF Request, ClientStep, RunStep, SpawnStep, EndStep, HeartbeatStep
<1>2. CASE FlushBegins
  <2>1. UNCHANGED <<staged, status, task, ender, client>>
    BY <1>2 DEF FlushBegins, memoryVars, registryVars, actorVars
  <2> QED
    BY <2>1 DEF StagedInv, Carries, OneWrite
<1>3. CASE Start
  <2>1. UNCHANGED <<staged, task, client>> /\ ~Up
    BY <1>3 DEF Start, Up, memoryVars, actorVars
  <2> QED
    BY <2>1, Actors DEF BootInv, BootIsAlone, StagedInv, OneWrite
<1>4. CASE Crash
  BY <1>4, NothingStaged DEF Crash, Boot, Up
<1>5. CASE Reconcile /\ ~Start
  <2>1. boot \in BootType
    BY DEF Types, OtherTypeOK
  <2>2. ASSUME Load \/ SessionsDone \/ StaleDone PROVE ~Up'
    <3>1. CASE Load
      BY <3>1 DEF Load, Boot, Up
    <3>2. CASE SessionsDone
      <4>1. boot'.pc = "stale"
        BY <2>1, <3>2 DEF SessionsDone, BootType
      <4> QED
        BY <4>1 DEF Up
    <3>3. CASE StaleDone
      <4>1. boot'.pc = "pending"
        BY <2>1, <3>3 DEF StaleDone, BootType
      <4> QED
        BY <4>1 DEF Up
    <3> QED
      BY <2>2, <3>1, <3>2, <3>3
  <2>3. ASSUME NEW r \in Runs,
               \/ ReconcileSession(r) \/ ResumeStale(r) \/ FailStale(r)
               \/ KeepPending(r) \/ DropPending(r) \/ FailDropped(r)
        PROVE  ~Up'
    <3>1. ~Up
      BY <2>3 DEF ReconcileSession, ResumeStale, FailStale, KeepPending, DropPending,
         FailDropped, Up, BootInv
    <3>2. boot'.pc = boot.pc
      BY <2>1, <2>3 DEF ReconcileSession, ResumeStale, FailStale, KeepPending, DropPending,
         FailDropped, BootType
    <3> QED
      BY <3>1, <3>2 DEF Up
  <2>4. ~Up'
    BY <1>5, <2>2, <2>3 DEF Reconcile
  <2> QED
    BY <2>4, NothingStaged
<1> QED
  BY <1>1, <1>2, <1>3, <1>4, <1>5 DEF Next

(* The types, the files, the staged writes and the start-up, together.     *)
DurableInv == Types /\ FilesInv /\ StagedInv /\ BootInv

(* A fresh daemon has nothing in memory and nothing on disk.               *)
LEMMA InitDurable == Init => DurableInv
<1> SUFFICES ASSUME Init PROVE DurableInv
  OBVIOUS
<1>1. Types
  BY InitTypes
<1>2. /\ snaps = <<>> /\ renames = {} /\ ~raced /\ queue = [p \in Repos |-> <<>>]
      /\ queueFile = EmptyWire /\ tracked = EmptyWire
      /\ \A r \in Runs : /\ task[r] = "none" /\ submit[r] = "none" /\ client[r] = "none"
                         /\ status[r] = "absent" /\ meta[r] = NoEntry
      /\ \A a \in Actor : staged[a] = {}
  BY DEF Init, InitMemory, InitRegistry, Idle
<1>3. \A r \in Runs : ~IsPending(r)
  BY <1>2, EmptyQueue DEF IsPending, Pending
<1>4. queueFile \in Wire /\ queueFile.queues = queue /\ Sound(queue)
  BY <1>1, <1>2, EmptyQueue DEF Types, QueueTypeOK, EmptyWire, QueueWire, Sound
<1>5. \A r \in Runs : queueFile \notin Holding(r)
  BY <1>3, <1>4, RepoOfAssumption DEF Holding, IsPending, Pending
<1>6. Agreement
  BY <1>2, <1>3, <1>4, <1>5 DEF Agreement, SoundFiles
<1>7. FilesInv
  BY <1>6, AgreementSuffices
<1>8. StagedInv
  BY <1>2, Actors DEF StagedInv, OneWrite
<1>9. BootInv
  BY DEF Init, Boot, BootInv, BootIsAlone, Up
<1> QED
  BY <1>1, <1>7, <1>8, <1>9 DEF DurableInv

(* Every step keeps them.                                                  *)
LEMMA NextDurable == DurableInv /\ [Next]_vars => DurableInv'
<1>1. CASE UNCHANGED vars
  <2> SUFFICES ASSUME DurableInv PROVE DurableInv'
    BY <1>1
  <2>0. UNCHANGED <<registryVars, restartable, task, ender, submit, client, staged, snaps,
                    tracked, renames, queueFile, raced, meta, overtaken, strays, boot,
                    crashes, alive>>
    BY <1>1 DEF vars, memoryVars, actorVars, queueVars, metaVars
  <2>1. Types'
    BY <1>1, NextTypes DEF DurableInv
  <2>2. FilesInv'
    <3>1. /\ \A Q : Everywhere(Q)' = Everywhere(Q)
          /\ \A c : Mine(c)' = Mine(c)
      BY <2>0 DEF Everywhere, Mine
    <3>2. \A c, Q : Since(c, Q)' = Since(c, Q)
      BY <2>0, <3>1 DEF Since
    <3>3. \A r \in Runs : IsPending(r)' = IsPending(r) /\ HasRun(r)' = HasRun(r)
      BY <2>0 DEF IsPending, Pending, HasRun, Going, SaysRunning, registryVars
    <3>4. Sound(queue)' /\ SoundDisk' /\ RaceInv'
      BY <2>0 DEF DurableInv, FilesInv, Sound, SoundDisk, RaceInv, registryVars
    <3>5. Carriers'
      BY <2>0, <3>1 DEF DurableInv, FilesInv, Carriers, OneEach, Flushes
    <3>6. RunnersAreOut' /\ PendingIsSaved'
      BY <2>0, <3>1, <3>2, <3>3 DEF DurableInv, FilesInv, RunnersAreOut, PendingIsSaved, Saved
    <3> QED
      BY <3>4, <3>5, <3>6 DEF FilesInv
  <2>3. StagedInv' /\ BootInv'
    BY <2>0 DEF DurableInv, StagedInv, Carries, OneWrite, BootInv, BootIsAlone, Up,
       IsPending, Pending, registryVars
  <2> QED
    BY <2>1, <2>2, <2>3 DEF DurableInv
<1>2. CASE Next
  <2> SUFFICES ASSUME DurableInv PROVE DurableInv'
    BY <1>2
  <2>1. Types /\ FilesInv /\ StagedInv /\ BootInv
    BY DEF DurableInv
  <2>2. Types' /\ BootInv'
    BY <1>2, <2>1, NextTypes, NextKeepsBoot
  <2>3. FilesInv' /\ StagedInv'
    BY <1>2, <2>1, <2>2, NextKeepsFiles, NextKeepsStaged
  <2> QED
    BY <2>2, <2>3 DEF DurableInv
<1> QED
  BY <1>1, <1>2

(* They always hold.                                                       *)
LEMMA AlwaysDurable == Spec => []DurableInv
BY InitDurable, NextDurable, PTL DEF Spec

(* A Running run waits nowhere, in memory or in the file of the tracker,   *)
(* and nobody waits twice: no restart finds a run both in meta.json as     *)
(* Running and in queue.json (executor.rs:197), unless flushes of          *)
(* queue.json race (registry.rs:1482-1504), or a crash amid such a race    *)
(* has misplaced the run.                                                  *)
THEOREM NobodyQueuedTwice == Spec => []NotQueuedTwice
<1>1. DurableInv => NotQueuedTwice
  <2> SUFFICES ASSUME DurableInv, NEW r \in Runs
               PROVE  /\ \A p \in Repos \ {RepoOf[r]} : r \notin Pending(p)
                      /\ \A i, j \in DOMAIN queue[RepoOf[r]] :
                            queue[RepoOf[r]][i] = r /\ queue[RepoOf[r]][j] = r => i = j
                      /\ status[r] = "Running" /\ r \notin strays => ~IsPending(r)
                      /\ meta[r].status = "Running" /\ r \notin strays
                            => /\ r \notin Range(tracked.queues[RepoOf[r]])
                               /\ raced \/ r \notin Range(queueFile.queues[RepoOf[r]])
    BY DEF NotQueuedTwice
  <2>1. RepoOf[r] \in Repos
    BY RepoOfAssumption
  <2>2. r \notin strays /\ HasRun(r) => ~IsPending(r) /\ Everywhere(Without(r))
    BY DEF DurableInv, FilesInv, RunnersAreOut
  <2>3. status[r] = "Running" \/ meta[r].status = "Running" => HasRun(r)
    BY DEF HasRun, Going, SaysRunning
  <2>4. Everywhere(Without(r)) => /\ r \notin Range(tracked.queues[RepoOf[r]])
                                  /\ raced \/ r \notin Range(queueFile.queues[RepoOf[r]])
    BY DEF Everywhere, Without, Holding, ToSet, Range
  <2>5. Sound(queue)
    BY DEF DurableInv, FilesInv
  <2> QED
    BY <2>1, <2>2, <2>3, <2>4, <2>5 DEF Sound, Distinct, Pending
<1> QED
  BY <1>1, AlwaysDurable, PTL

----------------------------------------------------------------------------
(* What the disk says of a run, or will say when all that is staged is     *)
(* written.                                                                *)

Remembered(r) == [status |-> status[r], tmux |-> r \in tmux,
                  restartable |-> r \in restartable]

UnderWay(r) == \E a \in Actor : \E w \in staged[a] : w.run = r

IsRecorded ==
    \A r \in Runs : /\ submit[r] # "none" => status[r] # "absent"
                    /\ status[r] # "absent" /\ submit[r] = "none"
                          => meta[r].status # "absent"

(* Of a run nobody has a write of under way, the disk says what memory     *)
(* says, save where a late write has come last.                            *)
IsCurrent ==
    \A r \in Runs \ overtaken :
        status[r] # "absent" /\ submit[r] = "none" /\ ~UnderWay(r)
           => meta[r] = Remembered(r)

RecordsInv == IsRecorded /\ IsCurrent

(* Neither an entry nor its meta.json changes.                             *)
LEMMA KeepsRecords ==
  ASSUME RecordsInv, UNCHANGED <<status, tmux, restartable, submit, staged, meta, overtaken>>
  PROVE  RecordsInv'
BY DEF RecordsInv, IsRecorded, IsCurrent, UnderWay, Remembered

(* What a step that is not about x leaves alone.                           *)
SameEntry(x) == /\ status'[x] = status[x]
                /\ x \in tmux' <=> x \in tmux
                /\ x \in restartable' <=> x \in restartable

(* update_status, register_run, promote_queued: the entry and meta.json in *)
(* one critical section.                                                   *)
LEMMA WriteKeepsRecords ==
  ASSUME Types, RecordsInv, NEW r \in Runs, WriteMeta(r), UNCHANGED <<staged, submit>>,
         status'[r] # "absent", \A x \in Runs \ {r} : SameEntry(x)
  PROVE  RecordsInv'
<1>1. /\ \A x \in Runs : meta'[x] = IF x = r THEN EntryAfter(r) ELSE meta[x]
      /\ overtaken' = overtaken \ {r}
  BY DEF WriteMeta, Types, MetaTypeOK
<1>2. EntryAfter(r) = Remembered(r)' /\ EntryAfter(r).status = status'[r]
  BY DEF EntryAfter, Remembered
<1>3. \A x \in Runs : UnderWay(x)' = UnderWay(x)
  BY DEF UnderWay
<1>4. \A x \in Runs \ {r} : Remembered(x)' = Remembered(x) /\ status'[x] = status[x]
  BY DEF Remembered, SameEntry
<1>5. IsRecorded'
  BY <1>1, <1>2, <1>4 DEF RecordsInv, IsRecorded
<1>6. IsCurrent'
  BY <1>1, <1>2, <1>3, <1>4 DEF RecordsInv, IsCurrent
<1> QED
  BY <1>5, <1>6 DEF RecordsInv

(* stage_status and stage_status_locked: the write is left to the actor.   *)
LEMMA StageKeepsRecords ==
  ASSUME Types, RecordsInv, NEW b \in Actor, staged[b] = {}, NEW R \in SUBSET Runs,
         StagedAs(b, R), UNCHANGED <<submit, meta, overtaken>>,
         \A x \in Runs : \/ x \in R /\ status[x] # "absent" /\ status'[x] # "absent"
                         \/ SameEntry(x)
  PROVE  RecordsInv'
<1> DEFINE W == {[run |-> r, entry |-> EntryAfter(r)] : r \in R}
<1>1. \A a \in Actor : staged'[a] = IF a = b THEN W ELSE staged[a]
  BY DEF StagedAs, Types, Staged
<1>2. ASSUME NEW x \in R PROVE UnderWay(x)'
  <2>1. [run |-> x, entry |-> EntryAfter(x)] \in staged'[b]
    BY <1>1
  <2> QED
    BY <2>1 DEF UnderWay
<1>3. \A x \in Runs : UnderWay(x) => UnderWay(x)'
  BY <1>1 DEF UnderWay
<1>4. \A x \in Runs \ R : Remembered(x)' = Remembered(x) /\ status'[x] = status[x]
  BY DEF Remembered, SameEntry
<1>5. IsRecorded'
  BY DEF RecordsInv, IsRecorded, SameEntry
<1>6. IsCurrent'
  BY <1>2, <1>3, <1>4 DEF RecordsInv, IsCurrent
<1> QED
  BY <1>5, <1>6 DEF RecordsInv

(* A write that comes late is either what memory says, or is counted.      *)
LEMMA LateWrite ==
  ASSUME Types, RecordsInv, NEW r \in Runs, NEW e, WriteLate(r, e), e.status # "absent",
         UNCHANGED <<status, tmux, restartable>>,
         \A x \in Runs \ {r} : /\ submit'[x] = submit[x]
                               /\ UnderWay(x) => UnderWay(x)',
         submit'[r] # "none" => submit[r] # "none"
  PROVE  RecordsInv'
<1>1. /\ \A x \in Runs : meta'[x] = IF x = r THEN e ELSE meta[x]
      /\ \A x \in Runs \ {r} : x \in overtaken' <=> x \in overtaken
      /\ r \in overtaken' \/ e = Remembered(r)
  BY DEF WriteLate, Types, MetaTypeOK, Remembered
<1>2. \A x \in Runs : Remembered(x)' = Remembered(x)
  BY DEF Remembered
<1>3. IsRecorded'
  BY <1>1 DEF RecordsInv, IsRecorded
<1>4. IsCurrent'
  BY <1>1, <1>2 DEF RecordsInv, IsCurrent
<1> QED
  BY <1>3, <1>4 DEF RecordsInv

(* flush_status.                                                           *)
LEMMA FlushKeepsRecords ==
  ASSUME Types, StagedInv, RecordsInv, NEW b \in Actor, FlushStatus(b),
         UNCHANGED <<status, tmux, restartable, submit>>
  PROVE  RecordsInv'
<1>1. PICK v \in staged[b] : /\ WriteLate(v.run, v.entry)
                             /\ staged' = [staged EXCEPT ![b] = @ \ {v}]
  BY DEF FlushStatus
<1>2. v.run \in Runs /\ v.entry.status # "absent"
  BY DEF Types, Staged, StagedInv
<1>3. \A a \in Actor : staged'[a] = IF a = b THEN staged[b] \ {v} ELSE staged[a]
  BY <1>1 DEF Types, Staged
<1>4. \A x \in Runs : x # v.run => (UnderWay(x) => UnderWay(x)')
  BY <1>3 DEF UnderWay
<1> QED
  BY <1>1, <1>2, <1>4, LateWrite

(* The steps of a run's actors.                                            *)
LEMMA StepsKeepRecords ==
  ASSUME DurableInv, RecordsInv, NEW r \in Runs,
         Request(r) \/ ClientStep(r) \/ RunStep(r) \/ SessionDies(r)
  PROVE  RecordsInv'
<1>0. /\ Types /\ FilesInv /\ StagedInv /\ DOMAIN submit = Runs
      /\ <<"task", r>> \in Actor /\ <<"client", r>> \in Actor /\ <<"end", r>> \in Actor
      /\ <<"heartbeat", r>> \in Actor
  BY Actors DEF DurableInv, Types, ActorTypeOK
<1>1. ASSUME NEW to, status' = StatusAfter({r}, to), to # "absent", WriteMeta(r),
             UNCHANGED <<staged, submit>>,
             \A x \in Runs \ {r} : /\ x \in tmux' <=> x \in tmux
                                   /\ x \in restartable' <=> x \in restartable
      PROVE  RecordsInv'
  <2>1. status'[r] # "absent" /\ \A x \in Runs \ {r} : SameEntry(x)
    BY <1>1 DEF SameEntry, StatusAfter
  <2> QED
    BY <1>0, <1>1, <2>1, WriteKeepsRecords
<1>2. ASSUME NEW a \in Actor, staged[a] = {}, NEW to, status' = StatusAfter({r}, to),
             to # "absent", status[r] # "absent", UNCHANGED <<submit, meta, overtaken>>,
             staged' = [staged EXCEPT ![a] = {[run |-> r, entry |-> EntryAfter(r)]}],
             \A x \in Runs \ {r} : /\ x \in tmux' <=> x \in tmux
                                   /\ x \in restartable' <=> x \in restartable
      PROVE  RecordsInv'
  <2> DEFINE R == {r}
  <2>1. StagedAs(a, R)
    BY <1>2 DEF StagedAs
  <2>2. \A x \in Runs : \/ x \in R /\ status[x] # "absent" /\ status'[x] # "absent"
                        \/ SameEntry(x)
    BY <1>2 DEF SameEntry, StatusAfter
  <2>3. R \in SUBSET Runs
    OBVIOUS
  <2> HIDE DEF R
  <2> QED
    BY <1>0, <1>2, <2>1, <2>2, <2>3, StageKeepsRecords
<1>3. CASE SubmitDirect(r) \/ Complete(r) \/ StopMark(r) \/ HeartbeatComplete(r)
  <2>1. /\ WriteMeta(r) /\ UNCHANGED <<staged, submit, tmux>>
        /\ \E to \in {"Queued", "Succeeded", "Stopped"} : status' = StatusAfter({r}, to)
        /\ restartable' \in {restartable, restartable \union {r}}
    BY <1>3 DEF SubmitDirect, RegisterRun, Complete, StopMark, HeartbeatComplete, StageStatus,
       SetTask, SetEnder, actorVars
  <2> QED
    BY <1>1, <2>1
<1>4. CASE Promote(r)
  <2>1. /\ WriteMeta(r) /\ UNCHANGED <<staged, submit, tmux, status>> /\ status[r] = "Queued"
        /\ restartable' = restartable \union {r}
    BY <1>4 DEF Promote, PromoteQueued, CanPromote, SetTask
  <2>2. \A x \in Runs \ {r} : SameEntry(x)
    BY <2>1 DEF SameEntry
  <2> QED
    BY <1>0, <2>1, <2>2, WriteKeepsRecords
<1>5. CASE Detach(r) \/ Dispatch(r) \/ HeartbeatStage(r)
  <2>1. /\ UNCHANGED <<submit, meta, overtaken, restartable>> /\ tmux' \in {tmux, tmux \union {r}}
        /\ status[r] # "absent"
        /\ \E to \in {"Stopped", "Running"} : status' = StatusAfter({r}, to)
    BY <1>5 DEF Detach, Dispatch, HeartbeatStage, StageStatus, CanStage, SetTask, SetClient,
       actorVars, metaVars
  <2>2. \E a \in Actor : /\ staged[a] = {}
                         /\ staged' = [staged EXCEPT ![a] = {[run |-> r, entry |-> EntryAfter(r)]}]
    <3>1. Detach(r) => ~Carries(<<"client", r>>)
      BY DEF Detach, Carries
    <3>2. Dispatch(r) => ~Carries(<<"task", r>>)
      BY DEF Dispatch, Carries
    <3> QED
      BY <1>0, <1>5, <3>1, <3>2 DEF StagedInv, Detach, Dispatch, HeartbeatStage, HeartbeatIdle
  <2> QED
    BY <1>2, <2>1, <2>2
<1>6. CASE RemoveQueued(r)
  <2> DEFINE R == IF CanStage(r, "Stopped") THEN {r} ELSE {}
  <2>1. /\ UNCHANGED <<submit, meta, overtaken, tmux, restartable>>
        /\ TryStageStatus(r, "Stopped")
        /\ StagedAs(<<"client", r>>, R)
    BY <1>6 DEF RemoveQueued, SetClient, metaVars, StagedAs
  <2>2. \A x \in Runs : \/ x \in R /\ status[x] # "absent" /\ status'[x] # "absent"
                        \/ SameEntry(x)
    BY <2>1 DEF TryStageStatus, StageStatus, StatusAfter, CanStage, SameEntry
  <2>3. staged[<<"client", r>>] = {}
    BY <1>0, <1>6 DEF RemoveQueued, StagedInv, Carries
  <2>4. R \in SUBSET Runs
    OBVIOUS
  <2> HIDE DEF R
  <2> QED
    BY <1>0, <2>1, <2>2, <2>3, <2>4, StageKeepsRecords
<1>7. CASE SubmitQueued(r)
  <2>1. /\ UNCHANGED <<staged, meta, overtaken, tmux, restartable>>
        /\ status' = StatusAfter({r}, "Queued")
        /\ submit' = [submit EXCEPT ![r] = "enq_queue"]
    BY <1>7 DEF SubmitQueued, EnqueueRun, SetSubmit, metaVars
  <2>2. /\ submit'[r] = "enq_queue" /\ status'[r] = "Queued"
        /\ \A x \in Runs \ {r} : submit'[x] = submit[x] /\ SameEntry(x)
    BY <1>0, <2>1 DEF SameEntry, StatusAfter
  <2>3. \A x \in Runs : UnderWay(x)' = UnderWay(x)
    BY <2>1 DEF UnderWay
  <2>4. \A x \in Runs \ {r} : Remembered(x)' = Remembered(x)
    BY <2>2 DEF Remembered, SameEntry
  <2> QED
    BY <2>1, <2>2, <2>3, <2>4 DEF RecordsInv, IsRecorded, IsCurrent, SameEntry
<1>8. CASE EnqueueFlush(r)
  <2>1. /\ UNCHANGED <<status, tmux, restartable, staged, meta, overtaken>>
        /\ submit' = [submit EXCEPT ![r] = "enq_meta"] /\ submit[r] = "enq_queue"
    BY <1>8 DEF EnqueueFlush, SetSubmit, registryVars, metaVars
  <2>2. \A x \in Runs : submit'[x] = IF x = r THEN "enq_meta" ELSE submit[x]
    BY <1>0, <2>1
  <2> QED
    BY <2>1, <2>2 DEF RecordsInv, IsRecorded, IsCurrent, UnderWay, Remembered
<1>9. CASE EnqueueMeta(r)
  <2>1. /\ UNCHANGED <<status, tmux, restartable, staged>>
        /\ WriteLate(r, SubmittedEntry)
        /\ submit' = [submit EXCEPT ![r] = "none"]
    BY <1>9 DEF EnqueueMeta, SetSubmit, registryVars, SubmittedEntry
  <2>2. \A x \in Runs : submit'[x] = IF x = r THEN "none" ELSE submit[x]
    BY <1>0, <2>1
  <2>3. SubmittedEntry.status # "absent" /\ \A x \in Runs : UnderWay(x) => UnderWay(x)'
    BY <2>1 DEF SubmittedEntry, NoEntry, UnderWay
  <2> QED
    BY <1>0, <2>1, <2>2, <2>3, LateWrite
<1>10. CASE \/ RemoveFlushStatus(r) \/ DetachFlush(r) \/ DispatchFlush(r) \/ TaskFlushStatus(r)
            \/ HeartbeatFlush(r)
  <2>1. UNCHANGED <<status, tmux, restartable, submit>>
    BY <1>10 DEF RemoveFlushStatus, DetachFlush, DispatchFlush, TaskFlushStatus,
       HeartbeatFlush, registryVars, SetClient, SetTask, actorVars
  <2>2. \E b \in Actor : FlushStatus(b)
    BY <1>0, <1>10 DEF RemoveFlushStatus, DetachFlush, DispatchFlush, TaskFlushStatus,
       HeartbeatFlush
  <2> QED
    BY <1>0, <2>1, <2>2, FlushKeepsRecords
<1>11. CASE \/ RemoveEnds(r) \/ SpawnSession(r) \/ TaskFlushQueue(r) \/ EndFlushQueue(r)
            \/ Reap(r) \/ StopKill(r) \/ Recover(r) \/ SessionDies(r)
  <2>1. UNCHANGED <<status, tmux, restartable, submit, staged, meta, overtaken>>
    BY <1>11 DEF RemoveEnds, SpawnSession, TaskFlushQueue, EndFlushQueue, Reap, StopKill,
       Recover, SessionDies, memoryVars, registryVars, actorVars, metaVars, SetClient,
       SetTask, SetEnder
  <2> QED
    BY <2>1, KeepsRecords
<1>12. CASE DrainIfAvailable(r) \/ PromoteFails(r)
  <2>1. PICK a \in Actor, F \in SUBSET Runs, failed \in BOOLEAN : \E src : Drains(a, F, failed, src)
    BY <1>0, <1>12, DrainForm
  <2>2. PICK src : Drains(a, F, failed, src)
    BY <2>1
  <2>3. PICK b \in Actor : DrainsTo(a, F, failed, b)
    BY <1>0, <2>2, DrainTasks
  <2> DEFINE D == Drained(RepoOf[a[2]], failed)
             R == {y \in F \union D : status[y] # "absent"}
  <2>4. staged[b] = {} /\ StagedAs(b, R)
    BY <1>0, <2>3 DEF DrainsTo, StagedInv, StagedAs
  <2>5. /\ status' = [x \in Runs |-> IF x \in D /\ CanStage(x, "Stopped") THEN "Stopped"
                                     ELSE IF x \in F /\ CanStage(x, "Failed") THEN "Failed"
                                     ELSE status[x]]
        /\ UNCHANGED <<submit, meta, overtaken, tmux, restartable>>
    BY <2>2 DEF Drains, RecordAndPop, metaVars
  <2>6. R \in SUBSET Runs
    <3>1. RepoOf[a[2]] \in Repos
      BY RepoOfAssumption, ActorPairs
    <3>2. D \subseteq Pending(RepoOf[a[2]])
      BY <1>0, <3>1, QueueAfterFacts DEF Types
    <3> QED
      BY <1>0, <3>1, <3>2 DEF Pending, ToSet, Types, RegistryTypeOK
  <2>7. \A x \in Runs : \/ x \in R /\ status[x] # "absent" /\ status'[x] # "absent"
                        \/ SameEntry(x)
    BY <2>5 DEF CanStage, SameEntry
  <2> HIDE DEF R
  <2> QED
    BY <1>0, <2>4, <2>5, <2>6, <2>7, StageKeepsRecords
<1> QED
  BY <1>3, <1>4, <1>5, <1>6, <1>7, <1>8, <1>9, <1>10, <1>11, <1>12
     DEF Request, ClientStep, RunStep, SpawnStep, EndStep, HeartbeatStep

(* The reconciler writes as it marks; a crash forgets what it had not      *)
(* written, and load_from_disk believes what it had.                       *)
LEMMA BootKeepsRecords ==
  ASSUME DurableInv, RecordsInv, Crash \/ Reconcile
  PROVE  RecordsInv'
<1>0. Types /\ BootInv
  BY DEF DurableInv
<1>1. CASE Crash
  <2>1. \A x \in Runs : status'[x] = "absent" /\ submit'[x] = "none"
    BY <1>1 DEF Crash, Idle
  <2> QED
    BY <2>1 DEF RecordsInv, IsRecorded, IsCurrent
<1>2. CASE Load
  <2>1. \A x \in Runs : submit'[x] = "none"
    BY <1>0, <1>2 DEF Load, BootInv, BootIsAlone, Up, actorVars
  <2>2. /\ \A x \in Runs : status'[x] = meta[x].status
        /\ tmux' = {x \in Runs : meta[x].tmux} /\ restartable' = {x \in Runs : meta[x].restartable}
        /\ meta' = meta
    BY <1>2 DEF Load, metaVars
  <2>3. \A x \in Runs : Remembered(x)' = meta'[x]
    BY <1>0, <2>2 DEF Remembered, Types, MetaTypeOK, Entry
  <2> QED
    BY <2>1, <2>2, <2>3 DEF RecordsInv, IsRecorded, IsCurrent
<1>3. CASE \/ SessionsDone \/ StaleDone \/ Start
           \/ \E r \in Runs : ReconcileSession(r) \/ KeepPending(r) \/ DropPending(r)
  <2>1. UNCHANGED <<status, tmux, restartable, submit, staged, meta, overtaken>>
    BY <1>3 DEF SessionsDone, StaleDone, Start, ReconcileSession, KeepPending, DropPending,
         registryVars, memoryVars, actorVars, metaVars
  <2> QED
    BY <2>1, KeepsRecords
<1>4. ASSUME NEW r \in Runs, NEW to, status' = StatusAfter({r}, to), to # "absent",
             WriteMeta(r), UNCHANGED <<staged, submit, restartable>>,
             tmux' \in {tmux, tmux \union {r}}
      PROVE  RecordsInv'
  <2>1. status'[r] # "absent" /\ \A x \in Runs \ {r} : SameEntry(x)
    BY <1>4 DEF SameEntry, StatusAfter
  <2> QED
    BY <1>0, <1>4, <2>1, WriteKeepsRecords
<1>5. ASSUME NEW r \in Runs, ResumeStale(r) \/ FailStale(r)
      PROVE  RecordsInv'
  <2>1. /\ WriteMeta(r) /\ UNCHANGED <<staged, submit, restartable>>
        /\ tmux' \in {tmux, tmux \union {r}}
        /\ \E to \in {"Running", "Failed"} : status' = StatusAfter({r}, to)
    BY <1>5 DEF ResumeStale, FailStale, StageStatus, actorVars
  <2> QED
    BY <1>4, <2>1
<1>6. ASSUME NEW r \in Runs, FailDropped(r)
      PROVE  RecordsInv'
  <2>1. /\ UNCHANGED <<staged, submit, restartable, tmux>>
        /\ \/ WriteMeta(r) /\ status' = StatusAfter({r}, "Failed")
           \/ UNCHANGED <<meta, overtaken, status>>
    BY <1>6 DEF FailDropped, TryStageStatus, StageStatus, actorVars, metaVars
  <2>2. CASE WriteMeta(r) /\ status' = StatusAfter({r}, "Failed")
    BY <1>4, <2>1, <2>2
  <2>3. CASE UNCHANGED <<meta, overtaken, status>>
    BY <2>1, <2>3, KeepsRecords
  <2> QED
    BY <2>1, <2>2, <2>3
<1> QED
  BY <1>1, <1>2, <1>3, <1>5, <1>6 DEF Reconcile

(* Every entry is on disk or under way there, always.                      *)
LEMMA AlwaysRecorded == Spec => [](DurableInv /\ RecordsInv)
<1>1. Init => RecordsInv
  BY DEF Init, InitMemory, InitRegistry, Idle, RecordsInv, IsRecorded, IsCurrent
<1>2. DurableInv /\ RecordsInv /\ [Next]_vars => RecordsInv'
  <2> SUFFICES ASSUME DurableInv, RecordsInv, [Next]_vars PROVE RecordsInv'
    OBVIOUS
  <2>1. CASE UNCHANGED vars
    BY <2>1, KeepsRecords DEF vars, memoryVars, registryVars, actorVars, metaVars
  <2>2. CASE FlushBegins
    BY <2>2, KeepsRecords DEF FlushBegins, memoryVars, registryVars, actorVars, metaVars
  <2> QED
    BY <2>1, <2>2, StepsKeepRecords, BootKeepsRecords DEF Next
<1> QED
  BY <1>1, <1>2, AlwaysDurable, PTL DEF Spec

(* A run that waits in the queue, and whose submission has been answered,  *)
(* has a meta.json and is in the file the tracker stands for; and in       *)
(* queue.json, unless the flushes of other actors have raced: so it        *)
(* survives a crash (server.rs:551, registry.rs:1482-1504).                *)
THEOREM QueueSurvivesCrash == Spec => []QueuedSurvives
<1>1. DurableInv /\ RecordsInv => QueuedSurvives
  <2> SUFFICES ASSUME DurableInv, RecordsInv, NEW r \in Runs,
                      IsPending(r), status[r] = "Queued", submit[r] = "none"
               PROVE  /\ meta[r] # NoEntry
                      /\ r \in Range(tracked.queues[RepoOf[r]])
                      /\ raced \/ r \in Range(queueFile.queues[RepoOf[r]])
    BY DEF QueuedSurvives
  <2>1. Everywhere(Holding(r))
    BY DEF DurableInv, FilesInv, PendingIsSaved, Saved
  <2>2. /\ r \in Range(tracked.queues[RepoOf[r]])
        /\ raced \/ r \in Range(queueFile.queues[RepoOf[r]])
    BY <2>1 DEF Everywhere, Holding, ToSet, Range
  <2>3. meta[r].status # "absent"
    BY DEF RecordsInv, IsRecorded
  <2> QED
    BY <2>2, <2>3 DEF NoEntry
<1> QED
  BY <1>1, AlwaysRecorded, PTL

(* Of a run that nobody works on any more, the disk holds what memory      *)
(* says: no restart puts a finished run back to Running, unless a write    *)
(* staged earlier came after the last one (flush_status, registry.rs:580). *)
THEOREM EndsAreDurable == Spec => []EndIsDurable
<1>1. RecordsInv => EndIsDurable
  BY DEF RecordsInv, IsCurrent, UnderWay, Remembered, EndIsDurable
<1> QED
  BY <1>1, AlwaysRecorded, PTL

(* A repository lock.  The run it stands for is Running, or on its way.    *)
Holds(r) == \/ status[r] = "Running"
            \/ status[r] = "Queued" /\ task[r] \in {"registered", "waiting"}

(* No lock is taken, and a run that stops holding releases its own.        *)
LEMMA LocksShrink ==
  ASSUME NoLockLeak, locks' \subseteq locks,
         \A x \in Runs : Holds(x) => Holds(x)' \/ RepoOf[x] \notin locks'
  PROVE  NoLockLeak'
BY DEF NoLockLeak, Holds

(* register_run and promote_queued take the lock of the run that holds it. *)
LEMMA LockTaken ==
  ASSUME NoLockLeak, NEW r \in Runs, locks' = locks \union {RepoOf[r]}, Holds(r)',
         \A x \in Runs : Holds(x) => Holds(x)'
  PROVE  NoLockLeak'
BY DEF NoLockLeak, Holds

(* Only tasks between registration and dispatch hold a lock without being  *)
(* Running; who is Running keeps the lock until the status is terminal.    *)
LEMMA RunStepKeepsLocks ==
  ASSUME DurableInv, NoLockLeak, NEW r \in Runs, RunStep(r) \/ SessionDies(r)
  PROVE  NoLockLeak'
<1>0. DOMAIN task = Runs /\ Types /\ FilesInv
  BY DEF DurableInv, Types, ActorTypeOK
<1>1. ASSUME UNCHANGED <<status, locks>>, NEW pc, SetTask(r, pc),
             pc \in {"registered", "waiting"} \/ task[r] \notin {"registered", "waiting"}
      PROVE  NoLockLeak'
  <2>1. \A x \in Runs : task'[x] = IF x = r THEN pc ELSE task[x]
    BY <1>0, <1>1 DEF SetTask
  <2> QED
    BY <1>1, <2>1, LocksShrink DEF Holds
<1>2. CASE SpawnSession(r) \/ DispatchFlush(r) \/ TaskFlushQueue(r)
  <2>1. /\ UNCHANGED <<status, locks>>
        /\ \E pc : /\ SetTask(r, pc)
                   /\ pc \in {"registered", "waiting"} \/ task[r] \notin {"registered", "waiting"}
    BY <1>2 DEF SpawnSession, DispatchFlush, TaskFlushQueue, registryVars
  <2> QED
    BY <1>1, <2>1
<1>3. CASE \/ TaskFlushStatus(r) \/ Reap(r) \/ StopKill(r)
           \/ EndFlushQueue(r) \/ HeartbeatFlush(r) \/ Recover(r) \/ SessionDies(r)
  <2>1. UNCHANGED <<status, locks, task>>
    BY <1>3 DEF TaskFlushStatus, Reap, StopKill, EndFlushQueue,
       HeartbeatFlush, Recover, SessionDies, SetEnder, registryVars, actorVars, memoryVars
  <2> QED
    BY <2>1, LocksShrink DEF Holds
<1>4. CASE Promote(r)
  <2>1. /\ status' = status /\ status[r] = "Queued" /\ locks' = locks \union {RepoOf[r]}
        /\ task' = [task EXCEPT ![r] = "registered"]
    BY <1>4 DEF Promote, PromoteQueued, CanPromote, SetTask
  <2>2. Holds(r)' /\ \A x \in Runs : Holds(x) => Holds(x)'
    BY <1>0, <2>1 DEF Holds
  <2> QED
    BY <2>1, <2>2, LockTaken
<1>5. CASE Dispatch(r) \/ HeartbeatStage(r)
  <2>1. /\ status' = StatusAfter({r}, "Running") /\ locks' = locks
        /\ \A x \in Runs \ {r} : task'[x] = task[x]
    BY <1>0, <1>5 DEF Dispatch, HeartbeatStage, StageStatus, SetTask, Terminal, actorVars
  <2>2. \A x \in Runs : Holds(x) => Holds(x)'
    BY <2>1 DEF Holds, StatusAfter
  <2> QED
    BY <2>1, <2>2, LocksShrink
<1>6. CASE Complete(r) \/ StopMark(r) \/ HeartbeatComplete(r)
  <2>1. /\ \E to \in {"Succeeded", "Stopped"} : status' = StatusAfter({r}, to)
        /\ locks' = locks \ {RepoOf[r]} /\ UNCHANGED task
    BY <1>6 DEF Complete, StopMark, HeartbeatComplete, StageStatus, SetEnder, Terminal,
       ReleasedBy, actorVars
  <2>2. \A x \in Runs : x # r /\ Holds(x) => Holds(x)'
    BY <2>1 DEF Holds, StatusAfter
  <2> QED
    BY <2>1, <2>2, LocksShrink
<1>7. CASE DrainIfAvailable(r) \/ PromoteFails(r)
  <2>1. PICK a \in Actor, F \in SUBSET Runs, failed \in BOOLEAN :
               \E src : Drains(a, F, failed, src)
    BY <1>0, <1>7, DrainForm
  <2>2. PICK src : Drains(a, F, failed, src)
    BY <2>1
  <2>3. PICK b \in Actor : DrainsTo(a, F, failed, b)
    BY <1>0, <2>2, DrainTasks
  <2> DEFINE drained == Drained(RepoOf[a[2]], failed)
             E == {x \in F : CanStage(x, "Failed")}
                     \union {x \in drained : CanStage(x, "Stopped")}
  <2>4. /\ status' = [x \in Runs |->
                        IF x \in drained /\ CanStage(x, "Stopped") THEN "Stopped"
                        ELSE IF x \in F /\ CanStage(x, "Failed") THEN "Failed"
                        ELSE status[x]]
        /\ locks' = locks \ ReleasedBy(E)
    BY <2>2 DEF Drains, RecordAndPop
  <2>5. \A x \in Runs \ E : status'[x] = status[x]
    BY <2>4
  <2> HIDE DEF drained, E
  <2>6. \A x \in Runs : task[x] \in {"registered", "waiting"} => task'[x] = task[x]
    BY <2>3 DEF DrainsTo
  <2>7. \A x \in Runs : Holds(x) => Holds(x)' \/ RepoOf[x] \notin locks'
    BY <2>4, <2>5, <2>6 DEF Holds, ReleasedBy
  <2> QED
    BY <2>4, <2>7, LocksShrink
<1> QED
  BY <1>2, <1>3, <1>4, <1>5, <1>6, <1>7 DEF RunStep, SpawnStep, EndStep, HeartbeatStep

(* The requests, the rest of their handlers, and the start-up.             *)
LEMMA OtherStepsKeepLocks ==
  ASSUME DurableInv, NoLockLeak,
         FlushBegins \/ Crash \/ Reconcile \/ \E r \in Runs : Request(r) \/ ClientStep(r)
  PROVE  NoLockLeak'
<1>0. DOMAIN task = Runs
  BY DEF DurableInv, Types, ActorTypeOK
<1>1. ASSUME UNCHANGED <<status, locks, task>> PROVE NoLockLeak'
  BY <1>1, LocksShrink DEF Holds
<1>2. ASSUME NEW r \in Runs, UNCHANGED task, NEW to \in Terminal,
             \/ UNCHANGED <<status, locks>>
             \/ status' = StatusAfter({r}, to) /\ locks' = locks \ {RepoOf[r]}
      PROVE  NoLockLeak'
  <2>1. CASE UNCHANGED <<status, locks>>
    BY <1>1, <1>2, <2>1
  <2>2. CASE status' = StatusAfter({r}, to) /\ locks' = locks \ {RepoOf[r]}
    <3>1. \A x \in Runs : x # r /\ Holds(x) => Holds(x)'
      BY <1>2, <2>2 DEF Holds, StatusAfter
    <3> QED
      BY <2>2, <3>1, LocksShrink
  <2> QED
    BY <1>2, <2>1, <2>2
<1>3. ASSUME NEW r \in Runs, Request(r) PROVE NoLockLeak'
  <2>1. CASE SubmitDirect(r)
    <3>1. /\ status' = StatusAfter({r}, "Queued") /\ locks' = locks \union {RepoOf[r]}
          /\ task' = [task EXCEPT ![r] = "registered"] /\ status[r] = "absent"
      BY <2>1 DEF SubmitDirect, RegisterRun, SetTask, Fresh
    <3>2. Holds(r)' /\ \A x \in Runs : Holds(x) => Holds(x)'
      BY <1>0, <3>1 DEF Holds, StatusAfter
    <3> QED
      BY <3>1, <3>2, LockTaken
  <2>2. CASE SubmitQueued(r)
    <3>1. /\ status' = StatusAfter({r}, "Queued") /\ UNCHANGED <<locks, task>>
          /\ status[r] = "absent"
      BY <2>2 DEF SubmitQueued, EnqueueRun, SetSubmit, Fresh
    <3>2. \A x \in Runs : Holds(x) => Holds(x)'
      BY <3>1 DEF Holds, StatusAfter
    <3> QED
      BY <3>1, <3>2, LocksShrink
  <2>3. CASE RemoveQueued(r) \/ Detach(r)
    <3>1. /\ UNCHANGED task /\ "Stopped" \in Terminal
          /\ \/ UNCHANGED <<status, locks>>
             \/ status' = StatusAfter({r}, "Stopped") /\ locks' = locks \ {RepoOf[r]}
      BY <2>3 DEF RemoveQueued, Detach, TryStageStatus, StageStatus, SetClient, Terminal,
         ReleasedBy
    <3> QED
      BY <1>2, <3>1
  <2> QED
    BY <1>3, <2>1, <2>2, <2>3 DEF Request
<1>4. ASSUME NEW r \in Runs, ClientStep(r) PROVE NoLockLeak'
  <2>1. UNCHANGED <<status, locks, task>>
    BY <1>4 DEF ClientStep, EnqueueFlush, EnqueueMeta, RemoveFlushStatus, RemoveEnds,
       DetachFlush, SetSubmit, SetClient, registryVars, actorVars
  <2> QED
    BY <1>1, <2>1
<1>5. CASE Crash
  BY <1>5 DEF Crash, NoLockLeak
<1>6. CASE Load
  <2>1. locks' = {RepoOf[r] : r \in {r \in Runs : status'[r] = "Running"}}
    BY <1>6 DEF Load, Relocked
  <2> QED
    BY <2>1 DEF NoLockLeak
<1>7. CASE \/ FlushBegins \/ SessionsDone \/ StaleDone \/ Start
           \/ \E r \in Runs : ReconcileSession(r) \/ KeepPending(r) \/ DropPending(r)
  <2>1. UNCHANGED <<status, locks, task>>
    BY <1>7 DEF FlushBegins, SessionsDone, StaleDone, Start, ReconcileSession, KeepPending,
       DropPending, registryVars, actorVars, memoryVars
  <2> QED
    BY <1>1, <2>1
<1>8. ASSUME NEW r \in Runs, FailStale(r) \/ FailDropped(r) PROVE NoLockLeak'
  <2>1. /\ UNCHANGED task /\ "Failed" \in Terminal
        /\ \/ UNCHANGED <<status, locks>>
           \/ status' = StatusAfter({r}, "Failed") /\ locks' = locks \ {RepoOf[r]}
    BY <1>8 DEF FailStale, FailDropped, TryStageStatus, StageStatus, Terminal, ReleasedBy,
       actorVars
  <2> QED
    BY <1>2, <2>1
<1>9. ASSUME NEW r \in Runs, ResumeStale(r) PROVE NoLockLeak'
  <2>1. status' = StatusAfter({r}, "Running") /\ UNCHANGED <<locks, task>>
    BY <1>9 DEF ResumeStale, StageStatus, Terminal, actorVars
  <2>2. \A x \in Runs : Holds(x) => Holds(x)'
    BY <2>1 DEF Holds, StatusAfter
  <2> QED
    BY <2>1, <2>2, LocksShrink
<1> QED
  BY <1>3, <1>4, <1>5, <1>6, <1>7, <1>8, <1>9 DEF Reconcile

(* No repository stays locked for ever: a held lock has a run that is      *)
(* Running or about to be, also after a restart (reconciler.rs:80).        *)
THEOREM LocksAreHeld == Spec => []NoLockLeak
<1>1. Init => NoLockLeak
  BY DEF Init, InitMemory, InitRegistry, NoLockLeak
<1>2. DurableInv /\ NoLockLeak /\ [Next]_vars => NoLockLeak'
  <2> SUFFICES ASSUME DurableInv, NoLockLeak, [Next]_vars PROVE NoLockLeak'
    OBVIOUS
  <2>1. CASE UNCHANGED vars
    BY <2>1, LocksShrink DEF vars, memoryVars, registryVars, actorVars, Holds
  <2> QED
    BY <2>1, RunStepKeepsLocks, OtherStepsKeepLocks DEF Next
<1> QED
  BY <1>1, <1>2, AlwaysDurable, PTL DEF Spec

----------------------------------------------------------------------------
(* No session is left over.  The reconciler kills the sessions of finished *)
(* runs first, and then finishes runs: those without a session, and those  *)
(* it finds in the queue.  That none of the latter has a session, but for  *)
(* the strays, is what the order of the writes is for: a run leaves the    *)
(* file of the tracker, and gets a meta.json, before its session starts,   *)
(* and a queue.json that is another file's makes the run a stray.          *)

(* A run that waits nowhere, in memory or on disk.                         *)
OutOf(r) == ~IsPending(r) /\ Everywhere(Without(r))

(* A run with a session, or about to get one.                              *)
Spawned(r) == \/ r \in alive
              \/ status[r] = "Running"
              \/ task[r] \in {"registered", "waiting"}

SessionsInv ==
    /\ \A r \in Runs : Spawned(r) => meta[r].status # "absent"
    /\ \A r \in alive \ strays : OutOf(r)

(* Who has a meta.json keeps one.                                          *)
LEMMA RecordsStay ==
  ASSUME DurableInv, Next, NEW x \in Runs, meta[x].status # "absent"
  PROVE  meta'[x].status # "absent"
<1>0. DOMAIN meta = Runs
  BY DEF DurableInv, Types, MetaTypeOK
<1>1. CASE UNCHANGED meta
  BY <1>1
<1>2. ASSUME NEW r \in Runs, WriteMeta(r), status'[r] # "absent"
      PROVE  meta'[x].status # "absent"
  BY <1>0, <1>2 DEF WriteMeta, EntryAfter
<1>3. ASSUME NEW r \in Runs, NEW e, WriteLate(r, e), e.status # "absent"
      PROVE  meta'[x].status # "absent"
  BY <1>0, <1>3 DEF WriteLate
<1>4. SubmittedEntry.status # "absent"
  BY DEF SubmittedEntry, NoEntry
<1>5. ASSUME NEW a \in Actor, FlushStatus(a) PROVE meta'[x].status # "absent"
  <2>1. PICK w \in staged[a] : WriteLate(w.run, w.entry)
    BY <1>5 DEF FlushStatus
  <2>2. w.entry.status # "absent" /\ w.run \in Runs
    BY <1>5, <2>1 DEF DurableInv, StagedInv, Types, Staged
  <2> QED
    BY <1>3, <2>1, <2>2
<1>6. MetaWritten
  BY HowMetaIsWritten
<1> QED
  BY <1>1, <1>2, <1>3, <1>4, <1>5, <1>6 DEF MetaWritten, metaVars

(* The only ways the files and the snapshots of them change.               *)
FilesWritten ==
    \/ UNCHANGED queueVars
    \/ \E b \in Actor : StageQueue(b) /\ UNCHANGED <<tracked, renames, queueFile, raced>>
    \/ \E b \in Actor : AdvanceQueue(b) \/ ReturnFromFlush(b)
    \/ Crash
    \/ \E r \in Runs : DropPending(r)

(* No action writes them in another way.                                   *)
LEMMA HowFilesAreWritten == DurableInv /\ Next => FilesWritten
<1> SUFFICES ASSUME DurableInv, Next PROVE FilesWritten
  OBVIOUS
<1>0. \A r \in Runs : /\ <<"client", r>> \in Actor /\ <<"task", r>> \in Actor
                      /\ <<"end", r>> \in Actor /\ <<"submit", r>> \in Actor
  BY Actors
<1>1. ASSUME NEW r \in Runs, Request(r) PROVE FilesWritten
  BY <1>0, <1>1 DEF Request, SubmitDirect, SubmitQueued, RemoveQueued, Detach, FilesWritten
<1>2. ASSUME NEW r \in Runs, ClientStep(r) PROVE FilesWritten
  BY <1>0, <1>2 DEF ClientStep, EnqueueFlush, EnqueueMeta, RemoveFlushStatus, RemoveEnds,
     DetachFlush, FilesWritten
<1>3. ASSUME NEW r \in Runs, DrainIfAvailable(r) \/ PromoteFails(r) PROVE FilesWritten
  <2>1. Types /\ FilesInv
    BY DEF DurableInv
  <2>2. PICK a \in Actor, F \in SUBSET Runs, failed \in BOOLEAN :
               \E src : Drains(a, F, failed, src)
    BY <1>3, <2>1, DrainForm
  <2>3. PICK src : Drains(a, F, failed, src)
    BY <2>2
  <2>4. PICK b \in Actor : DrainsTo(a, F, failed, b)
    BY <2>1, <2>3, DrainTasks
  <2>5. StageQueue(b) /\ UNCHANGED <<tracked, renames, queueFile, raced>>
    BY <2>3, <2>4 DEF DrainsTo, Drains, RecordAndPop
  <2> QED
    BY <2>5 DEF FilesWritten
<1>4. ASSUME NEW r \in Runs, SpawnStep(r) PROVE FilesWritten
  BY <1>0, <1>3, <1>4 DEF SpawnStep, Promote, SpawnSession, Dispatch, DispatchFlush,
     TaskFlushStatus, TaskFlushQueue, FilesWritten
<1>5. ASSUME NEW r \in Runs, EndStep(r) PROVE FilesWritten
  BY <1>0, <1>3, <1>5 DEF EndStep, Complete, Reap, StopKill, StopMark, EndFlushQueue, FilesWritten
<1>6. ASSUME NEW r \in Runs, HeartbeatStep(r) \/ SessionDies(r) PROVE FilesWritten
  BY <1>6 DEF HeartbeatStep, HeartbeatStage, HeartbeatFlush, HeartbeatComplete, Recover,
     SessionDies, FilesWritten
<1>7. ASSUME FlushBegins PROVE FilesWritten
  BY <1>7 DEF FlushBegins, FilesWritten
<1>8. ASSUME Reconcile PROVE FilesWritten
  BY <1>8 DEF Reconcile, Load, SessionsDone, StaleDone, Start, ReconcileSession,
     ResumeStale, FailStale, KeepPending, FailDropped, FilesWritten
<1>9. Crash => FilesWritten
  BY DEF FilesWritten
<1> QED
  BY <1>1, <1>2, <1>4, <1>5, <1>6, <1>7, <1>8, <1>9 DEF Next, RunStep

(* Strays stay strays.                                                     *)
LEMMA StraysStay == Next => strays \subseteq strays'
<1> SUFFICES ASSUME Next PROVE strays \subseteq strays'
  OBVIOUS
<1>1. ASSUME NEW r \in Runs, Request(r) \/ ClientStep(r) \/ SessionDies(r)
      PROVE  strays' = strays
  BY <1>1 DEF Request, SubmitDirect, SubmitQueued, RemoveQueued, Detach, ClientStep,
     EnqueueFlush, EnqueueMeta, RemoveFlushStatus, RemoveEnds, DetachFlush, SessionDies
<1>2. ASSUME NEW r \in Runs, RunStep(r) PROVE strays' = strays
  BY <1>2 DEF RunStep, SpawnStep, EndStep, HeartbeatStep, Promote, PromoteFails,
     SpawnSession, Dispatch, DispatchFlush, TaskFlushStatus, TaskFlushQueue, Complete, Reap,
     StopKill, StopMark, DrainIfAvailable, RecordAndPop, EndFlushQueue,
     HeartbeatStage, HeartbeatFlush, HeartbeatComplete, Recover
<1>3. CASE FlushBegins \/ Reconcile
  BY <1>3 DEF FlushBegins, Reconcile, Load, SessionsDone, StaleDone, Start,
     ReconcileSession, ResumeStale, FailStale, KeepPending, DropPending, FailDropped
<1>4. CASE Crash
  BY <1>4 DEF Crash
<1> QED
  BY <1>1, <1>2, <1>3, <1>4 DEF Next

(* Who waits nowhere is in none of the files either, after the step.       *)
LEMMA OutStays ==
  ASSUME DurableInv, DurableInv', Next, NEW x \in Runs, x \notin strays', OutOf(x),
         ~IsPending(x)'
  PROVE  OutOf(x)'
<1>0. /\ Types /\ snaps \in Seq(Snapshot) /\ RaceInv /\ Everywhere(Without(x))
      /\ queueFile \in Wire /\ tracked \in Wire
  BY DEF OutOf, DurableInv, Types, QueueTypeOK, FilesInv
<1>1. QueueWire(queue', fails') \in Without(x)
  <2>1. /\ queue' \in [Repos -> Seq(Runs)] /\ Sound(queue')
        /\ fails' \in [Repos -> 0..(MaxConsecutiveFailures - 1)]
    BY DEF DurableInv, Types, RegistryTypeOK, FilesInv, Sound
  <2>2. ~\E p \in Repos : x \in ToSet(queue'[p])
    <3> SUFFICES ASSUME NEW p \in Repos, x \in ToSet(queue'[p]) PROVE FALSE
      OBVIOUS
    <3>1. RepoOf[x] = p
      BY <2>1 DEF Sound
    <3> QED
      BY <3>1 DEF IsPending, Pending
  <2> QED
    BY <2>1, <2>2, WireFacts
<1> DEFINE Q == Without(x)
<1> HIDE DEF Q
<1>2. CASE UNCHANGED queueVars
  BY <1>0, <1>2 DEF OutOf, Everywhere, Without, Holding, queueVars
<1>3. ASSUME NEW b \in Actor, StageQueue(b), UNCHANGED <<tracked, renames, queueFile, raced>>
      PROVE  OutOf(x)'
  <2>1. Everywhere(Q) /\ QueueWire(queue', fails') \in Q => Everywhere(Q)'
    BY <1>0, <1>3, StageEffect
  <2> QED
    BY <1>0, <1>1, <2>1 DEF Q, OutOf, Without, Holding
<1>4. ASSUME NEW b \in Actor, AdvanceQueue(b) \/ ReturnFromFlush(b) PROVE OutOf(x)'
  <2>1. Everywhere(Q) => Everywhere(Q)'
    BY <1>0, <1>4, AdvanceEffect, ReturnEffect
  <2> QED
    BY <1>0, <2>1 DEF Q, OutOf, Without, Holding
<1>5. CASE Crash
  <2>1. /\ snaps' = <<>> /\ tracked' = queueFile /\ queueFile' = queueFile
        /\ strays' = strays \union (IF raced THEN Misplaced ELSE {})
    BY <1>5 DEF Crash
  <2>2. queueFile \in Without(x)
    <3>1. CASE ~raced
      BY <1>0, <3>1 DEF Everywhere
    <3>2. CASE raced
      <4>1. x \notin Range(tracked.queues[RepoOf[x]])
        BY <1>0 DEF Everywhere, Without, Holding, ToSet, Range
      <4>2. x \notin Range(queueFile.queues[RepoOf[x]])
        BY <2>1, <3>2, <4>1 DEF Misplaced
      <4> QED
        BY <1>0, <4>2 DEF Without, Holding, ToSet, Range
    <3> QED
      BY <3>1, <3>2
  <2>3. DOMAIN snaps' = {}
    BY <2>1
  <2> QED
    BY <2>1, <2>2, <2>3 DEF OutOf, Everywhere, Without, Holding
<1>6. ASSUME NEW r \in Runs, DropPending(r) PROVE OutOf(x)'
  <2>1. /\ snaps' = snaps /\ tracked' = queueFile' /\ queueFile' = QueueWire(queue', fails')
        /\ boot.pc = "pending"
    BY <1>6 DEF DropPending
  <2>2. snaps = <<>>
    BY <2>1 DEF DurableInv, BootInv, Up
  <2>3. fails' = fails
    BY <1>6 DEF DropPending
  <2>4. DOMAIN snaps' = {}
    BY <2>1, <2>2
  <2> QED
    BY <1>1, <2>1, <2>3, <2>4 DEF OutOf, Everywhere, Without, Holding
<1> QED
  BY <1>2, <1>3, <1>4, <1>5, <1>6, HowFilesAreWritten DEF FilesWritten

(* Only a submission puts a run into a queue.                              *)
LEMMA NobodyReturns ==
  ASSUME DurableInv, Next, NEW x \in Runs, OutOf(x), meta[x].status # "absent"
  PROVE  ~IsPending(x)'
<1>0. /\ Types /\ FilesInv /\ RegistryTypeOK /\ Sound(queue) /\ ~IsPending(x)
      /\ Everywhere(Without(x))
  BY DEF DurableInv, Types, FilesInv, OutOf
<1>1. CASE UNCHANGED queue
  BY <1>0, <1>1 DEF IsPending, Pending
<1>2. ASSUME NEW r \in Runs, RemovePending(r) PROVE ~IsPending(x)'
  BY <1>0, <1>2, RemoveEffect
<1>3. ASSUME NEW r \in Runs, Request(r) PROVE ~IsPending(x)'
  <2>1. CASE SubmitQueued(r)
    <3>1. Fresh(r) /\ EnqueueRun(r)
      BY <2>1 DEF SubmitQueued
    <3>2. x # r /\ ~IsPending(r)
      BY <3>1 DEF Fresh, NoEntry
    <3> QED
      BY <1>0, <3>1, <3>2, EnqueueEffect
  <2>2. CASE RemoveQueued(r)
    BY <1>2, <2>2 DEF RemoveQueued
  <2> QED
    BY <1>1, <1>3, <2>1, <2>2 DEF Request, SubmitDirect, Detach
<1>4. ASSUME NEW r \in Runs, ClientStep(r) PROVE ~IsPending(x)'
  BY <1>1, <1>4 DEF ClientStep, EnqueueFlush, EnqueueMeta, RemoveFlushStatus, RemoveEnds,
     DetachFlush, registryVars
<1>5. ASSUME NEW r \in Runs, DrainIfAvailable(r) \/ PromoteFails(r) PROVE ~IsPending(x)'
  <2>1. PICK a \in Actor, F \in SUBSET Runs, failed \in BOOLEAN :
               \E src : Drains(a, F, failed, src)
    BY <1>0, <1>5, DrainForm
  <2>2. PICK src : Drains(a, F, failed, src)
    BY <2>1
  <2> QED
    BY <1>0, <2>2, DrainEffect
<1>6. ASSUME NEW r \in Runs, RunStep(r) PROVE ~IsPending(x)'
  BY <1>1, <1>5, <1>6 DEF RunStep, SpawnStep, EndStep, HeartbeatStep, Promote,
     SpawnSession, Dispatch, DispatchFlush, TaskFlushStatus, TaskFlushQueue, Complete, Reap,
     StopKill, StopMark, EndFlushQueue, HeartbeatStage, HeartbeatFlush,
     HeartbeatComplete, Recover, registryVars, memoryVars
<1>7. CASE Crash
  BY <1>7, EmptyQueue DEF Crash, IsPending, Pending
<1>8. CASE Load
  <2>1. /\ queue' = queueFile.queues /\ Sound(queueFile.queues) /\ RepoOf[x] \in Repos
        /\ ~raced
    BY <1>8, RepoOfAssumption DEF Load, DurableInv, FilesInv, SoundDisk, SoundFiles,
       BootInv, Up
  <2>2. x \notin ToSet(queueFile.queues[RepoOf[x]])
    BY <1>0, <2>1 DEF Everywhere, Without, Holding
  <2> QED
    BY <2>1, <2>2 DEF IsPending, Pending, Sound
<1>9. ASSUME NEW r \in Runs, DropPending(r) PROVE ~IsPending(x)'
  BY <1>2, <1>9 DEF DropPending
<1>10. CASE Reconcile
  BY <1>1, <1>8, <1>9, <1>10 DEF Reconcile, SessionsDone, StaleDone, Start, ReconcileSession,
       ResumeStale, FailStale, KeepPending, FailDropped, registryVars, memoryVars
<1> QED
  BY <1>1, <1>3, <1>4, <1>6, <1>7, <1>10 DEF Next, FlushBegins, SessionDies, registryVars,
     memoryVars

(* Whom a step gives a session, or brings near one, had one before, was    *)
(* near one, or has its entry on disk.                                     *)
LEMMA NewlySpawned ==
  ASSUME DurableInv, Next, NEW x \in Runs, Spawned(x)'
  PROVE  Spawned(x) \/ meta'[x].status # "absent"
<1>0. Types /\ DOMAIN task = Runs /\ DOMAIN meta = Runs
  BY DEF DurableInv, Types, ActorTypeOK, MetaTypeOK
<1>1. ASSUME alive' \subseteq alive,
             status'[x] = "Running" => status[x] = "Running",
             task'[x] \in {"registered", "waiting"} => task[x] = task'[x]
      PROVE  Spawned(x)
  BY <1>1 DEF Spawned
<1>2. ASSUME NEW r \in Runs, WriteMeta(r), status'[r] # "absent",
             alive' = alive, \A y \in Runs \ {r} : status'[y] = status[y] /\ task'[y] = task[y]
      PROVE  Spawned(x) \/ meta'[x].status # "absent"
  <2>1. CASE x = r
    BY <1>0, <1>2, <2>1 DEF WriteMeta, EntryAfter
  <2> QED
    BY <1>1, <1>2, <2>1
<1>3. ASSUME NEW r \in Runs, Request(r)
      PROVE  Spawned(x) \/ meta'[x].status # "absent"
  <2>1. CASE SubmitDirect(r)
    BY <1>0, <1>2, <2>1 DEF SubmitDirect, RegisterRun, StatusAfter, SetTask
  <2> QED
    BY <1>1, <1>3, <2>1 DEF Request, SubmitQueued, EnqueueRun, RemoveQueued, Detach,
         TryStageStatus, StageStatus, StatusAfter, SetSubmit, SetClient
<1>4. ASSUME NEW r \in Runs, ClientStep(r) PROVE Spawned(x)
  BY <1>1, <1>4 DEF ClientStep, EnqueueFlush, EnqueueMeta, RemoveFlushStatus, RemoveEnds,
     DetachFlush, SetSubmit, SetClient, registryVars, actorVars
<1>5. ASSUME NEW r \in Runs, RunStep(r)
      PROVE  Spawned(x) \/ meta'[x].status # "absent"
  <2>1. CASE Promote(r)
    <3>1. /\ WriteMeta(r) /\ UNCHANGED <<status, alive>> /\ status[r] = "Queued"
          /\ task' = [task EXCEPT ![r] = "registered"]
      BY <2>1 DEF Promote, PromoteQueued, CanPromote, SetTask
    <3> QED
      BY <1>0, <1>2, <3>1
  <2>2. CASE SpawnSession(r) \/ Dispatch(r) \/ Recover(r) \/ HeartbeatStage(r)
    <3>1. /\ Spawned(r) /\ \A y \in Runs \ {r} : status'[y] = status[y] /\ task'[y] = task[y]
          /\ alive' \subseteq alive \union {r}
      BY <1>0, <2>2 DEF SpawnSession, Dispatch, Recover, HeartbeatStage, StageStatus,
         StatusAfter, SetTask, registryVars, actorVars, memoryVars, Spawned
    <3> QED
      BY <3>1 DEF Spawned
  <2>3. CASE \/ DispatchFlush(r) \/ TaskFlushStatus(r) \/ TaskFlushQueue(r)
    <3>1. /\ status' = status /\ alive' = alive
          /\ \A y \in Runs : task'[y] \in {"registered", "waiting"} => task'[y] = task[y]
      BY <1>0, <2>3 DEF DispatchFlush, TaskFlushStatus, TaskFlushQueue, SetTask,
         registryVars, actorVars
    <3> QED
      BY <1>1, <3>1
  <2>4. CASE \/ Reap(r) \/ StopKill(r) \/ EndFlushQueue(r)
             \/ HeartbeatFlush(r)
    <3>1. UNCHANGED <<status, task>> /\ alive' \subseteq alive
      BY <2>4 DEF Reap, StopKill, EndFlushQueue, HeartbeatFlush, SetEnder,
         registryVars, actorVars
    <3> QED
      BY <1>1, <3>1
  <2>5. CASE Complete(r) \/ StopMark(r) \/ HeartbeatComplete(r)
    <3>1. /\ \E to \in {"Succeeded", "Stopped"} : status' = StatusAfter({r}, to)
          /\ UNCHANGED <<alive, task>>
      BY <2>5 DEF Complete, StopMark, HeartbeatComplete, StageStatus, SetEnder, actorVars
    <3> QED
      BY <1>0, <1>1, <3>1 DEF StatusAfter
  <2>6. CASE DrainIfAvailable(r) \/ PromoteFails(r)
    <3>1. PICK a \in Actor, F \in SUBSET Runs, failed \in BOOLEAN :
                 \E src : Drains(a, F, failed, src)
      BY <1>0, <2>6, DrainForm
    <3>2. PICK src : Drains(a, F, failed, src)
      BY <3>1
    <3>3. PICK b \in Actor : DrainsTo(a, F, failed, b)
      BY <1>0, <3>2, DrainTasks DEF DurableInv
    <3>4. alive' = alive /\ status'[x] \in {"Stopped", "Failed", status[x]}
      BY <3>2 DEF Drains, RecordAndPop
    <3>5. task'[x] \in {"registered", "waiting"} => task'[x] = task[x]
      BY <3>3 DEF DrainsTo
    <3> QED
      BY <1>1, <3>4, <3>5
  <2> QED
    BY <1>5, <2>1, <2>2, <2>3, <2>4, <2>5, <2>6 DEF RunStep, SpawnStep, EndStep,
       HeartbeatStep
<1>6. ASSUME NEW r \in Runs, SessionDies(r) PROVE Spawned(x)
  BY <1>1, <1>6 DEF SessionDies, registryVars, actorVars, memoryVars
<1>7. CASE FlushBegins
  BY <1>1, <1>7 DEF FlushBegins, registryVars, actorVars, memoryVars
<1>8. CASE Crash
  BY <1>1, <1>8 DEF Crash, Idle
<1>9. CASE Load
  BY <1>9 DEF Load, metaVars, actorVars, Spawned
<1>10. ASSUME NEW r \in Runs, ResumeStale(r) \/ FailStale(r)
       PROVE  Spawned(x) \/ meta'[x].status # "absent"
  <2>1. /\ WriteMeta(r) /\ UNCHANGED <<task, alive>>
        /\ \E to \in {"Running", "Failed"} : status' = StatusAfter({r}, to)
    BY <1>10 DEF ResumeStale, FailStale, StageStatus, actorVars
  <2>2. status'[r] # "absent" /\ \A y \in Runs \ {r} : status'[y] = status[y]
    BY <2>1 DEF StatusAfter
  <2> QED
    BY <1>2, <2>1, <2>2
<1>11. ASSUME NEW r \in Runs, ReconcileSession(r) \/ KeepPending(r) \/ DropPending(r)
                                 \/ FailDropped(r)
       PROVE  Spawned(x)
  BY <1>1, <1>11 DEF ReconcileSession, KeepPending, DropPending, FailDropped, TryStageStatus,
       StageStatus, StatusAfter, registryVars, actorVars, memoryVars
<1>12. CASE SessionsDone \/ StaleDone \/ Start
  BY <1>1, <1>12 DEF SessionsDone, StaleDone, Start, registryVars, actorVars, memoryVars
<1>13. CASE Reconcile
  BY <1>9, <1>10, <1>11, <1>12, <1>13 DEF Reconcile
<1> QED
  BY <1>3, <1>4, <1>5, <1>6, <1>7, <1>8, <1>13 DEF Next

(* A session starts for a run that has left the queue.                     *)
LEMMA HowSessionsStart ==
  ASSUME DurableInv, Next
  PROVE  \/ alive' \subseteq alive
         \/ \E r \in Runs : /\ alive' = alive \union {r} /\ HasRun(r)
                            /\ UNCHANGED <<queue, queueVars>>
<1>1. ASSUME NEW r \in Runs, SpawnSession(r) \/ Recover(r)
      PROVE  alive' = alive \union {r} /\ HasRun(r) /\ UNCHANGED <<queue, queueVars>>
  BY <1>1 DEF SpawnSession, Recover, HasRun, Going, registryVars, memoryVars
<1>2. ASSUME NEW r \in Runs, RunStep(r), ~SpawnSession(r), ~Recover(r)
      PROVE  alive' \subseteq alive
  BY <1>2 DEF RunStep, SpawnStep, EndStep, HeartbeatStep, Promote, PromoteFails, Dispatch,
     DispatchFlush, TaskFlushStatus, TaskFlushQueue, Complete, Reap, StopKill, StopMark,
     DrainIfAvailable, RecordAndPop, EndFlushQueue, HeartbeatStage,
     HeartbeatFlush, HeartbeatComplete
<1>3. ASSUME NEW r \in Runs, Request(r) \/ ClientStep(r) \/ SessionDies(r)
      PROVE  alive' \subseteq alive
  BY <1>3 DEF Request, SubmitDirect, SubmitQueued, RemoveQueued, Detach, ClientStep,
     EnqueueFlush, EnqueueMeta, RemoveFlushStatus, RemoveEnds, DetachFlush, SessionDies
<1>4. CASE Reconcile \/ Crash \/ FlushBegins
  BY <1>4 DEF Crash, FlushBegins, Reconcile, Load, SessionsDone, StaleDone, Start,
     ReconcileSession, ResumeStale, FailStale, KeepPending, DropPending, FailDropped
<1> QED
  BY <1>1, <1>2, <1>3, <1>4 DEF Next

(* Every step.                                                             *)
LEMMA NextKeepsSessions ==
  ASSUME DurableInv, DurableInv', SessionsInv, [Next]_vars
  PROVE  SessionsInv'
<1>0. alive \subseteq Runs
  BY DEF DurableInv, Types, OtherTypeOK
<1>1. CASE UNCHANGED vars
  BY <1>1 DEF vars, memoryVars, registryVars, actorVars, queueVars, metaVars, SessionsInv,
     Spawned, OutOf, IsPending, Pending, Everywhere, Without, Holding
<1>2. CASE Next
  <2>1. \A x \in Runs : Spawned(x)' => meta'[x].status # "absent"
    BY <1>2, NewlySpawned, RecordsStay DEF SessionsInv
  <2>2. strays \subseteq strays'
    BY <1>2, StraysStay
  <2>3. ASSUME NEW x \in Runs, x \in alive, x \notin strays' PROVE OutOf(x)'
    <3>1. OutOf(x) /\ meta[x].status # "absent"
      BY <2>2, <2>3 DEF SessionsInv, Spawned
    <3>2. ~IsPending(x)'
      BY <1>2, <3>1, NobodyReturns
    <3> QED
      BY <1>2, <2>3, <3>1, <3>2, OutStays
  <2>4. ASSUME NEW r \in Runs, HasRun(r), r \notin strays, UNCHANGED <<queue, queueVars>>
        PROVE  OutOf(r)'
    <3>1. OutOf(r)
      BY <2>4 DEF OutOf, DurableInv, FilesInv, RunnersAreOut
    <3> QED
      BY <2>4, <3>1 DEF OutOf, IsPending, Pending, Everywhere, Without, Holding, queueVars
  <2>5. ASSUME NEW x \in alive', x \notin strays' PROVE OutOf(x)'
    BY <1>0, <1>2, <2>2, <2>3, <2>4, <2>5, HowSessionsStart
  <2> QED
    BY <2>1, <2>5 DEF SessionsInv
<1> QED
  BY <1>1, <1>2

(* While the daemon starts, sessions only end: what is alive was alive     *)
(* when the reconciler looked, and after its step 2 is of unfinished runs, *)
(* or of strays that its step 5 has finished.                              *)
LeftoverInv ==
    /\ boot.pc \in {"sessions", "stale", "pending"} => alive \subseteq boot.live
    /\ boot.pc = "sessions" => \A r \in alive : Active(r) \/ r \in boot.todo
    /\ boot.pc \in {"stale", "pending"} => \A r \in alive : Active(r) \/ r \in strays
    /\ boot.pc = "stale" => boot.todo \cap boot.live = {}
    /\ boot.drop \cap alive \subseteq strays
    /\ boot.drop # {} => boot.pc = "pending"

(* Each step of the reconciler.                                            *)
LEMMA ReconcileLeavesNone ==
  ASSUME DurableInv, SessionsInv, LeftoverInv, Reconcile
  PROVE  LeftoverInv'
<1> USE DEF LeftoverInv, Active
<1>0. /\ boot \in BootType /\ alive \subseteq Runs
      /\ status \in [Runs -> RunStatus \union {"absent"}]
  BY DEF DurableInv, Types, OtherTypeOK, RegistryTypeOK
<1>1. CASE Load
  BY <1>0, <1>1 DEF Load, Boot
<1>2. CASE SessionsDone
  <2>1. PICK todo : todo = Stale
    OBVIOUS
  <2>2. todo \cap boot.live = {}
    BY <2>1 DEF Stale
  <2>3. /\ boot' = [boot EXCEPT !.pc = "stale", !.todo = todo]
        /\ boot.pc = "sessions" /\ boot.todo = {} /\ UNCHANGED <<status, alive, strays>>
    BY <1>2, <2>1 DEF SessionsDone, registryVars, memoryVars
  <2> QED
    BY <1>0, <2>2, <2>3 DEF BootType
<1>3. CASE StaleDone
  BY <1>0, <1>3 DEF StaleDone, BootType, registryVars, memoryVars
<1>4. CASE Start
  BY <1>4 DEF Start, Boot
<1>5. ASSUME NEW r \in Runs, ReconcileSession(r) PROVE LeftoverInv'
  BY <1>0, <1>5 DEF ReconcileSession, IsLeftover, BootType, registryVars, memoryVars
<1>6. ASSUME NEW r \in Runs, ResumeStale(r) \/ FailStale(r) PROVE LeftoverInv'
  <2>1. /\ boot.pc = "stale" /\ r \in boot.todo /\ UNCHANGED <<alive, strays>>
        /\ boot' = [boot EXCEPT !.todo = @ \ {r}]
        /\ \A x \in Runs \ {r} : status'[x] = status[x]
    BY <1>6 DEF ResumeStale, FailStale, StageStatus, StatusAfter
  <2>2. r \notin alive
    BY <2>1
  <2> QED
    BY <1>0, <2>1, <2>2 DEF BootType
<1>7. ASSUME NEW r \in Runs, KeepPending(r) PROVE LeftoverInv'
  BY <1>0, <1>7 DEF KeepPending, BootType, registryVars, memoryVars
<1>8. ASSUME NEW r \in Runs, DropPending(r) PROVE LeftoverInv'
  <2>1. /\ boot.pc = "pending" /\ UNCHANGED <<status, alive, strays>> /\ RemovePending(r)
        /\ boot' = [boot EXCEPT !.todo = @ \ {r}, !.drop = {r}]
    BY <1>8 DEF DropPending
  <2>2. IsPending(r)
    BY <2>1, RemoveEffect DEF DurableInv, Types, FilesInv
  <2>3. r \in alive => r \in strays
    BY <2>2 DEF SessionsInv, OutOf
  <2> QED
    BY <1>0, <2>1, <2>3 DEF BootType
<1>9. ASSUME NEW r \in Runs, FailDropped(r) PROVE LeftoverInv'
  <2>1. /\ r \in boot.drop /\ boot.pc = "pending"
        /\ UNCHANGED <<alive, strays>> /\ boot' = [boot EXCEPT !.drop = {}]
        /\ \A x \in Runs \ {r} : status'[x] = status[x]
    BY <1>9 DEF FailDropped, TryStageStatus, StageStatus, StatusAfter
  <2>2. /\ boot'.pc = boot.pc /\ boot'.todo = boot.todo /\ boot'.live = boot.live
        /\ boot'.drop = {}
    BY <1>0, <2>1 DEF BootType
  <2>3. r \in alive => r \in strays
    BY <2>1
  <2> QED
    BY <1>0, <2>1, <2>2, <2>3
<1> QED
  BY <1>1, <1>2, <1>3, <1>4, <1>5, <1>6, <1>7, <1>8, <1>9 DEF Reconcile

(* Every step: before the server starts only the reconciler acts.          *)
LEMMA NextLeavesNone ==
  ASSUME DurableInv, SessionsInv, LeftoverInv, [Next]_vars
  PROVE  LeftoverInv'
<1>0. boot \in BootType /\ BootIsAlone /\ (Up => boot.drop = {})
  BY DEF DurableInv, Types, OtherTypeOK, BootInv
<1>1. CASE UNCHANGED vars
  BY <1>1 DEF vars, memoryVars, registryVars, LeftoverInv, Active
<1>2. ASSUME NEW r \in Runs, Request(r) \/ ClientStep(r) \/ RunStep(r)
      PROVE  LeftoverInv'
  <2>1. Up /\ boot' = boot
    BY <1>0, <1>2, OnlyBootSteps, BootUnchanged
  <2> QED
    BY <1>0, <2>1 DEF LeftoverInv, Up
<1>3. ASSUME NEW r \in Runs, SessionDies(r) PROVE LeftoverInv'
  BY <1>3 DEF SessionDies, memoryVars, registryVars, LeftoverInv, Active
<1>4. CASE FlushBegins
  BY <1>4 DEF FlushBegins, memoryVars, registryVars, LeftoverInv, Active
<1>5. CASE Crash
  BY <1>5 DEF Crash, Boot, LeftoverInv
<1> QED
  BY <1>1, <1>2, <1>3, <1>4, <1>5, ReconcileLeavesNone DEF Next

(* When the server starts, every tmux session still alive belongs to a run *)
(* that is not finished, however often the daemon died before, and in the  *)
(* middle of what: the reconciler's later steps finish no run that has a   *)
(* session (reconciler.rs step 2), but for those that a crash amid racing  *)
(* flushes of queue.json has misplaced there (registry.rs:1482-1504).      *)
THEOREM NoSessionIsLeft == Spec => NoLeftoverSession
<1>1. Init => SessionsInv /\ LeftoverInv
  BY DEF Init, InitMemory, InitRegistry, Idle, Boot, SessionsInv, Spawned, LeftoverInv
<1>2. DurableInv /\ SessionsInv /\ LeftoverInv /\ [Next]_vars => SessionsInv' /\ LeftoverInv'
  BY NextDurable, NextKeepsSessions, NextLeavesNone
<1>3. DurableInv /\ LeftoverInv /\ [Next]_vars
        => [Starts => \A r \in alive : Active(r) \/ r \in strays]_vars
  <2> SUFFICES ASSUME DurableInv, LeftoverInv, Next, Starts
               PROVE  \A r \in alive : Active(r) \/ r \in strays
    BY Zenon
  <2>1. Start
    BY StartsAtStart DEF DurableInv
  <2> QED
    BY <2>1 DEF Start, LeftoverInv
<1> QED
  BY <1>1, <1>2, <1>3, AlwaysDurable, PTL DEF Spec, NoLeftoverSession
============================================================================

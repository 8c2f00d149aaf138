-------------------------- MODULE DaemonFiles_proofs -------------------------
(***************************************************************************)
(* What the daemon keeps in files.  NewestNotSkipped and                   *)
(* RenamesOwnSnapshot of QueueFlush, for any items, any number of          *)
(* concurrent flushes, any number of mutations and any faults; MetaDurable *)
(* of MetaFlush, for any number of writers inside the registry mutex       *)
(* (update_status) and outside it (flush_status), any number of status     *)
(* changes and any faults; LockIsExclusive and                             *)
(* CrashesAreCounted of DaemonLife, for any set of PIDs, any limits of the *)
(* crash-loop detector and any number of deaths.                           *)
(***************************************************************************)
EXTENDS QueueFlush, MetaFlush, DaemonLife, TLAPS

----------------------------------------------------------------------------
(* The queue.                                                              *)

Busy(f) == flush[f].pc # "idle"

(* A snapshot belongs to one flush only, and it has been staged.           *)
OwnEpoch ==
    /\ \A f \in Flushers : Busy(f) => flush[f].epoch \in 1..epoch
    /\ \A f, g \in Flushers :
          Busy(f) /\ Busy(g) /\ flush[f].epoch = flush[g].epoch => f = g

(* Only staged snapshots have been flushed.                                *)
TrackerStaged == tracker <= epoch

(* A file, once written, holds what its flush has written.                 *)
OwnFile ==
    \A f \in Flushers :
        flush[f].pc \in {"advance", "rename"} => tmp[TmpName(f)] = {Snapshot(f)}

IInv == TypeOK /\ OwnEpoch /\ TrackerStaged /\ NewestNotSkipped /\ OwnFile

(* Nothing has been staged.                                                *)
LEMMA InitIInv == Init => IInv
  BY MaxEpochAssumption
  DEF Init, IInv, TypeOK, OwnEpoch, TrackerStaged, NewestNotSkipped, OwnFile,
      Busy, Idle, FlushPC, File, Epochs

(* What a crash leaves of queue.json is loaded with well-formed items.     *)
LEMMA LoadedType ==
  ASSUME disk \subseteq File, MaxEpoch \in Nat
  PROVE  /\ Content(disk) \subseteq Items
         /\ {[x EXCEPT !.epoch = 0] : x \in disk} \subseteq File
  BY DEF Content, File

(* A mutation stages the snapshot with an epoch nobody else has, and above *)
(* the tracker.                                                            *)
LEMMA StageIInv ==
  ASSUME IInv, NEW f \in Flushers, NEW items \in SUBSET Items,
         NEW adds \in SUBSET Items, Stage(f, items, adds),
         fresh' \subseteq Items, removed' \subseteq Items
  PROVE  IInv'
<1> USE MaxEpochAssumption DEF IInv, Stage
<1>1. /\ flush' = [flush EXCEPT ![f] = [pc |-> "check", epoch |-> epoch + 1,
                                        items |-> items, adds |-> adds]]
      /\ epoch' = epoch + 1 /\ epoch' \in 0..MaxEpoch
      /\ tracker' = tracker /\ tmp' = tmp /\ disk' = disk /\ acked' = acked
      /\ mem' = items
  BY DEF TypeOK
<1>2. TypeOK'
  BY <1>1 DEF TypeOK, FlushPC
<1>3. OwnEpoch'
  BY <1>1 DEF TypeOK, OwnEpoch, Busy
<1>4. TrackerStaged' /\ NewestNotSkipped'
  BY <1>1 DEF TypeOK, TrackerStaged, NewestNotSkipped
<1>5. OwnFile'
  BY <1>1 DEF TypeOK, OwnFile, TmpName, Snapshot
<1> QED
  BY <1>2, <1>3, <1>4, <1>5

Flush == [pc : FlushPC, epoch : 0..MaxEpoch, items : SUBSET Items, adds : SUBSET Items]

(* What a step of flush_queue for f does to the calls: f keeps its         *)
(* snapshot unless it returns, and the others are where they were ...      *)
Moves(f, to) ==
    /\ flush' \in [Flushers -> Flush]
    /\ acked' \subseteq Items
    /\ flush'[f].pc = to
    /\ to # "idle" => flush'[f].epoch = flush[f].epoch /\ flush'[f].items = flush[f].items
    /\ \A g \in Flushers : g # f => flush'[g] = flush[g]

(* ... and to the files: only the one of its own snapshot is touched.      *)
Puts(f, file) ==
    /\ tmp' \in [Epochs -> SUBSET File]
    /\ tmp'[flush[f].epoch] = file
    /\ \A g \in Flushers :
          g # f /\ Busy(g) => tmp'[flush[g].epoch] = tmp[flush[g].epoch]

(* flush_queue goes on to its next step.                                   *)
LEMMA GotoMoves ==
  ASSUME TypeOK, NEW f \in Flushers, NEW to \in FlushPC, Goto(f, to)
  PROVE  Moves(f, to)
  BY DEF TypeOK, Goto, Flush, Moves

(* flush_queue returns Ok, with the submissions it answers.                *)
LEMMA SucceedMoves ==
  ASSUME TypeOK, NEW f \in Flushers, Succeed(f), MaxEpoch \in Nat
  PROVE  Moves(f, "idle")
<1>1. Idle \in Flush /\ Idle.pc = "idle"
  BY DEF Idle, Flush, FlushPC
<1>2. flush \in [Flushers -> Flush] /\ flush[f].adds \subseteq Items /\ acked \subseteq Items
  BY DEF TypeOK, Flush
<1> QED
  BY <1>1, <1>2 DEF Succeed, Moves

(* queue.json.tmp.<epoch> is nobody else's file: no other call in progress *)
(* has that epoch.                                                         *)
LEMMA FilePuts ==
  ASSUME TypeOK, OwnEpoch, NEW f \in Flushers, Busy(f),
         NEW file \in SUBSET File, tmp' = [tmp EXCEPT ![TmpName(f)] = file],
         MaxEpoch \in Nat
  PROVE  Puts(f, file)
  BY DEF TypeOK, OwnEpoch, Busy, TmpName, Epochs, Puts

(* Such a step keeps the invariant, if it gets past the guards only with a *)
(* snapshot newer than the tracker, and past the write only with a file    *)
(* that holds the snapshot.                                                *)
LEMMA StepIInv ==
  ASSUME IInv, NEW f \in Flushers, Busy(f), MaxEpoch \in Nat,
         NEW to \in FlushPC, Moves(f, to), NEW file \in SUBSET File, Puts(f, file),
         to \in {"advance", "rename"} => file = {Snapshot(f)},
         UNCHANGED <<mem, epoch, fresh, removed>>, disk' \subseteq File,
         \/ tracker' = tracker /\ flush[f].pc # "rename" /\ to # "rename"
         \/ tracker' = tracker /\ to = "idle"
         \/ tracker' = flush[f].epoch /\ to = "rename"
  PROVE  IInv'
<1> USE DEF IInv, Moves
<1>1. flush[f].epoch \in 1..epoch
  BY DEF OwnEpoch
<1>2. TypeOK'
  BY <1>1 DEF TypeOK, Flush, Puts
<1>3. OwnEpoch'
  BY DEF OwnEpoch, Busy
<1>4. TrackerStaged'
  BY <1>1 DEF TrackerStaged, TypeOK
<1>5. NewestNotSkipped'
  <2>1. CASE tracker' = tracker /\ to # "rename" /\ flush[f].pc # "rename"
    BY <2>1 DEF NewestNotSkipped, FlushPC, Busy, TypeOK
  <2>2. CASE tracker' = tracker /\ to = "idle"
    BY <2>2 DEF NewestNotSkipped
  <2>3. CASE tracker' = flush[f].epoch /\ to = "rename"
    BY <1>1, <2>3 DEF NewestNotSkipped, OwnEpoch, Busy, TypeOK
  <2> QED
    BY <2>1, <2>2, <2>3
<1>6. OwnFile'
  BY DEF OwnFile, Puts, Busy, TmpName, Snapshot
<1> QED
  BY <1>2, <1>3, <1>4, <1>5, <1>6

(* The invariant is inductive, action by action.                           *)
LEMMA NextIInv == IInv /\ [Next]_vars => IInv'
<1> SUFFICES ASSUME IInv, [Next]_vars PROVE IInv'
  OBVIOUS
<1> USE MaxEpochAssumption
<1>0. TypeOK /\ OwnEpoch /\ disk \subseteq File
  BY DEF IInv, TypeOK
<1>a. \A f \in Flushers : {Snapshot(f)} \in SUBSET File /\ {} \in SUBSET File
  BY <1>0 DEF TypeOK, File, Snapshot
<1>b. ASSUME NEW f \in Flushers, Busy(f), tmp' = tmp
      PROVE  Puts(f, tmp[flush[f].epoch]) /\ tmp[flush[f].epoch] \in SUBSET File
  BY <1>0, <1>b DEF TypeOK, OwnEpoch, Puts, Epochs
<1>1. ASSUME NEW f \in Flushers, NEW x \in Items, Enqueue(f, x) PROVE IInv'
  <2>1. /\ fresh' = fresh \ {x} /\ removed' = removed
        /\ Stage(f, mem \union {x}, {x})
    BY <1>1 DEF Enqueue
  <2>2. mem \subseteq Items /\ fresh \subseteq Items /\ removed \subseteq Items
    BY <1>0 DEF TypeOK
  <2> QED
    BY <2>1, <2>2, StageIInv
<1>2. ASSUME NEW f \in Flushers, NEW x \in Items, Dequeue(f, x) PROVE IInv'
  <2>1. /\ removed' = removed \union {x} /\ fresh' = fresh
        /\ Stage(f, mem \ {x}, {})
    BY <1>2 DEF Dequeue
  <2>2. mem \subseteq Items /\ fresh \subseteq Items /\ removed \subseteq Items
    BY <1>0 DEF TypeOK
  <2> QED
    BY <2>1, <2>2, StageIInv
<1>3. ASSUME NEW f \in Flushers, Check(f) PROVE IInv'
  <2>1. /\ Busy(f) /\ flush[f].pc # "rename" /\ tmp' = tmp /\ disk' = disk
        /\ UNCHANGED <<mem, epoch, tracker, fresh, removed>>
        /\ Succeed(f) \/ Goto(f, "create")
    BY <1>3 DEF Check, Busy
  <2>2. Moves(f, "idle") \/ Moves(f, "create")
    BY <1>0, <2>1, SucceedMoves, GotoMoves DEF FlushPC
  <2> QED
    BY <1>0, <1>b, <2>1, <2>2, StepIInv DEF FlushPC
<1>4. ASSUME NEW f \in Flushers, Create(f) PROVE IInv'
  <2>1. /\ Busy(f) /\ flush[f].pc # "rename" /\ disk' = disk
        /\ UNCHANGED <<mem, epoch, tracker, fresh, removed>>
        /\ Goto(f, "write") /\ tmp' = [tmp EXCEPT ![TmpName(f)] = {}]
    BY <1>4 DEF Create, Busy
  <2>2. Moves(f, "write") /\ Puts(f, {})
    BY <1>0, <1>a, <2>1, GotoMoves, FilePuts DEF FlushPC
  <2> QED
    BY <1>0, <1>a, <2>1, <2>2, StepIInv DEF FlushPC
<1>5. ASSUME NEW f \in Flushers, Write(f) PROVE IInv'
  <2>1. /\ Busy(f) /\ flush[f].pc # "rename" /\ disk' = disk
        /\ UNCHANGED <<mem, epoch, tracker, fresh, removed>>
        /\ Goto(f, "advance") /\ tmp' = [tmp EXCEPT ![TmpName(f)] = {Snapshot(f)}]
    BY <1>5 DEF Write, Busy
  <2>2. Moves(f, "advance") /\ Puts(f, {Snapshot(f)})
    BY <1>0, <1>a, <2>1, GotoMoves, FilePuts DEF FlushPC
  <2> QED
    BY <1>0, <1>a, <2>1, <2>2, StepIInv DEF FlushPC
<1>6. ASSUME NEW f \in Flushers, Advance(f) PROVE IInv'
  <2>1. /\ Busy(f) /\ flush[f].pc = "advance" /\ disk' = disk
        /\ UNCHANGED <<mem, epoch, fresh, removed>>
    BY <1>6 DEF Advance, Busy
  <2>2. CASE Succeed(f) /\ tracker' = tracker /\ tmp' = [tmp EXCEPT ![TmpName(f)] = {}]
    <3>1. Moves(f, "idle") /\ Puts(f, {})
      BY <1>0, <1>a, <2>1, <2>2, SucceedMoves, FilePuts
    <3> QED
      BY <1>0, <1>a, <2>1, <2>2, <3>1, StepIInv DEF FlushPC
  <2>3. CASE Goto(f, "rename") /\ tracker' = flush[f].epoch /\ tmp' = tmp
    <3>1. Moves(f, "rename")
      BY <1>0, <2>3, GotoMoves DEF FlushPC
    <3>2. tmp[flush[f].epoch] = {Snapshot(f)}
      BY <2>1 DEF IInv, OwnFile, TmpName
    <3> QED
      BY <1>0, <1>a, <1>b, <2>1, <2>3, <3>1, <3>2, StepIInv DEF FlushPC
  <2> QED
    BY <1>6, <2>2, <2>3 DEF Advance
<1>7. ASSUME NEW f \in Flushers, Rename(f) PROVE IInv'
  <2>1. /\ Busy(f) /\ disk' = tmp[flush[f].epoch]
        /\ UNCHANGED <<mem, epoch, tracker, fresh, removed>>
        /\ Succeed(f) /\ tmp' = [tmp EXCEPT ![TmpName(f)] = {}]
    BY <1>7 DEF Rename, Busy, TmpName
  <2>2. Moves(f, "idle") /\ Puts(f, {})
    BY <1>0, <1>a, <2>1, SucceedMoves, FilePuts
  <2>3. disk' \subseteq File
    BY <1>0, <2>1 DEF TypeOK, OwnEpoch, Epochs
  <2> QED
    BY <1>0, <1>a, <2>1, <2>2, <2>3, StepIInv DEF FlushPC
<1>8. ASSUME NEW f \in Flushers, FlushFails(f) PROVE IInv'
  <2>1. /\ Busy(f) /\ disk' = disk /\ acked' = acked
        /\ UNCHANGED <<mem, epoch, tracker, fresh, removed>>
        /\ flush' = [flush EXCEPT ![f] = Idle]
    BY <1>8 DEF FlushFails, Busy
  <2>2. Moves(f, "idle")
    <3>1. Idle \in Flush /\ Idle.pc = "idle"
      BY DEF Idle, Flush, FlushPC
    <3> QED
      BY <1>0, <2>1, <3>1 DEF TypeOK, Flush, Moves
  <2>3. \E file \in SUBSET File : tmp' = [tmp EXCEPT ![TmpName(f)] = file]
    <3>1. flush[f].epoch \in Epochs
      BY <1>0, <2>1 DEF TypeOK, OwnEpoch, Epochs
    <3>2. tmp[TmpName(f)] \in SUBSET File /\ {} \in SUBSET File
      BY <1>0, <3>1 DEF TypeOK, TmpName
    <3>3. tmp' = [tmp EXCEPT ![TmpName(f)] = IF flush[f].pc = "create"
                                             THEN tmp[TmpName(f)] ELSE {}]
      BY <1>8 DEF FlushFails
    <3> QED
      BY <3>2, <3>3
  <2>4. \E file \in SUBSET File : Puts(f, file)
    BY <1>0, <2>1, <2>3, FilePuts
  <2> QED
    BY <1>0, <2>1, <2>2, <2>4, StepIInv DEF FlushPC
<1>9. CASE Crash
  BY <1>9, LoadedType
  DEF Crash, IInv, TypeOK, OwnEpoch, TrackerStaged, NewestNotSkipped, OwnFile,
      Busy, Idle, FlushPC
<1>10. CASE UNCHANGED vars
  BY <1>10
  DEF vars, IInv, TypeOK, OwnEpoch, TrackerStaged, NewestNotSkipped, OwnFile,
      Busy, TmpName, Snapshot
<1> QED
  BY <1>1, <1>2, <1>3, <1>4, <1>5, <1>6, <1>7, <1>8, <1>9, <1>10 DEF Next

(* So it holds in every state of every behaviour.                          *)
LEMMA AlwaysIInv == Spec => []IInv
  BY InitIInv, NextIInv, PTL DEF Spec

(* Neither guard of flush_queue takes the newest snapshot for a stale one, *)
(* however many flushes race.                                              *)
THEOREM NewestIsFlushed == Spec => []NewestNotSkipped
<1>1. IInv => NewestNotSkipped
  BY DEF IInv
<1> QED
  BY <1>1, AlwaysIInv, PTL

(* What flush_queue renames over queue.json is the snapshot it was called  *)
(* with, complete, whoever else writes and whatever a crash left behind.   *)
THEOREM RenameIsOwn == Spec => []RenamesOwnSnapshot
<1>1. IInv => RenamesOwnSnapshot
  BY DEF IInv, OwnFile, RenamesOwnSnapshot
<1> QED
  BY <1>1, AlwaysIInv, PTL

----------------------------------------------------------------------------
(* meta.json.                                                              *)

(* A write that update_status does is inside the mutex.                    *)
WritesInside ==
    \A w \in Writers \ Staged : writer[w].pc # "idle" => mutex = {w}

(* Nothing that has been staged is newer than memory.                      *)
EpochsStaged ==
    /\ ackedEpoch <= writeEpoch
    /\ \A w \in Writers : writer[w].epoch <= writeEpoch

(* Who has not been overlapped is the only one under way, and writes the   *)
(* entry in memory.                                                        *)
Alone ==
    \A w \in Writers : writer[w].pc # "idle" /\ w \notin shared =>
        /\ \A v \in Writers : v # w => writer[v].pc = "idle"
        /\ writer[w].epoch = writeEpoch

(* The temporary file of such a writer: empty, then its entry.             *)
TmpIsOwn ==
    \A w \in Writers : w \notin shared =>
        /\ writer[w].pc = "write" =>
              metaTmp # NoFile /\ writer[w].file = metaTmp /\ content[metaTmp] = {}
        /\ writer[w].pc = "rename" => metaTmp # NoFile /\ content[metaTmp] = {writeEpoch}

(* A temporary file never is the live meta.json.                           *)
NotLive == metaTmp # NoFile => metaTmp # meta

(* Only overlapping writes have been overlapped.                           *)
SharedIsSpoiled ==
    /\ \A w \in shared : writer[w].pc # "idle"
    /\ shared # {} => spoiled

FileInv ==
    /\ MetaTypeOK /\ WritesInside /\ EpochsStaged /\ Alone /\ TmpIsOwn /\ NotLive
    /\ SharedIsSpoiled /\ MetaDurable

(* There is no file and no writer.                                         *)
LEMMA InitFileInv == MetaInit => FileInv
<1> SUFFICES ASSUME MetaInit PROVE FileInv
  OBVIOUS
<1>1. MetaTypeOK
  <2>1. IdleWriter \in [pc : WriterPC, epoch : 0..MaxChanges, file : Inodes \union {NoFile}]
    BY MaxChangesAssumption DEF IdleWriter, WriterPC
  <2>2. writer \in [Writers -> [pc : WriterPC, epoch : 0..MaxChanges,
                               file : Inodes \union {NoFile}]]
    BY <2>1 DEF MetaInit
  <2>3. content \in [Inodes -> SUBSET (0..MaxChanges)]
    BY DEF MetaInit
  <2>4. 0 \in 0..MaxChanges
    BY MaxChangesAssumption
  <2>5. writeEpoch \in 0..MaxChanges /\ ackedEpoch \in 0..MaxChanges
    BY <2>4 DEF MetaInit
  <2>6. /\ mutex \subseteq Writers /\ shared \subseteq Writers /\ spoiled \in BOOLEAN
        /\ metaTmp \in Inodes \union {NoFile} /\ meta \in Inodes \union {NoFile}
    BY DEF MetaInit
  <2> QED
    BY <2>2, <2>3, <2>5, <2>6 DEF MetaTypeOK
<1>2. WritesInside /\ EpochsStaged /\ Alone /\ TmpIsOwn
  BY DEF MetaInit, WritesInside, EpochsStaged, Alone, TmpIsOwn, IdleWriter
<1>3. NotLive /\ SharedIsSpoiled /\ MetaDurable
  BY DEF MetaInit, NotLive, SharedIsSpoiled, MetaDurable
<1> QED
  BY <1>1, <1>2, <1>3 DEF FileInv

(* No inode has the number that stands for no file.                        *)
LEMMA NoFileIsNone == NoFile \notin Inodes
  BY DEF NoFile, Inodes

WriterType == [pc : WriterPC, epoch : 0..MaxChanges, file : Inodes \union {NoFile}]

(* A change is staged; whom it overlaps, and who overlaps it, are noted.   *)
LEMMA StageFileInv ==
  ASSUME FileInv, NEW w \in Writers, StageEntry(w)
  PROVE  FileInv'
<1> USE MaxChangesAssumption, NoFileIsNone
<1>0. /\ MetaTypeOK /\ WritesInside /\ EpochsStaged /\ Alone /\ TmpIsOwn /\ NotLive
      /\ SharedIsSpoiled /\ MetaDurable
  BY DEF FileInv
<1>1. /\ writer[w].pc = "idle" /\ mutex = {} /\ writeEpoch' = writeEpoch + 1
      /\ writeEpoch' \in 0..MaxChanges
      /\ writer' = [writer EXCEPT ![w] = [pc |-> "create", epoch |-> writeEpoch + 1,
                                          file |-> NoFile]]
      /\ mutex' = IF w \in Staged THEN {} ELSE {w}
      /\ UNCHANGED <<content, metaTmp, meta, ackedEpoch>>
      /\ NoteOverlaps(w)
  BY <1>0 DEF StageEntry, MetaTypeOK
<1>2. /\ writer \in [Writers -> WriterType] /\ writeEpoch \in Nat /\ ackedEpoch \in Nat
      /\ shared \subseteq Writers /\ spoiled \in BOOLEAN
      /\ \A v \in Writers : writer[v].epoch \in Nat
  BY <1>0 DEF MetaTypeOK, WriterType
<1>3. /\ writer' \in [Writers -> WriterType]
      /\ \A v \in Writers : writer'[v] = IF v = w
            THEN [pc |-> "create", epoch |-> writeEpoch + 1, file |-> NoFile] ELSE writer[v]
  BY <1>1, <1>2 DEF WriterType, WriterPC
<1>4. \A v \in Writers : v \in Overlaps(w) => writer[v].pc # "idle" /\ v # w
  BY <1>1 DEF Overlaps
<1>5. Overlaps(w) \subseteq Writers
  BY DEF Overlaps
<1>6. /\ shared' \subseteq Writers /\ spoiled' \in BOOLEAN
      /\ shared \subseteq shared'
      /\ \A v \in shared' : v \in shared \/ v = w \/ v \in Overlaps(w)
      /\ shared' # {} => spoiled'
      /\ w \notin shared' => Overlaps(w) = {}
      /\ \A v \in Overlaps(w) : v \in shared'
      /\ spoiled => spoiled'
  BY <1>0, <1>1, <1>2, <1>5 DEF NoteOverlaps, SharedIsSpoiled
<1>7. w \notin shared' => \A v \in Writers : writer[v].pc = "idle"
  <2> SUFFICES ASSUME w \notin shared', NEW v \in Writers, writer[v].pc # "idle" PROVE FALSE
    OBVIOUS
  <2>1. w \notin Staged /\ v \notin Staged
    BY <1>6 DEF Overlaps
  <2> QED
    BY <1>0, <1>1, <2>1 DEF WritesInside
<1>8. \A v \in Writers : v # w /\ writer[v].pc # "idle" => v \in shared'
  <2> SUFFICES ASSUME NEW v \in Writers, v # w, writer[v].pc # "idle" PROVE v \in shared'
    OBVIOUS
  <2>1. v \in Staged
    BY <1>0, <1>1 DEF WritesInside
  <2>2. v \in Overlaps(w)
    BY <2>1 DEF Overlaps
  <2> QED
    BY <1>6, <2>2
<1>9. MetaTypeOK'
  BY <1>0, <1>1, <1>3, <1>6 DEF MetaTypeOK, WriterType
<1>10. WritesInside'
  BY <1>0, <1>1, <1>3 DEF WritesInside
<1>11. EpochsStaged'
  BY <1>0, <1>1, <1>2, <1>3 DEF EpochsStaged
<1>12. Alone' /\ TmpIsOwn'
  BY <1>1, <1>3, <1>7, <1>8 DEF Alone, TmpIsOwn
<1>13. NotLive' /\ MetaDurable'
  BY <1>0, <1>1, <1>6 DEF NotLive, MetaDurable, Readable, OnDisk
<1>14. SharedIsSpoiled'
  BY <1>0, <1>3, <1>4, <1>6 DEF SharedIsSpoiled
<1> QED
  BY <1>9, <1>10, <1>11, <1>12, <1>13, <1>14 DEF FileInv

(* The temporary file is opened: it is not the live one.                   *)
LEMMA CreateFileInv ==
  ASSUME FileInv, NEW w \in Writers, CreateTmp(w)
  PROVE  FileInv'
<1> USE MaxChangesAssumption, NoFileIsNone
<1>0. /\ MetaTypeOK /\ WritesInside /\ EpochsStaged /\ Alone /\ TmpIsOwn /\ NotLive
      /\ SharedIsSpoiled /\ MetaDurable
  BY DEF FileInv
<1>1. PICK i \in IF metaTmp = NoFile THEN Inodes \ InUse ELSE {metaTmp} :
         /\ metaTmp' = i
         /\ content' = [content EXCEPT ![i] = {}]
         /\ writer' = [writer EXCEPT ![w].pc = "write", ![w].file = i]
  BY Zenon DEF CreateTmp
<1>2. /\ writer[w].pc = "create"
      /\ UNCHANGED <<writeEpoch, mutex, meta, ackedEpoch, shared, spoiled>>
  BY DEF CreateTmp, historyVars
<1>3. i \in Inodes /\ i # meta /\ i # NoFile
  BY <1>0, <1>1 DEF InUse, NotLive, MetaTypeOK
<1>4. writer \in [Writers -> WriterType]
  BY <1>0 DEF MetaTypeOK, WriterType
<1>5. /\ writer' \in [Writers -> WriterType]
      /\ \A v \in Writers : v # w => writer'[v] = writer[v]
      /\ writer'[w].pc = "write" /\ writer'[w].file = i /\ writer'[w].epoch = writer[w].epoch
  BY <1>1, <1>3, <1>4 DEF WriterType, WriterPC
<1>6. /\ content' \in [Inodes -> SUBSET (0..MaxChanges)] /\ content'[i] = {}
      /\ meta # NoFile => content'[meta] = content[meta]
  BY <1>0, <1>1, <1>3 DEF MetaTypeOK
<1>7. MetaTypeOK'
  BY <1>0, <1>1, <1>2, <1>3, <1>5, <1>6 DEF MetaTypeOK, WriterType
<1>8. WritesInside'
  BY <1>0, <1>2, <1>5 DEF WritesInside
<1>9. EpochsStaged'
  BY <1>0, <1>2, <1>5 DEF EpochsStaged
<1>10. Alone'
  BY <1>0, <1>2, <1>5 DEF Alone
<1>11. TmpIsOwn'
  <2> SUFFICES ASSUME NEW v \in Writers, v \notin shared', writer'[v].pc # "idle"
               PROVE  /\ writer'[v].pc = "write" =>
                            metaTmp' # NoFile /\ writer'[v].file = metaTmp' /\ content'[metaTmp'] = {}
                      /\ writer'[v].pc = "rename" =>
                            metaTmp' # NoFile /\ content'[metaTmp'] = {writeEpoch'}
    BY DEF TmpIsOwn
  <2>1. v = w
    BY <1>5, <1>10 DEF Alone
  <2> QED
    BY <1>1, <1>3, <1>5, <1>6, <2>1
<1>12. NotLive' /\ MetaDurable'
  BY <1>0, <1>1, <1>2, <1>3, <1>6 DEF NotLive, MetaDurable, Readable, OnDisk
<1>13. SharedIsSpoiled'
  BY <1>0, <1>2, <1>4, <1>5 DEF SharedIsSpoiled, MetaTypeOK
<1> QED
  BY <1>7, <1>8, <1>9, <1>10, <1>11, <1>12, <1>13 DEF FileInv

(* The entry is written: into the live file only by a write that another   *)
(* has overlapped.                                                         *)
LEMMA WriteFileInv ==
  ASSUME FileInv, NEW w \in Writers, WriteTmp(w)
  PROVE  FileInv'
<1> USE MaxChangesAssumption, NoFileIsNone
<1>0. /\ MetaTypeOK /\ WritesInside /\ EpochsStaged /\ Alone /\ TmpIsOwn /\ NotLive
      /\ SharedIsSpoiled /\ MetaDurable
  BY DEF FileInv
<1> DEFINE i == writer[w].file
<1>1. /\ writer[w].pc = "write"
      /\ \/ content' = [content EXCEPT ![i] = {writer[w].epoch}]
         \/ content' = [content EXCEPT ![i] = @ \union {writer[w].epoch}]
      /\ writer' = [writer EXCEPT ![w].pc = "rename", ![w].file = NoFile]
      /\ UNCHANGED <<writeEpoch, mutex, metaTmp, meta, ackedEpoch, shared, spoiled>>
  BY DEF WriteTmp, historyVars
<1>2. /\ writer \in [Writers -> WriterType] /\ writer[w].epoch \in 0..MaxChanges
  BY <1>0 DEF MetaTypeOK, WriterType
<1>3. /\ writer' \in [Writers -> WriterType]
      /\ \A v \in Writers : v # w => writer'[v] = writer[v]
      /\ writer'[w].pc = "rename" /\ writer'[w].epoch = writer[w].epoch
  BY <1>1, <1>2 DEF WriterType, WriterPC
<1>4. content' \in [Inodes -> SUBSET (0..MaxChanges)]
  BY <1>0, <1>1, <1>2 DEF MetaTypeOK
<1>5. MetaTypeOK'
  BY <1>0, <1>1, <1>3, <1>4 DEF MetaTypeOK, WriterType
<1>6. WritesInside'
  BY <1>0, <1>1, <1>3 DEF WritesInside
<1>7. EpochsStaged'
  BY <1>0, <1>1, <1>3 DEF EpochsStaged
<1>8. Alone'
  BY <1>0, <1>1, <1>3 DEF Alone
<1>9. w \notin shared => /\ metaTmp # NoFile /\ i = metaTmp /\ metaTmp # meta
                         /\ content'[metaTmp] = {writeEpoch}
                         /\ meta # NoFile => content'[meta] = content[meta]
  <2> SUFFICES ASSUME w \notin shared
               PROVE  /\ metaTmp # NoFile /\ i = metaTmp /\ metaTmp # meta
                      /\ content'[metaTmp] = {writeEpoch}
                      /\ meta # NoFile => content'[meta] = content[meta]
    OBVIOUS
  <2>1. /\ metaTmp # NoFile /\ i = metaTmp /\ content[metaTmp] = {}
        /\ writer[w].epoch = writeEpoch /\ metaTmp # meta
    BY <1>0, <1>1 DEF TmpIsOwn, Alone, NotLive
  <2>2. metaTmp \in Inodes /\ (meta # NoFile => meta \in Inodes)
    BY <1>0, <2>1 DEF MetaTypeOK
  <2>3. content \in [Inodes -> SUBSET (0..MaxChanges)]
    BY <1>0 DEF MetaTypeOK
  <2> HIDE DEF i
  <2> QED
    BY <1>1, <2>1, <2>2, <2>3
<1>10. TmpIsOwn'
  <2> SUFFICES ASSUME NEW v \in Writers, v \notin shared', writer'[v].pc # "idle"
               PROVE  /\ writer'[v].pc = "write" =>
                            metaTmp' # NoFile /\ writer'[v].file = metaTmp' /\ content'[metaTmp'] = {}
                      /\ writer'[v].pc = "rename" =>
                            metaTmp' # NoFile /\ content'[metaTmp'] = {writeEpoch'}
    BY DEF TmpIsOwn
  <2>1. v = w
    BY <1>3, <1>8 DEF Alone
  <2> QED
    BY <1>1, <1>3, <1>9, <2>1
<1>11. NotLive'
  BY <1>0, <1>1 DEF NotLive
<1>12. MetaDurable'
  <2>1. CASE spoiled
    BY <1>1, <2>1 DEF MetaDurable
  <2>2. CASE ~spoiled
    <3>1. w \notin shared
      BY <1>0, <2>2 DEF SharedIsSpoiled
    <3> QED
      BY <1>0, <1>1, <1>9, <2>2, <3>1 DEF MetaDurable, Readable, OnDisk
  <2> QED
    BY <2>1, <2>2
<1>13. SharedIsSpoiled'
  BY <1>0, <1>1, <1>2, <1>3 DEF SharedIsSpoiled, MetaTypeOK
<1> QED
  BY <1>5, <1>6, <1>7, <1>8, <1>10, <1>11, <1>12, <1>13 DEF FileInv

(* The end of a write: the rename, or an error.  A rename that nothing     *)
(* overlaps puts the entry in memory on the disk.                          *)
LEMMA EndFileInv ==
  ASSUME FileInv, NEW w \in Writers, RenameTmp(w) \/ WriteFails(w)
  PROVE  FileInv'
<1> USE MaxChangesAssumption, NoFileIsNone
<1>0. /\ MetaTypeOK /\ WritesInside /\ EpochsStaged /\ Alone /\ TmpIsOwn /\ NotLive
      /\ SharedIsSpoiled /\ MetaDurable
  BY DEF FileInv
<1>1. /\ writer' = [writer EXCEPT ![w] = IdleWriter] /\ mutex' = mutex \ {w}
      /\ shared' = shared \ {w} /\ writer[w].pc # "idle"
      /\ UNCHANGED <<writeEpoch, content>>
  BY DEF RenameTmp, WriteFails, Done
<1>2. /\ writer \in [Writers -> WriterType] /\ writer[w].epoch \in 0..MaxChanges
      /\ \A v \in Writers : writer[v].epoch \in Nat
  BY <1>0 DEF MetaTypeOK, WriterType
<1>3. /\ writer' \in [Writers -> WriterType]
      /\ \A v \in Writers : v # w => writer'[v] = writer[v]
      /\ writer'[w].pc = "idle" /\ writer'[w].epoch = 0
  BY <1>1, <1>2 DEF WriterType, WriterPC, IdleWriter
<1>4. /\ writeEpoch \in Nat /\ ackedEpoch \in Nat /\ writer[w].epoch <= writeEpoch
      /\ ackedEpoch <= writeEpoch
  BY <1>0 DEF MetaTypeOK, EpochsStaged
<1>5. WritesInside' /\ Alone'
  BY <1>0, <1>1, <1>3 DEF WritesInside, Alone
<1>6. \A v \in Writers : v # w /\ v \notin shared => writer[v].pc = "idle"
  BY <1>0, <1>1 DEF Alone
<1>7. TmpIsOwn'
  BY <1>1, <1>3, <1>6 DEF TmpIsOwn
<1>8. CASE WriteFails(w)
  <2>1. UNCHANGED <<metaTmp, meta, ackedEpoch, spoiled>>
    BY <1>8 DEF WriteFails
  <2>2. MetaTypeOK'
    BY <1>0, <1>1, <1>3, <2>1 DEF MetaTypeOK, WriterType
  <2>3. EpochsStaged'
    BY <1>0, <1>1, <1>2, <1>3, <1>4, <2>1 DEF EpochsStaged
  <2>4. NotLive' /\ MetaDurable'
    BY <1>0, <1>1, <2>1 DEF NotLive, MetaDurable, Readable, OnDisk
  <2>5. SharedIsSpoiled'
    BY <1>0, <1>1, <1>3, <2>1 DEF SharedIsSpoiled, MetaTypeOK
  <2> QED
    BY <1>5, <1>7, <2>2, <2>3, <2>4, <2>5 DEF FileInv
<1>9. CASE RenameTmp(w)
  <2>1. /\ writer[w].pc = "rename" /\ metaTmp # NoFile
        /\ meta' = metaTmp /\ metaTmp' = NoFile
        /\ ackedEpoch' \in {ackedEpoch, writer[w].epoch}
        /\ ackedEpoch' = IF ackedEpoch < writer[w].epoch THEN writer[w].epoch ELSE ackedEpoch
        /\ spoiled' = (spoiled /\ w \in shared)
    BY <1>9 DEF RenameTmp
  <2>2. MetaTypeOK'
    BY <1>0, <1>1, <1>2, <1>3, <2>1 DEF MetaTypeOK, WriterType
  <2>3. EpochsStaged'
    BY <1>0, <1>1, <1>3, <1>4, <2>1 DEF EpochsStaged
  <2>4. NotLive'
    BY <2>1 DEF NotLive
  <2>5. SharedIsSpoiled'
    <3>1. w \notin shared => shared = {}
      BY <1>0, <1>1 DEF SharedIsSpoiled, Alone, MetaTypeOK
    <3> QED
      BY <1>0, <1>1, <1>3, <2>1, <3>1 DEF SharedIsSpoiled, MetaTypeOK
  <2>6. MetaDurable'
    <3>1. CASE w \notin shared
      <4>1. content[metaTmp] = {writeEpoch}
        BY <1>0, <2>1, <3>1 DEF TmpIsOwn
      <4>2. OnDisk' = {writeEpoch} /\ meta' # NoFile
        BY <1>1, <2>1, <4>1 DEF OnDisk
      <4>3. ackedEpoch' <= writeEpoch
        BY <1>4, <2>1
      <4> QED
        BY <4>2, <4>3 DEF MetaDurable, Readable
    <3>2. CASE w \in shared
      BY <1>0, <2>1, <3>2 DEF SharedIsSpoiled, MetaDurable
    <3> QED
      BY <3>1, <3>2
  <2> QED
    BY <1>5, <1>7, <2>2, <2>3, <2>4, <2>5, <2>6 DEF FileInv
<1> QED
  BY <1>8, <1>9

(* The daemon dies: what it reads back is what it knows from then on.      *)
LEMMA CrashFileInv ==
  ASSUME FileInv, MetaCrash
  PROVE  FileInv'
<1> USE MaxChangesAssumption, NoFileIsNone
<1>0. MetaTypeOK /\ NotLive /\ MetaDurable
  BY DEF FileInv
<1>1. /\ Readable /\ writeEpoch' \in OnDisk /\ mutex' = {}
      /\ writer' = [w \in Writers |-> IdleWriter]
      /\ ackedEpoch' = IF spoiled THEN writeEpoch' ELSE ackedEpoch
      /\ shared' = {} /\ spoiled' = FALSE /\ UNCHANGED <<content, metaTmp, meta>>
  BY DEF MetaCrash
<1>2. OnDisk \subseteq 0..MaxChanges /\ OnDisk' = OnDisk
  BY <1>0, <1>1 DEF MetaTypeOK, OnDisk
<1>3. IdleWriter \in WriterType /\ IdleWriter.pc = "idle" /\ IdleWriter.epoch = 0
  BY DEF IdleWriter, WriterType, WriterPC
<1>4. OnDisk = {writeEpoch'} /\ meta # NoFile
  BY <1>1 DEF Readable, OnDisk
<1>5. ackedEpoch' <= writeEpoch' /\ ackedEpoch' \in 0..MaxChanges /\ writeEpoch' \in 0..MaxChanges
  BY <1>0, <1>1, <1>2, <1>4 DEF MetaTypeOK, MetaDurable
<1>6. MetaTypeOK'
  BY <1>0, <1>1, <1>3, <1>5 DEF MetaTypeOK, WriterType
<1>7. WritesInside' /\ EpochsStaged' /\ Alone' /\ TmpIsOwn' /\ SharedIsSpoiled' /\ NotLive'
  BY <1>0, <1>1, <1>3, <1>5
  DEF WritesInside, EpochsStaged, Alone, TmpIsOwn, SharedIsSpoiled, NotLive
<1>8. MetaDurable'
  BY <1>1, <1>2, <1>4, <1>5 DEF MetaDurable, Readable
<1> QED
  BY <1>6, <1>7, <1>8 DEF FileInv

(* So it holds in every state of every behaviour.                          *)
LEMMA AlwaysFileInv == MetaSpec => []FileInv
<1>1. FileInv /\ [MetaNext]_metaVars => FileInv'
  <2> SUFFICES ASSUME FileInv, [MetaNext]_metaVars PROVE FileInv'
    OBVIOUS
  <2>1. CASE UNCHANGED metaVars
    BY <2>1
    DEF metaVars, historyVars, FileInv, MetaTypeOK, WritesInside, EpochsStaged, Alone,
        TmpIsOwn, NotLive, SharedIsSpoiled, MetaDurable, Readable, OnDisk
  <2> QED
    BY <2>1, StageFileInv, CreateFileInv, WriteFileInv, EndFileInv, CrashFileInv DEF MetaNext
<1> QED
  BY InitFileInv, <1>1, PTL DEF MetaSpec

(* Once meta.json exists it can be parsed at every instant and is not      *)
(* older than an acknowledged status, whichever writers are inside the     *)
(* mutex (update_status) and whichever outside (flush_status), unless      *)
(* writes that were under way at once have left it so.                     *)
THEOREM MetaIsDurable == MetaSpec => []MetaDurable
<1>1. FileInv => MetaDurable
  BY DEF FileInv
<1> QED
  BY <1>1, AlwaysFileInv, PTL

(* With every change inside the mutex there is no such moment.             *)
THEOREM UpdatesAreAtomic ==
  ASSUME Staged = {} PROVE MetaSpec => [](meta # NoFile => Readable /\ ~spoiled)
<1>1. MetaInit => ~spoiled
  BY DEF MetaInit
<1>2. FileInv /\ ~spoiled /\ [MetaNext]_metaVars => ~spoiled'
  <2> SUFFICES ASSUME FileInv, ~spoiled, [MetaNext]_metaVars PROVE ~spoiled'
    OBVIOUS
  <2> QED
    BY DEF MetaNext, StageEntry, NoteOverlaps, Overlaps, CreateTmp, WriteTmp, RenameTmp,
       WriteFails, MetaCrash, metaVars, historyVars
<1>3. FileInv /\ ~spoiled => (meta # NoFile => Readable /\ ~spoiled)
  BY DEF FileInv, MetaDurable
<1> QED
  BY <1>1, <1>2, <1>3, AlwaysFileInv, PTL DEF MetaSpec

----------------------------------------------------------------------------
(* The processes.                                                          *)

(* As much of the types as the proofs use.                                 *)
LifeTypeOK ==
    /\ DOMAIN pc = Daemons
    /\ DOMAIN inode = Daemons
    /\ pidFile \in Int
    /\ marker \in BOOLEAN /\ unlinked \in BOOLEAN

(* Until somebody unlinks it, everybody has the same daemon.pid open.      *)
SameFile ==
    \A d \in Daemons :
        HasOpen(d) => inode[d] # 0 /\ (inode[d] = pidFile \/ unlinked)

(* Who may remove the marker finds it there.                               *)
MarkerStands == \A d \in Daemons : pc[d] \in Marked => marker \/ unlinked

(* A start that would leave a crash uncounted has not looked yet.          *)
NobodyPassed ==
    uncounted # {} =>
       \/ unlinked
       \/ marker /\ \A d \in Daemons : ~HasOpen(d) /\ pc[d] # "open"

LifeInv == LifeTypeOK /\ SameFile /\ LockIsExclusive /\ MarkerStands /\ NobodyPassed

(* No process has been started.                                            *)
LEMMA InitLifeInv == LifeInit => LifeInv
<1> SUFFICES ASSUME LifeInit PROVE LifeInv
  OBVIOUS
<1>1. \A d \in Daemons : pc[d] = "off"
  BY DEF LifeInit
<1>2. /\ DOMAIN pc = Daemons /\ DOMAIN inode = Daemons /\ pidFile = 0
      /\ uncounted = {}
  BY DEF LifeInit
<1>3. marker \in BOOLEAN /\ unlinked \in BOOLEAN
  BY Zenon DEF LifeInit
<1> QED
  BY <1>1, <1>2, <1>3
  DEF LifeInv, LifeTypeOK, SameFile, LockIsExclusive, MarkerStands, NobodyPassed,
      HasOpen, Locked, Marked

(* After an unlink, whoever had the file open under its name is remembered *)
(* by the history variable.                                                *)
LEMMA UnlinkIsSeen ==
  ASSUME unlinked \in BOOLEAN, Unlink
  PROVE  /\ pidFile' = 0 /\ unlinked' \in BOOLEAN
         /\ unlinked => unlinked'
         /\ \A d \in Daemons : HasOpen(d) /\ inode[d] = pidFile => unlinked'
  BY Zenon DEF Unlink

(* The invariant is inductive, action by action.                           *)
LEMMA NextLifeInv == LifeInv /\ [LifeNext]_lifeVars => LifeInv'
<1> SUFFICES ASSUME LifeInv, [LifeNext]_lifeVars PROVE LifeInv'
  OBVIOUS
<1> USE DaemonAssumption DEF LifeInv, LifeTypeOK, SameFile, LockIsExclusive,
        MarkerStands, NobodyPassed, HasOpen, Locked, Marked, Goes, Exit,
        files, users, ghosts
<1>1. ASSUME NEW d \in Daemons, Launch(d) PROVE LifeInv'
  BY <1>1 DEF Launch
<1>2. ASSUME NEW d \in Daemons, ParentWrites(d) PROVE LifeInv'
  BY <1>2 DEF ParentWrites
<1>3. ASSUME NEW d \in Daemons, Probe(d) PROVE LifeInv'
  BY <1>3 DEF Probe
<1>4. ASSUME NEW d \in Daemons, Detect(d) PROVE LifeInv'
  BY <1>4 DEF Detect
<1>5. ASSUME NEW d \in Daemons, OpenPidFile(d) PROVE LifeInv'
  BY <1>5 DEF OpenPidFile
<1>6. ASSUME NEW d \in Daemons, LockPidFile(d) PROVE LifeInv'
  BY <1>6 DEF LockPidFile, Holds
<1>7. ASSUME NEW d \in Daemons, AlreadyRunning(d) PROVE LifeInv'
  BY <1>7 DEF AlreadyRunning, Holds
<1>8. ASSUME NEW d \in Daemons, WriteMarker(d) PROVE LifeInv'
  BY <1>8 DEF WriteMarker
<1>9. ASSUME NEW d \in Daemons, CleanupStaleSocket(d) PROVE LifeInv'
  BY <1>9 DEF CleanupStaleSocket
<1>10. ASSUME NEW d \in Daemons, AnotherIsRunning(d) PROVE LifeInv'
  BY <1>10 DEF AnotherIsRunning
<1>11. ASSUME NEW d \in Daemons, Bind(d) PROVE LifeInv'
  BY <1>11 DEF Bind
<1>12. ASSUME NEW d \in Daemons, CleanupSocket(d) PROVE LifeInv'
  BY <1>12 DEF CleanupSocket
<1>13. ASSUME NEW d \in Daemons, Signal(d) PROVE LifeInv'
  BY <1>13 DEF Signal
<1>14. ASSUME NEW d \in Daemons, RemoveMarker(d) PROVE LifeInv'
  BY <1>14 DEF RemoveMarker
<1>15. ASSUME NEW d \in Daemons, Unlock(d) PROVE LifeInv'
  BY <1>15 DEF Unlock
<1>16. ASSUME NEW d \in Daemons, RemovePidFile(d) PROVE LifeInv'
  BY <1>16, UnlinkIsSeen DEF RemovePidFile
<1>17. ASSUME NEW d \in Daemons, Dies(d) PROVE LifeInv'
  BY <1>17 DEF Dies, Looked, Alive
<1>18. CASE StopRequest
  BY <1>18 DEF StopRequest
<1>19. CASE StopRemovesPidFile
  BY <1>19, UnlinkIsSeen DEF StopRemovesPidFile
<1>20. CASE UNCHANGED lifeVars
  BY <1>20 DEF lifeVars
<1> QED
  BY <1>1, <1>2, <1>3, <1>4, <1>5, <1>6, <1>7, <1>8, <1>9, <1>10, <1>11,
     <1>12, <1>13, <1>14, <1>15, <1>16, <1>17, <1>18, <1>19, <1>20
  DEF LifeNext, Start, Serve, ShutDown

(* So it holds in every state of every behaviour.                          *)
LEMMA AlwaysLifeInv == LifeSpec => []LifeInv
  BY InitLifeInv, NextLifeInv, PTL DEF LifeSpec

(* Two processes never hold the lock on daemon.pid at once, unless it has  *)
(* been removed under one of them: neither the PID that a parent writes    *)
(* nor the death of the holder opens a gap.                                *)
THEOREM PidLockIsExclusive == LifeSpec => []LockIsExclusive
<1>1. LifeInv => LockIsExclusive
  BY DEF LifeInv
<1> QED
  BY <1>1, AlwaysLifeInv, PTL

(* An unclean exit stays visible to the next start until it is counted:    *)
(* the marker goes while the lock is still held.                           *)
THEOREM EveryCrashIsCounted == LifeSpec => []CrashesAreCounted
<1>1. LifeInv => CrashesAreCounted
  BY DEF LifeInv, NobodyPassed, CrashesAreCounted
<1> QED
  BY <1>1, AlwaysLifeInv, PTL
=============================================================================

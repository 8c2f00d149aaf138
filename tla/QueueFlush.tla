----------------------------- MODULE QueueFlush -----------------------------
(***************************************************************************)
(* The stage/flush protocol that persists the pending queues in            *)
(* ~/.gw/queue.json (src/src/daemon/registry.rs, INV-19): a mutation       *)
(* stages a snapshot under the registry mutex, and the caller flushes it   *)
(* after the mutex is released, on whatever worker thread it runs.         *)
(*                                                                         *)
(* The steps of flush_queue that other threads can see are actions of      *)
(* their own.  A file is the set of the snapshots it holds completely: one *)
(* or none; an empty, torn or missing queue.json loads as empty queues.    *)
(* The epoch in a file is a history variable, the wire format has none.    *)
(***************************************************************************)
EXTENDS Naturals, FiniteSets

CONSTANTS
    Items,       \* pending runs
    Flushers,    \* tasks that mutate the queue and flush it
    MaxEpoch,    \* snapshots staged in one life of the daemon (model bound)
    Faults       \* subset of {"io", "crash"}

ASSUME MaxEpochAssumption == MaxEpoch \in Nat

VARIABLES
    mem,        \* pending_queues
    epoch,      \* queue_epoch
    tracker,    \* queue_last_flushed_epoch
    flush,      \* the flush_queue call of each task
    tmp,        \* the files queue.json.tmp.<epoch>
    disk,       \* queue.json
    fresh,      \* runs not submitted yet
    acked,      \* runs whose client was answered RunQueued
    removed     \* runs taken out of the queue

vars == <<mem, epoch, tracker, flush, tmp, disk, fresh, acked, removed>>

----------------------------------------------------------------------------
Epochs == 1..MaxEpoch

File == [epoch : 0..MaxEpoch, items : SUBSET Items]

FlushPC == {"idle", "check", "create", "write", "advance", "rename"}

Idle == [pc |-> "idle", epoch |-> 0, items |-> {}, adds |-> {}]

Content(file) == UNION {x.items : x \in file}

Snapshot(f) == [epoch |-> flush[f].epoch, items |-> flush[f].items]

(* Mutant: one temporary file for all snapshots.                           *)
TmpName_Fixed(f) == 1

(* queue.json.tmp.<epoch>: a file of its own for every snapshot (SEC-001). *)
TmpName(f) == flush[f].epoch

Init ==
    /\ mem = {}
    /\ epoch = 0
    /\ tracker = 0
    /\ flush = [f \in Flushers |-> Idle]
    /\ tmp = [e \in Epochs |-> {}]
    /\ disk = {}
    /\ fresh = Items
    /\ acked = {}
    /\ removed = {}

----------------------------------------------------------------------------
(* A mutation and stage_queue_locked, in one critical section.             *)
Stage(f, items, adds) ==
    /\ flush[f].pc = "idle"
    /\ epoch < MaxEpoch
    /\ epoch' = epoch + 1
    /\ mem' = items
    /\ flush' = [flush EXCEPT ![f] = [pc |-> "check", epoch |-> epoch',
                                      items |-> items, adds |-> adds]]
    /\ UNCHANGED <<tracker, tmp, disk, acked>>

Enqueue(f, x) ==
    /\ x \in fresh
    /\ Stage(f, mem \union {x}, {x})
    /\ fresh' = fresh \ {x}
    /\ UNCHANGED removed

Dequeue(f, x) ==
    /\ x \in mem
    /\ Stage(f, mem \ {x}, {})
    /\ removed' = removed \union {x}
    /\ UNCHANGED fresh

----------------------------------------------------------------------------
(* flush_queue returns Ok: the caller answers RunQueued.                   *)
Succeed(f) ==
    /\ flush' = [flush EXCEPT ![f] = Idle]
    /\ acked' = acked \union flush[f].adds

Goto(f, pc) ==
    /\ flush' = [flush EXCEPT ![f].pc = pc]
    /\ UNCHANGED acked

(* The stale-snapshot guard at entry.                                      *)
Check(f) ==
    /\ flush[f].pc = "check"
    /\ IF flush[f].epoch <= tracker THEN Succeed(f) ELSE Goto(f, "create")
    /\ UNCHANGED <<mem, epoch, tracker, tmp, disk, fresh, removed>>

(* File::create truncates the file.                                        *)
Create(f) ==
    /\ flush[f].pc = "create"
    /\ tmp' = [tmp EXCEPT ![TmpName(f)] = {}]
    /\ Goto(f, "write")
    /\ UNCHANGED <<mem, epoch, tracker, disk, fresh, removed>>

(* write_all and sync_all.                                                 *)
Write(f) ==
    /\ flush[f].pc = "write"
    /\ tmp' = [tmp EXCEPT ![TmpName(f)] = {Snapshot(f)}]
    /\ Goto(f, "advance")
    /\ UNCHANGED <<mem, epoch, tracker, disk, fresh, removed>>

(* Mutant: the tracker takes the registry's epoch, not the snapshot's.     *)
Advance_CurrentEpoch(f) ==
    /\ flush[f].pc = "advance"
    /\ \/ /\ flush[f].epoch <= tracker
          /\ tmp' = [tmp EXCEPT ![TmpName(f)] = {}]
          /\ Succeed(f)
          /\ UNCHANGED tracker
       \/ /\ flush[f].epoch > tracker
          /\ tracker' = epoch
          /\ Goto(f, "rename")
          /\ UNCHANGED tmp
    /\ UNCHANGED <<mem, epoch, disk, fresh, removed>>

(* The second guard: fetch_max on the tracker; the file of a superseded    *)
(* snapshot is removed.                                                    *)
Advance(f) ==
    /\ flush[f].pc = "advance"
    /\ \/ /\ flush[f].epoch <= tracker
          /\ tmp' = [tmp EXCEPT ![TmpName(f)] = {}]
          /\ Succeed(f)
          /\ UNCHANGED tracker
       \/ /\ flush[f].epoch > tracker
          /\ tracker' = flush[f].epoch
          /\ Goto(f, "rename")
          /\ UNCHANGED tmp
    /\ UNCHANGED <<mem, epoch, disk, fresh, removed>>

Rename(f) ==
    /\ flush[f].pc = "rename"
    /\ disk' = tmp[TmpName(f)]
    /\ tmp' = [tmp EXCEPT ![TmpName(f)] = {}]
    /\ Succeed(f)
    /\ UNCHANGED <<mem, epoch, tracker, fresh, removed>>

(* An I/O error: the caller logs it, or answers Error to the submitter; no *)
(* caller undoes the mutation or retries the flush.                        *)
FlushFails(f) ==
    /\ "io" \in Faults
    /\ flush[f].pc \in {"create", "write", "rename"}
    /\ flush' = [flush EXCEPT ![f] = Idle]
    /\ tmp' = [tmp EXCEPT ![TmpName(f)] = IF flush[f].pc = "create" THEN @ ELSE {}]
    /\ UNCHANGED <<mem, epoch, tracker, disk, fresh, acked, removed>>

(* The daemon dies and starts again: RunRegistry::new, load_queue and      *)
(* restore_queue.                                                          *)
Crash ==
    /\ "crash" \in Faults
    /\ mem' = Content(disk)
    /\ epoch' = 0
    /\ tracker' = 0
    /\ flush' = [f \in Flushers |-> Idle]
    /\ disk' = {[x EXCEPT !.epoch = 0] : x \in disk}
    /\ UNCHANGED <<tmp, fresh, acked, removed>>

Next ==
    \/ \E f \in Flushers :
         \/ \E x \in Items : Enqueue(f, x) \/ Dequeue(f, x)
         \/ Check(f) \/ Create(f) \/ Write(f) \/ Advance(f) \/ Rename(f)
         \/ FlushFails(f)
    \/ Crash

Spec == Init /\ [][Next]_vars

----------------------------------------------------------------------------
TypeOK ==
    /\ mem \subseteq Items
    /\ epoch \in 0..MaxEpoch
    /\ tracker \in 0..MaxEpoch
    /\ flush \in [Flushers -> [pc : FlushPC, epoch : 0..MaxEpoch,
                               items : SUBSET Items, adds : SUBSET Items]]
    /\ tmp \in [Epochs -> SUBSET File]
    /\ disk \subseteq File
    /\ fresh \subseteq Items
    /\ acked \subseteq Items
    /\ removed \subseteq Items

(* The newest snapshot is never taken for a stale one: the flush of the    *)
(* last mutation is not skipped by either guard of flush_queue, however    *)
(* many flushes are in progress.                                           *)
NewestNotSkipped ==
    \A f \in Flushers :
        /\ flush[f].pc \in {"check", "create", "write", "advance"}
        /\ flush[f].epoch = epoch
        => tracker < epoch

(* What a flush renames into place is its own complete snapshot: neither a *)
(* concurrent flush nor a file left behind by an earlier life of the       *)
(* daemon gets into it (SEC-001).                                          *)
RenamesOwnSnapshot ==
    \A f \in Flushers :
        flush[f].pc = "rename" => tmp[TmpName(f)] = {Snapshot(f)}

(* "The on-disk state already supersedes this snapshot" (registry.rs:1447):*)
(* whose submission has been answered RunQueued is in queue.json until it  *)
(* is taken out of the queue.  Refuted with two flushes at a time: the     *)
(* stale one answers when the newer one has advanced the tracker, not when *)
(* it has reached the disk.                                                *)
Durable == acked \ removed \subseteq Content(disk)

(* "Out-of-order flushes never roll back on-disk state" (registry.rs:21):  *)
(* when nobody is about to rename, queue.json holds the newest snapshot    *)
(* that passed the second guard.  Refuted with two flushes at a time:      *)
(* fetch_max and rename are two steps, and the renames may swap.           *)
NoRollback ==
    (\A f \in Flushers : flush[f].pc # "rename") => \A x \in disk : x.epoch = tracker
=============================================================================

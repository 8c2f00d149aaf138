----------------------------- MODULE MetaFlush ------------------------------
(***************************************************************************)
(* How the entry of one run reaches ~/.gw/runs/<id>/meta.json              *)
(* (src/src/daemon/registry.rs): update_status writes the file inside the  *)
(* registry mutex, stage_status_locked + flush_status (INV-19) after it is *)
(* released.  Both end in write_meta, whose temporary file has one fixed   *)
(* name, so concurrent writers may share one open file: File::create       *)
(* truncates what the other has written, and after a rename the other's    *)
(* descriptor still points into the live meta.json.                        *)
(*                                                                         *)
(* A file content is the set of the entries whose bytes are in it, each    *)
(* represented by its write_epoch: {} is an empty file, {e} one that       *)
(* parses, anything else is torn.  There is one run, and the epoch of its  *)
(* entry stands for all the fields.                                        *)
(***************************************************************************)
EXTENDS Naturals, FiniteSets

CONSTANTS
    Writers,     \* tasks that change the status of the run
    Staged,      \* those that flush outside the mutex
    MaxChanges,  \* status changes (model bound)
    MetaFaults   \* subset of {"io", "crash"}

ASSUME StagedAssumption == Staged \subseteq Writers
ASSUME MaxChangesAssumption == MaxChanges \in Nat

VARIABLES
    writeEpoch,    \* RunEntry::write_epoch in memory
    mutex,         \* the writers inside the registry mutex (one or none)
    writer,        \* the write_meta call of each writer
    content,       \* what each file (inode) holds
    metaTmp,       \* the inode named meta.json.tmp, or NoFile
    meta,          \* the inode named meta.json, or NoFile
    ackedEpoch,    \* the newest epoch whose flush returned Ok
    shared,        \* history: writers that another write has overlapped
    spoiled        \* history: meta.json may be what such writes have left

historyVars == <<shared, spoiled>>
metaVars == <<writeEpoch, mutex, writer, content, metaTmp, meta, ackedEpoch,
              historyVars>>

----------------------------------------------------------------------------
NoFile == 0

(* Each writer has at most one file open, and two names hold one each.     *)
Inodes == 1..(Cardinality(Writers) + 2)

WriterPC == {"idle", "create", "write", "rename"}

IdleWriter == [pc |-> "idle", epoch |-> 0, file |-> NoFile]

OnDisk == IF meta = NoFile THEN {} ELSE content[meta]

(* load_from_disk can parse it.                                            *)
Readable == \E e \in OnDisk : OnDisk = {e}

InUse == {metaTmp, meta} \union {writer[w].file : w \in Writers}

MetaInit ==
    /\ writeEpoch = 0
    /\ mutex = {}
    /\ writer = [w \in Writers |-> IdleWriter]
    /\ content = [i \in Inodes |-> {}]
    /\ metaTmp = NoFile
    /\ meta = NoFile
    /\ ackedEpoch = 0
    /\ shared = {}
    /\ spoiled = FALSE

----------------------------------------------------------------------------
(* The writes under way that one of w overlaps without the mutex between   *)
(* the two.  A write is under way from the moment it is staged.            *)
Overlaps(w) ==
    {v \in Writers : writer[v].pc # "idle" /\ (v \in Staged \/ w \in Staged)}

NoteOverlaps(w) ==
    /\ shared' = IF Overlaps(w) = {} THEN shared
                 ELSE shared \union Overlaps(w) \union {w}
    /\ spoiled' = (spoiled \/ Overlaps(w) # {})

(* Mutant: update_status writes after releasing the mutex.                 *)
StageEntry_ReleasesMutex(w) ==
    /\ writer[w].pc = "idle"
    /\ writeEpoch < MaxChanges
    /\ writeEpoch' = writeEpoch + 1
    /\ writer' = [writer EXCEPT ![w] = [pc |-> "create", epoch |-> writeEpoch',
                                        file |-> NoFile]]
    /\ NoteOverlaps(w)
    /\ UNCHANGED <<mutex, content, metaTmp, meta, ackedEpoch>>

(* stage_status_locked; the mutex stays taken for update_status.           *)
StageEntry(w) ==
    /\ writer[w].pc = "idle"
    /\ mutex = {}
    /\ writeEpoch < MaxChanges
    /\ writeEpoch' = writeEpoch + 1
    /\ writer' = [writer EXCEPT ![w] = [pc |-> "create", epoch |-> writeEpoch',
                                        file |-> NoFile]]
    /\ mutex' = IF w \in Staged THEN {} ELSE {w}
    /\ NoteOverlaps(w)
    /\ UNCHANGED <<content, metaTmp, meta, ackedEpoch>>

(* File::create on meta.json.tmp: an existing file is truncated.           *)
CreateTmp(w) ==
    /\ writer[w].pc = "create"
    /\ \E i \in IF metaTmp = NoFile THEN Inodes \ InUse ELSE {metaTmp} :
         /\ metaTmp' = i
         /\ content' = [content EXCEPT ![i] = {}]
         /\ writer' = [writer EXCEPT ![w].pc = "write", ![w].file = i]
    /\ UNCHANGED <<writeEpoch, mutex, meta, ackedEpoch, historyVars>>

(* write_all at offset 0 of the writer's descriptor: over the bytes of a   *)
(* longer entry it leaves a tail behind.                                   *)
WriteTmp(w) ==
    LET i == writer[w].file IN
    /\ writer[w].pc = "write"
    /\ \/ content' = [content EXCEPT ![i] = {writer[w].epoch}]
       \/ content' = [content EXCEPT ![i] = @ \union {writer[w].epoch}]
    /\ writer' = [writer EXCEPT ![w].pc = "rename", ![w].file = NoFile]
    /\ UNCHANGED <<writeEpoch, mutex, metaTmp, meta, ackedEpoch, historyVars>>

Done(w) ==
    /\ writer' = [writer EXCEPT ![w] = IdleWriter]
    /\ mutex' = mutex \ {w}
    /\ shared' = shared \ {w}

(* rename moves whatever file has the name meta.json.tmp now.              *)
RenameTmp(w) ==
    /\ writer[w].pc = "rename"
    /\ metaTmp # NoFile
    /\ meta' = metaTmp
    /\ metaTmp' = NoFile
    /\ ackedEpoch' = IF ackedEpoch < writer[w].epoch THEN writer[w].epoch ELSE ackedEpoch
    /\ spoiled' = (spoiled /\ w \in shared)
    /\ Done(w)
    /\ UNCHANGED <<writeEpoch, content>>

(* An I/O error, or another writer has renamed the temporary file away;    *)
(* every caller only logs it.                                              *)
WriteFails(w) ==
    /\ writer[w].pc \in {"create", "write", "rename"}
    /\ "io" \in MetaFaults \/ (writer[w].pc = "rename" /\ metaTmp = NoFile)
    /\ Done(w)
    /\ UNCHANGED <<writeEpoch, content, metaTmp, meta, ackedEpoch, spoiled>>

(* The daemon dies and load_from_disk reads the entry back, if it can; a   *)
(* run whose meta.json does not parse is gone and never written again.     *)
(* What overlapping writes have undone is lost with the memory of it.      *)
MetaCrash ==
    /\ "crash" \in MetaFaults
    /\ Readable
    /\ writeEpoch' \in OnDisk
    /\ mutex' = {}
    /\ writer' = [w \in Writers |-> IdleWriter]
    /\ ackedEpoch' = IF spoiled THEN writeEpoch' ELSE ackedEpoch
    /\ shared' = {} /\ spoiled' = FALSE
    /\ UNCHANGED <<content, metaTmp, meta>>

MetaNext ==
    \/ \E w \in Writers :
         \/ StageEntry(w) \/ CreateTmp(w) \/ WriteTmp(w)
         \/ RenameTmp(w) \/ WriteFails(w)
    \/ MetaCrash

MetaSpec == MetaInit /\ [][MetaNext]_metaVars

----------------------------------------------------------------------------
MetaTypeOK ==
    /\ writeEpoch \in 0..MaxChanges
    /\ mutex \subseteq Writers
    /\ writer \in [Writers -> [pc : WriterPC, epoch : 0..MaxChanges,
                               file : Inodes \union {NoFile}]]
    /\ content \in [Inodes -> SUBSET (0..MaxChanges)]
    /\ metaTmp \in Inodes \union {NoFile}
    /\ meta \in Inodes \union {NoFile}
    /\ ackedEpoch \in 0..MaxChanges
    /\ shared \subseteq Writers
    /\ spoiled \in BOOLEAN

(* Once meta.json exists it can be parsed at every instant, so that a      *)
(* crash never loses the run, and it is never older than a status whose    *)
(* write has returned Ok: neither a crash nor a failed write takes an      *)
(* acknowledged change back.  Excepted is what writes have left that were  *)
(* under way at once, one of them outside the mutex (flush_status), until  *)
(* a write that nothing overlaps has put it right.                         *)
MetaDurable ==
    \/ spoiled
    \/ /\ ackedEpoch > 0 => meta # NoFile
       /\ meta # NoFile => Readable /\ \A e \in OnDisk : ackedEpoch <= e

(* "Atomically write run metadata to disk (write tmp + rename)"            *)
(* (registry.rs:1599): meta.json always parses.  Two flush_status calls of *)
(* one run refute it.                                                      *)
NeverTorn == meta # NoFile => Readable
=============================================================================

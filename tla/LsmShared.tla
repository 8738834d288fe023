------------------------------ MODULE LsmShared ------------------------------
(***************************************************************************)
(* The snapshots of an lsm database and the blocks they are made of        *)
(* (lsm_shared.c, lsm_ckpt.c).  A worker builds a new snapshot of the      *)
(* database file from the published one, in blocks that are new or         *)
(* recycled, and publishes it in the two copies kept in shared memory.     *)
(* A reader loads the published snapshot, takes one of the read-lock slots *)
(* and checks that the snapshot is still the published one.  A             *)
(* checkpointer copies the published snapshot to one of the two meta pages *)
(* of the file, from which the database is recovered after a crash.  A     *)
(* freed block may be recycled once no reader, and no checkpoint, can need *)
(* it.                                                                     *)
(*                                                                         *)
(* The content of a block is the id of the snapshot it was written for.    *)
(* The tree id of a slot is left out: it is the in-memory tree's.  A try   *)
(* for an exclusive slot lock, the store it protects and the unlock or the *)
(* downgrade are one step, as nothing waits for a slot.                    *)
(*                                                                         *)
(* Two races defeat the scheme, and "lapse" records them.  A snapshot may  *)
(* be loaded from the second copy before it is published, and then be      *)
(* thrown away ("early").  And blocks of a checkpoint that is still being  *)
(* written may be recycled, so that recovery finds them changed            *)
(* ("recovery").                                                           *)
(***************************************************************************)
EXTENDS Naturals, FiniteSets, FiniteSetsExt, Functions

CONSTANTS
  Readers,        \* connections that read and write, and work in lsm_commit()
  Workers,        \* connections that run lsm_work()
  Checkpointers,  \* connections that run lsm_checkpoint()
  Fleets,         \* sets of connections that are open together, each with the
                  \* bounds on the ids and on the size of the file in blocks,
                  \* and the meta page in use at the start
  NREADER,        \* number of read-lock slots (LSM_LOCK_NREADER)
  NoConn, None

Conns == Readers \cup Workers \cup Checkpointers

\* The snapshots of a file of at most n blocks: the id, the content expected of
\* the blocks of the levels, the free list, which gives each free block the id
\* of the last snapshot to use it, and the size of the file in blocks.
SnapshotsOf(n) ==
  [iId : Nat \ {0},
   lvl : UNION {[S -> Nat] : S \in SUBSET (1..n)},
   free : UNION {[S -> Nat] : S \in SUBSET (1..n)},
   nBlock : 0..n]

ASSUME LsmAssumption ==
  /\ NREADER \in Nat \ {0}
  /\ NoConn \notin Conns /\ Readers \cap Workers = {}
  /\ None \notin {"early", "recovery"}
  /\ \A f \in Fleets : None \notin SnapshotsOf(f.maxBlock)
  /\ \A f \in Fleets :
       /\ f.conns \subseteq Conns
       /\ f.maxBlock \in Nat \ {0} /\ f.maxId \in Nat \ {0, 1}
       /\ f.iMetaPage \in {0, 1}

VARIABLES
  fleet,           \* the connections of this behaviour, and its bounds
  aSnap1, aSnap2,  \* the published snapshot, twice
  iMetaPage,       \* meta page of the last checkpoint, 0: there is none
  meta,            \* the meta pages; None: the checksum is wrong
  metaDirty,       \* the meta pages written since the last sync
  disk,            \* content of each block of the file
  diskDirty,       \* the blocks written since the last sync
  aReader,         \* snapshot id of each slot, 0: the slot is not in use
  lock,            \* the holders of a SHARED lock on each slot
  rd,              \* the readers: lsmBeginReadTrans() and the open transaction
  worker, wk,      \* holder of the WORKER lock and its Snapshot *pWorker
  ckptr, ck,       \* holder of the CHECKPOINTER lock and its aSnapshot[]
  lapse            \* history: which of the two races below has been lost

shm == <<aSnap1, aSnap2, iMetaPage>>
file == <<meta, metaDirty, disk, diskDirty>>
slots == <<aReader, lock>>
vars == <<shm, file, slots, rd, worker, wk, ckptr, ck, fleet, lapse>>

Slots == 1..NREADER
Blocks == 1..fleet.maxBlock
Ids == 1..fleet.maxId

\* The first snapshot (ckptLoadEmpty() gives it the id 10).
FirstId == 1

EmptySnapshot == [iId |-> FirstId, lvl |-> <<>>, free |-> <<>>, nBlock |-> 0]
OneBlock ==
  [iId |-> FirstId + 1, lvl |-> <<FirstId + 1>>, free |-> <<>>, nBlock |-> 1]

IdleReader == [pc |-> "idle", snap |-> None, copy |-> 0, i |-> 0,
               iReader |-> 0, client |-> None, worked |-> FALSE]
IdleWorker == [pc |-> "idle", p |-> None, iBefore |-> 0, iMeta |-> 0,
               iInUse |-> 0, iThis |-> 0, i |-> 0, dirty |-> FALSE]
IdleCkpt == [pc |-> "idle", snap |-> None, iMeta |-> 0]

\* One block has been written, in the first work on an empty file, and perhaps
\* checkpointed and recovered.
Init ==
  /\ fleet \in Fleets
  /\ iMetaPage = fleet.iMetaPage
  /\ aSnap1 = OneBlock /\ aSnap2 = OneBlock
  /\ meta = [m \in 1..2 |-> IF m = iMetaPage THEN OneBlock ELSE None]
  /\ disk = [b \in Blocks |-> IF b = 1 THEN OneBlock.iId ELSE 0]
  /\ metaDirty = {} /\ diskDirty = IF iMetaPage = 0 THEN {1} ELSE {}
  /\ aReader = [i \in Slots |-> IF i = 1 THEN OneBlock.iId ELSE 0]
  /\ lock = [i \in Slots |-> {}]
  /\ rd = [c \in Readers |-> IdleReader]
  /\ worker = NoConn /\ wk = IdleWorker
  /\ ckptr = NoConn /\ ck = IdleCkpt
  /\ lapse = None

\* The blocks of snapshot s hold what s expects of them.
Intact(s) == \A b \in DOMAIN s.lvl : disk[b] = s.lvl[b]

-----------------------------------------------------------------------------
(* Shared memory and locks *)

\* A copy while snapshot iId is written over its predecessor: the checksum is
\* wrong, and the id words are those of the one or of the other.
Torn(iId) == [torn |-> iId]
ChecksumOk(copy) == "torn" \notin DOMAIN copy
MayHaveId(copy, id) ==
  IF ChecksumOk(copy) THEN copy.iId = id ELSE id \in {copy.torn - 1, copy.torn}
MayDiffer(copy, id) == ChecksumOk(copy) => copy.iId # id

\* The second copy is read as a snapshot although the first is whole and older:
\* the reader saw the first one torn and was overtaken by the next save.
LoadsEarly == ChecksumOk(aSnap1) /\ ChecksumOk(aSnap2) /\ aSnap1 # aSnap2

\* An exclusive lock on slot i is granted if no other connection has a lock.
CanLock(c, i) == lock[i] \subseteq {c}

-----------------------------------------------------------------------------
(* Read transactions: lsmBeginReadTrans() *)

\* lsmCheckpointClientCacheOk(): whether the snapshot cached from the last
\* transaction may be found to be, and not to be, the published one.
CacheMayHit(client) ==
  client # None => MayHaveId(aSnap1, client.iId) /\ MayHaveId(aSnap2, client.iId)
CacheMayMiss(client) ==
  client # None => MayDiffer(aSnap1, client.iId) \/ MayDiffer(aSnap2, client.iId)

\* Mutant: the second copy is read first.
LoadSnap2First(c) ==
  /\ rd[c].pc = "idle"
  /\ CacheMayMiss(rd[c].client)
  /\ rd' = IF ChecksumOk(aSnap2)
           THEN [rd EXCEPT ![c].snap = aSnap2, ![c].copy = 2, ![c].i = 1,
                           ![c].client = None, ![c].pc = "exact"]
           ELSE [rd EXCEPT ![c].client = None, ![c].pc = "load2"]
  /\ UNCHANGED <<shm, file, slots, worker, wk, ckptr, ck, fleet, lapse>>

\* lsmCheckpointLoad(): read the first copy, and the second if the checksum of
\* the first is wrong, and so on.
LoadSnap1(c) ==
  /\ rd[c].pc = "idle"
  /\ CacheMayMiss(rd[c].client)
  /\ rd' = IF ChecksumOk(aSnap1)
           THEN [rd EXCEPT ![c].snap = aSnap1, ![c].copy = 1, ![c].i = 1,
                           ![c].client = None, ![c].pc = "exact"]
           ELSE [rd EXCEPT ![c].client = None, ![c].pc = "load2"]
  /\ UNCHANGED <<shm, file, slots, worker, wk, ckptr, ck, fleet, lapse>>

LoadSnap2(c) ==
  /\ rd[c].pc = "load2"
  /\ rd' = IF ChecksumOk(aSnap2)
           THEN [rd EXCEPT ![c].snap = aSnap2, ![c].copy = 2, ![c].i = 1,
                           ![c].pc = "exact"]
           ELSE [rd EXCEPT ![c].pc = "idle"]
  /\ lapse' = IF LoadsEarly THEN "early" ELSE lapse
  /\ UNCHANGED <<shm, file, slots, worker, wk, ckptr, ck, fleet>>

\* The snapshot cached from the last transaction is the published one.
UseCached(c) ==
  /\ rd[c].pc = "idle"
  /\ rd[c].client # None
  /\ CacheMayHit(rd[c].client)
  /\ rd' = [rd EXCEPT ![c].snap = rd[c].client, ![c].copy = 1, ![c].i = 1,
                      ![c].pc = "exact"]
  /\ UNCHANGED <<shm, file, slots, worker, wk, ckptr, ck, fleet, lapse>>

\* lsmReadlock() looks for a slot of the snapshot loaded from slot i on ...
ExactMatch(c) == {i \in rd[c].i..NREADER : aReader[i] = rd[c].snap.iId}
\* ... or of an older one.
UsableSlots(c) ==
  {i \in rd[c].i..NREADER : aReader[i] \in 1..rd[c].snap.iId}

LookExact(c) ==
  /\ rd[c].pc = "exact"
  /\ rd' = [rd EXCEPT
       ![c].pc = IF ExactMatch(c) = {} THEN "grab" ELSE "lockexact",
       ![c].i = IF ExactMatch(c) = {} THEN 1 ELSE Min(ExactMatch(c))]
  /\ UNCHANGED <<shm, file, slots, worker, wk, ckptr, ck, fleet, lapse>>

\* The slot is locked, then looked at again.  If it has changed the search
\* goes on, and the lock stays.
LockExact(c) ==
  LET i == rd[c].i IN
  /\ rd[c].pc = "lockexact"
  /\ lock' = [lock EXCEPT ![i] = @ \cup {c}]
  /\ rd' = IF aReader[i] = rd[c].snap.iId
           THEN [rd EXCEPT ![c].pc = "verify", ![c].iReader = i]
           ELSE [rd EXCEPT ![c].pc = "exact", ![c].i = i + 1]
  /\ UNCHANGED <<shm, file, aReader, worker, wk, ckptr, ck, fleet, lapse>>

\* Take over the first slot that no other connection has locked.
GrabSlot(c) ==
  LET unlocked == {i \in Slots : CanLock(c, i)}
      i == Min(unlocked)
  IN
  /\ rd[c].pc = "grab"
  /\ IF unlocked = {}
     THEN /\ rd' = [rd EXCEPT ![c].pc = "usable", ![c].i = 1]
          /\ UNCHANGED slots
     ELSE /\ aReader' = [aReader EXCEPT ![i] = rd[c].snap.iId]
          /\ lock' = [lock EXCEPT ![i] = {c}]
          /\ rd' = [rd EXCEPT ![c].pc = "verify", ![c].iReader = i]
  /\ UNCHANGED <<shm, file, worker, wk, ckptr, ck, fleet, lapse>>

LookUsable(c) ==
  /\ rd[c].pc = "usable"
  /\ rd' = [rd EXCEPT
       ![c].pc = IF UsableSlots(c) = {} THEN "idle" ELSE "lockusable",
       ![c].i = IF UsableSlots(c) = {} THEN 0 ELSE Min(UsableSlots(c)),
       ![c].snap = IF UsableSlots(c) = {} THEN None ELSE @,
       ![c].copy = IF UsableSlots(c) = {} THEN 0 ELSE @]
  /\ UNCHANGED <<shm, file, slots, worker, wk, ckptr, ck, fleet, lapse>>

LockUsable(c) ==
  LET i == rd[c].i IN
  /\ rd[c].pc = "lockusable"
  /\ lock' = [lock EXCEPT ![i] = @ \cup {c}]
  /\ rd' = IF aReader[i] \in 1..rd[c].snap.iId
           THEN [rd EXCEPT ![c].pc = "verify", ![c].iReader = i]
           ELSE [rd EXCEPT ![c].pc = "usable", ![c].i = i + 1]
  /\ UNCHANGED <<shm, file, aReader, worker, wk, ckptr, ck, fleet, lapse>>

\* Mutant: the snapshot is not checked again once the slot is locked.
TrustSnapshot(c) ==
  /\ rd[c].pc = "verify"
  /\ rd' = [rd EXCEPT ![c].pc = "open", ![c].client = rd[c].snap,
                      ![c].snap = None, ![c].copy = 0, ![c].i = 0]
  /\ UNCHANGED <<shm, file, slots, worker, wk, ckptr, ck, fleet, lapse>>

\* Open the transaction if the copy the snapshot came from still has its id,
\* or give the slot back and start again.
VerifySnapshot(c) ==
  LET copy == IF rd[c].copy = 1 THEN aSnap1 ELSE aSnap2 IN
  /\ rd[c].pc = "verify"
  /\ \/ /\ MayHaveId(copy, rd[c].snap.iId)
        /\ rd' = [rd EXCEPT ![c].pc = "open", ![c].client = rd[c].snap,
                            ![c].snap = None, ![c].copy = 0, ![c].i = 0]
        /\ UNCHANGED lock
     \/ /\ MayDiffer(copy, rd[c].snap.iId)
        /\ lock' = [lock EXCEPT ![rd[c].iReader] = @ \ {c}]
        /\ rd' = [rd EXCEPT ![c].pc = "idle", ![c].iReader = 0,
                            ![c].snap = None, ![c].copy = 0, ![c].i = 0]
  /\ UNCHANGED <<shm, file, aReader, worker, wk, ckptr, ck, fleet, lapse>>

\* lsmFinishReadTrans(); the client snapshot stays cached.
FinishReadTrans(c) ==
  /\ rd[c].pc = "open"
  /\ worker # c
  /\ lock' = [lock EXCEPT ![rd[c].iReader] = @ \ {c}]
  /\ rd' = [rd EXCEPT ![c].pc = "idle", ![c].iReader = 0,
                      ![c].worked = FALSE]
  /\ UNCHANGED <<shm, file, aReader, worker, wk, ckptr, ck, fleet, lapse>>

-----------------------------------------------------------------------------
(* Work on the database file: lsmBeginWork() ... lsmFinishWork() *)

InReadTrans(c) == c \in Readers /\ rd[c].pc = "open"

\* A snapshot of the worker: the one it is building has the id p.iId + 1.
Building == wk.p.iId + 1

\* Take the WORKER lock, repair the copy that a worker that died was writing,
\* and start from the published snapshot.
BeginWork(c) ==
  LET p == IF ChecksumOk(aSnap1) THEN aSnap1 ELSE aSnap2 IN
  /\ worker = NoConn
  /\ c \in Workers \/ InReadTrans(c)
  /\ worker' = c
  /\ aSnap1' = p /\ aSnap2' = p
  /\ wk' = [IdleWorker EXCEPT !.pc = "work", !.p = p]
  /\ rd' = IF InReadTrans(c) THEN [rd EXCEPT ![c].worked = TRUE] ELSE rd
  /\ UNCHANGED <<iMetaPage, file, slots, ckptr, ck, fleet, lapse>>

\* The last block in use, if there is a free block before it (moveBlockCb()).
LastBlock(p) ==
  {b \in DOMAIN p.lvl : /\ \A x \in DOMAIN p.lvl : x <= b
                        /\ \E x \in DOMAIN p.free : x < b}

\* lsmBlockAllocate(), for the output of a merge (iBefore = 0) or to move the
\* last block in use towards the start of the file: first lsmCheckpointSynced()
\* reads which meta page is the current one.
AllocateBlock(c) ==
  /\ worker = c /\ wk.pc = "work"
  /\ Building \in Ids
  /\ \E iBefore \in {0} \cup LastBlock(wk.p) :
       wk' = [wk EXCEPT !.pc = "synced", !.iMeta = iMetaPage, !.iBefore = iBefore]
  /\ UNCHANGED <<shm, file, slots, rd, worker, ckptr, ck, fleet, lapse>>

\* The id of the last checkpoint, 0 if there is none or if another one was
\* finished in the meantime.
CheckpointSynced ==
  IF wk.iMeta = 0 \/ iMetaPage # wk.iMeta \/ meta[wk.iMeta] = None
  THEN 0 ELSE meta[wk.iMeta].iId

OwnClient(c) == IF InReadTrans(c) THEN {rd[c].client.iId} ELSE {}

\* The oldest snapshot in use, as far as the checkpoint and the worker's own
\* read transaction are concerned.
ReadSynced(c) ==
  LET iSynced == IF CheckpointSynced = 0 THEN wk.p.iId ELSE CheckpointSynced IN
  /\ worker = c /\ wk.pc = "synced"
  /\ wk' = [wk EXCEPT !.pc = "scan", !.i = 1,
                      !.iInUse = Min({iSynced} \cup OwnClient(c))]
  /\ UNCHANGED <<shm, file, slots, rd, worker, ckptr, ck, fleet, lapse>>

\* firstSnapshotInUse(): look at slot i ...
ScanSlot(c) ==
  /\ worker = c /\ wk.pc = "scan"
  /\ wk.i <= NREADER
  /\ wk' = IF aReader[wk.i] # 0 /\ wk.iInUse > aReader[wk.i]
           THEN [wk EXCEPT !.pc = "scanlock", !.iThis = aReader[wk.i]]
           ELSE [wk EXCEPT !.i = @ + 1]
  /\ UNCHANGED <<shm, file, slots, rd, worker, ckptr, ck, fleet, lapse>>

\* ... and if it names an older snapshot, clear it, unless it is locked: then
\* the snapshot is in use.
ScanLock(c) ==
  /\ worker = c /\ wk.pc = "scanlock"
  /\ IF CanLock(c, wk.i)
     THEN /\ aReader' = [aReader EXCEPT ![wk.i] = 0]
          /\ lock' = [lock EXCEPT ![wk.i] = {}]
          /\ wk' = [wk EXCEPT !.pc = "scan", !.i = @ + 1]
     ELSE /\ wk' = [wk EXCEPT !.pc = "scan", !.i = @ + 1, !.iInUse = wk.iThis]
          /\ UNCHANGED slots
  /\ UNCHANGED <<shm, file, rd, worker, ckptr, ck, fleet, lapse>>

\* Mutant: a block last used by the oldest snapshot in use is recycled.
RecyclableEqual ==
  {b \in DOMAIN wk.p.free :
     wk.p.free[b] <= wk.iInUse /\ (b # 1 \/ wk.iBefore = 0)}

\* findFreeblockCb(): the free blocks that may be recycled.
Recyclable ==
  {b \in DOMAIN wk.p.free :
     wk.p.free[b] < wk.iInUse /\ (b # 1 \/ wk.iBefore = 0)}

\* Mutant: the block stays on the free list.
WithBlockListed(p, b) ==
  [p EXCEPT !.lvl = [x \in DOMAIN @ \cup {b} |-> IF x = b THEN p.iId + 1 ELSE @[x]],
            !.nBlock = IF b > @ THEN b ELSE @]

\* The worker snapshot with block b written by it.
WithBlock(p, b) ==
  [p EXCEPT !.lvl = [x \in DOMAIN @ \cup {b} |-> IF x = b THEN p.iId + 1 ELSE @[x]],
            !.free = Restrict(@, DOMAIN @ \ {b}),
            !.nBlock = IF b > @ THEN b ELSE @]

\* lsmBlockFree(): block b is last used by the snapshot the worker started from.
WithoutBlock(p, b) ==
  [p EXCEPT !.lvl = Restrict(@, DOMAIN @ \ {b}),
            !.free = [x \in DOMAIN @ \cup {b} |-> IF x = b THEN p.iId ELSE @[x]]]

Scanned(c) == worker = c /\ wk.pc = "scan" /\ wk.i > NREADER

\* The first block that may be recycled, or one more block at the end of the
\* file; the worker writes to it.
WriteBlock(c) ==
  LET b == IF Recyclable = {} THEN wk.p.nBlock + 1 ELSE Min(Recyclable) IN
  /\ Scanned(c) /\ wk.iBefore = 0
  /\ b \in Blocks
  /\ disk' = [disk EXCEPT ![b] = Building]
  /\ diskDirty' = diskDirty \cup {b}
  /\ wk' = [IdleWorker EXCEPT !.pc = "work", !.p = WithBlock(wk.p, b), !.dirty = TRUE]
  /\ UNCHANGED <<shm, meta, metaDirty, slots, rd, worker, ckptr, ck, fleet, lapse>>

\* sortedMoveBlock(): copy the last block in use to the first free block and
\* free it, if that block comes before it.
MoveBlock(c) ==
  LET b == Min(Recyclable) IN
  /\ Scanned(c) /\ wk.iBefore > 0
  /\ IF Recyclable # {} /\ b < wk.iBefore
     THEN /\ disk' = [disk EXCEPT ![b] = Building]
          /\ diskDirty' = diskDirty \cup {b}
          /\ wk' = [IdleWorker EXCEPT !.pc = "work", !.dirty = TRUE,
                      !.p = WithoutBlock(WithBlock(wk.p, b), wk.iBefore)]
     ELSE /\ wk' = [IdleWorker EXCEPT !.pc = "work", !.p = wk.p, !.dirty = wk.dirty]
          /\ UNCHANGED <<disk, diskDirty>>
  /\ UNCHANGED <<shm, meta, metaDirty, slots, rd, worker, ckptr, ck, fleet, lapse>>

\* A merge has no more use for the last run in block b (fsFreeBlock()).
FreeBlock(c) ==
  /\ worker = c /\ wk.pc = "work"
  /\ Building \in Ids
  /\ \E b \in DOMAIN wk.p.lvl :
       wk' = [wk EXCEPT !.p = WithoutBlock(wk.p, b), !.dirty = TRUE]
  /\ UNCHANGED <<shm, file, slots, rd, worker, ckptr, ck, fleet, lapse>>

\* lsmCheckpointSaveWorker(): give the worker snapshot the next id and write
\* it to the second copy, then to the first.
SaveWorker(c) ==
  /\ worker = c /\ wk.pc = "work" /\ wk.dirty
  /\ aSnap2' = Torn(wk.p.iId + 1)
  /\ wk' = [wk EXCEPT !.pc = "save2", !.p.iId = @ + 1]
  /\ UNCHANGED <<aSnap1, iMetaPage, file, slots, rd, worker, ckptr, ck, fleet, lapse>>

SavedSnap2(c) ==
  /\ worker = c /\ wk.pc = "save2"
  /\ aSnap2' = wk.p
  /\ wk' = [wk EXCEPT !.pc = "barrier"]
  /\ UNCHANGED <<aSnap1, iMetaPage, file, slots, rd, worker, ckptr, ck, fleet, lapse>>

SaveSnap1(c) ==
  /\ worker = c /\ wk.pc = "barrier"
  /\ aSnap1' = Torn(wk.p.iId)
  /\ wk' = [wk EXCEPT !.pc = "save1"]
  /\ UNCHANGED <<aSnap2, iMetaPage, file, slots, rd, worker, ckptr, ck, fleet, lapse>>

\* The worker goes on with its work (a flush, before a merge) or finishes it.
SavedSnap1(c) ==
  /\ worker = c /\ wk.pc = "save1"
  /\ aSnap1' = wk.p
  /\ \E pc \in {"work", "finish"} :
       wk' = [IdleWorker EXCEPT !.pc = pc, !.p = wk.p]
  /\ UNCHANGED <<aSnap2, iMetaPage, file, slots, rd, worker, ckptr, ck, fleet, lapse>>

\* dbSetReadLock(): put the id in the first slot that can be locked, unless it
\* is in a slot already; the slot is left unlocked.
SetReadLock(c, id) ==
  LET unlocked == {i \in Slots : CanLock(c, i)} IN
  IF id \in Range(aReader) \/ unlocked = {}
  THEN UNCHANGED slots
  ELSE /\ aReader' = [aReader EXCEPT ![Min(unlocked)] = id]
       /\ lock' = [lock EXCEPT ![Min(unlocked)] = {}]

\* lsmSortedAutoWork() moves the client to the published snapshot if the tree
\* was flushed and a cursor is open.
ReloadClient(c) ==
  \/ UNCHANGED rd
  \/ /\ InReadTrans(c)
     /\ rd' = [rd EXCEPT ![c].client = aSnap1]

FinishWork(c) ==
  /\ worker = c /\ wk.pc = "finish"
  /\ SetReadLock(c, wk.p.iId)
  /\ ReloadClient(c)
  /\ worker' = NoConn /\ wk' = IdleWorker
  /\ UNCHANGED <<shm, file, ckptr, ck, fleet, lapse>>

\* Work that failed, or found nothing to do, leaves the old snapshot published.
AbandonWork(c) ==
  /\ worker = c /\ wk.pc = "work"
  /\ ReloadClient(c)
  /\ worker' = NoConn /\ wk' = IdleWorker
  /\ UNCHANGED <<shm, file, slots, ckptr, ck, fleet, lapse>>

-----------------------------------------------------------------------------
(* Checkpoints: lsmCheckpointWrite() *)

\* There is nothing to do if the file has the snapshot, or a newer one.
Needed(snap) == iMetaPage # 0 => meta[iMetaPage].iId < snap.iId

\* Mutant: the meta page in use is overwritten.
CheckpointInPlace(c, snap) ==
  IF Needed(snap)
  THEN /\ ckptr' = c
       /\ ck' = [pc |-> "sync", snap |-> snap,
                 iMeta |-> IF iMetaPage = 0 THEN 1 ELSE iMetaPage]
  ELSE ckptr' = NoConn /\ ck' = IdleCkpt

\* Write the snapshot to the meta page not in use, if it is newer.
Checkpoint(c, snap) ==
  IF Needed(snap)
  THEN /\ ckptr' = c
       /\ ck' = [pc |-> "sync", snap |-> snap, iMeta |-> (iMetaPage % 2) + 1]
  ELSE ckptr' = NoConn /\ ck' = IdleCkpt

\* Take the CHECKPOINTER lock; lsmCheckpointLoad() as above.
BeginCheckpoint(c) ==
  /\ ckptr = NoConn \/ (ckptr = c /\ ck.pc = "load1")
  /\ IF ChecksumOk(aSnap1)
     THEN Checkpoint(c, aSnap1)
     ELSE ckptr' = c /\ ck' = [IdleCkpt EXCEPT !.pc = "load2"]
  /\ UNCHANGED <<shm, file, slots, rd, worker, wk, fleet, lapse>>

LoadCheckpoint(c) ==
  /\ ckptr = c /\ ck.pc = "load2"
  /\ IF ChecksumOk(aSnap2)
     THEN Checkpoint(c, aSnap2)
     ELSE UNCHANGED ckptr /\ ck' = [ck EXCEPT !.pc = "load1"]
  /\ lapse' = IF LoadsEarly THEN "early" ELSE lapse
  /\ UNCHANGED <<shm, file, slots, rd, worker, wk, fleet>>

\* lsmFsSyncDb() makes everything written to the file durable.
SyncBlocks(c) ==
  /\ ckptr = c /\ ck.pc = "sync"
  /\ diskDirty' = {} /\ metaDirty' = {}
  /\ ck' = [ck EXCEPT !.pc = "store"]
  /\ UNCHANGED <<shm, meta, disk, slots, rd, worker, wk, ckptr, fleet, lapse>>

StoreMeta(c) ==
  /\ ckptr = c /\ ck.pc = "store"
  /\ meta' = [meta EXCEPT ![ck.iMeta] = ck.snap]
  /\ metaDirty' = metaDirty \cup {ck.iMeta}
  /\ ck' = [ck EXCEPT !.pc = "syncmeta"]
  /\ UNCHANGED <<shm, disk, diskDirty, slots, rd, worker, wk, ckptr, fleet, lapse>>

SyncMeta(c) ==
  /\ ckptr = c /\ ck.pc = "syncmeta"
  /\ diskDirty' = {} /\ metaDirty' = {}
  /\ ck' = [ck EXCEPT !.pc = "finish"]
  /\ UNCHANGED <<shm, meta, disk, slots, rd, worker, wk, ckptr, fleet, lapse>>

FinishCheckpoint(c) ==
  /\ ckptr = c /\ ck.pc = "finish"
  /\ iMetaPage' = ck.iMeta
  /\ ckptr' = NoConn /\ ck' = IdleCkpt
  /\ UNCHANGED <<aSnap1, aSnap2, file, slots, rd, worker, wk, fleet, lapse>>

\* A sync or a write that fails ends the checkpoint.
FailCheckpoint(c) ==
  /\ ckptr = c /\ ck.pc \in {"sync", "store", "syncmeta"}
  /\ ckptr' = NoConn /\ ck' = IdleCkpt
  /\ UNCHANGED <<shm, file, slots, rd, worker, wk, fleet, lapse>>

-----------------------------------------------------------------------------
(* Failures *)

\* A process dies: the operating system drops its locks, and what it wrote to
\* shared memory and to the file stays.
Die(c) ==
  /\ lock' = [i \in Slots |-> lock[i] \ {c}]
  /\ rd' = IF c \in Readers THEN [rd EXCEPT ![c] = IdleReader] ELSE rd
  /\ worker' = IF worker = c THEN NoConn ELSE worker
  /\ wk' = IF worker = c THEN IdleWorker ELSE wk
  /\ ckptr' = IF ckptr = c THEN NoConn ELSE ckptr
  /\ ck' = IF ckptr = c THEN IdleCkpt ELSE ck
  /\ UNCHANGED <<shm, file, aReader, fleet, lapse>>

\* lsmCheckpointRecover(): the meta page that is loaded, 0 if none is valid.
RecoverPage(m) ==
  CASE m[2] # None /\ (m[1] # None => m[1].iId < m[2].iId) -> 2
    [] m[1] # None /\ (m[2] # None => m[2].iId <= m[1].iId) -> 1
    [] m[1] = None /\ m[2] = None -> 0

\* Every process dies, perhaps with the machine: what was not synced may be
\* lost.  The next connection initialises the shared memory from the file
\* (doDbConnect()).
Crash ==
  /\ fleet.conns \cap Checkpointers # {}
  /\ \E lostBlocks \in SUBSET diskDirty, lostMeta \in SUBSET metaDirty :
       LET m == [i \in 1..2 |-> IF i \in lostMeta THEN None ELSE meta[i]]
           snap == IF RecoverPage(m) = 0 THEN EmptySnapshot ELSE m[RecoverPage(m)]
       IN
       /\ disk' = [b \in Blocks |-> IF b \in lostBlocks THEN 0 ELSE disk[b]]
       /\ meta' = m
       /\ iMetaPage' = RecoverPage(m)
       /\ aSnap1' = snap /\ aSnap2' = snap
       /\ aReader' = [i \in Slots |-> IF i = 1 THEN snap.iId ELSE 0]
       /\ lapse' = IF Intact(aSnap1)' THEN lapse ELSE "recovery"
  /\ diskDirty' = {} /\ metaDirty' = {}
  /\ lock' = [i \in Slots |-> {}]
  /\ rd' = [c \in Readers |-> IdleReader]
  /\ worker' = NoConn /\ wk' = IdleWorker
  /\ ckptr' = NoConn /\ ck' = IdleCkpt
  /\ UNCHANGED fleet

Next ==
  \/ \E c \in fleet.conns \cap Readers :
       \/ UseCached(c) \/ LoadSnap1(c) \/ LoadSnap2(c)
       \/ LookExact(c) \/ LockExact(c) \/ GrabSlot(c)
       \/ LookUsable(c) \/ LockUsable(c) \/ VerifySnapshot(c)
       \/ FinishReadTrans(c)
  \/ \E c \in fleet.conns \cap (Readers \cup Workers) :
       \/ BeginWork(c) \/ AllocateBlock(c) \/ ReadSynced(c) \/ ScanSlot(c)
       \/ ScanLock(c) \/ WriteBlock(c) \/ MoveBlock(c) \/ FreeBlock(c)
       \/ SaveWorker(c) \/ SavedSnap2(c) \/ SaveSnap1(c) \/ SavedSnap1(c)
       \/ FinishWork(c) \/ AbandonWork(c)
  \/ \E c \in fleet.conns \cap Checkpointers :
       \/ BeginCheckpoint(c) \/ LoadCheckpoint(c)
       \/ SyncBlocks(c) \/ StoreMeta(c) \/ SyncMeta(c)
       \/ FinishCheckpoint(c) \/ FailCheckpoint(c)
  \/ \E c \in fleet.conns : Die(c)
  \/ Crash

Spec == Init /\ [][Next]_vars

-----------------------------------------------------------------------------
(* Properties *)

Published == {s \in {aSnap1, aSnap2} : ChecksumOk(s)}

\* The snapshots that somebody may read from or build on.
Loaded ==
  Published \cup
  (({ck.snap} \cup {rd[c].client : c \in Readers}
    \cup {rd[c].snap : c \in Readers}) \ {None})

\* No block of a snapshot that a read transaction is using is recycled and
\* overwritten before the transaction ends: the read-lock slots, taken and
\* rechecked by lsmBeginReadTrans(), and the rule of lsmBlockAllocate() keep
\* every freed block that a client may still read.  (Not so for a connection
\* that has worked since: firstSnapshotInUse() and dbSetReadLock() may lock,
\* change and release the slot it holds itself.)
ClientIntact ==
  \A c \in Readers :
    lapse = None /\ InReadTrans(c) /\ ~rd[c].worked => Intact(rd[c].client)

\* No worker recycles a block of the snapshot in shared memory, and a recovery
\* that starts from a whole checkpoint publishes a whole snapshot.  At every
\* moment, a death of the worker in the middle of a copy included, one of the two
\* copies can be loaded, so that neither lsmCheckpointLoad() nor
\* lsmCheckpointLoadWorker() runs into LSM_PROTOCOL for good.
PublishedIntact ==
  /\ Published # {}
  /\ lapse = None => \A s \in Published : Intact(s)

\* Two snapshots with the same id are the same snapshot, whoever loaded them.
\* This is what lets lsmCheckpointClientCacheOk() and lsmCheckpointLoadOk()
\* compare nothing but ids, although the next worker throws away, and reuses
\* the id of, a snapshot whose worker died between the two copies.
SameIdSameSnapshot ==
  lapse = None => \A s, t \in Loaded : s.iId = t.iId => s = t

\* Every block of the file is either part of a level or on the free list, and
\* never both, in every snapshot that can be loaded or recovered: no block
\* leaks, and none is free and in use.
BlocksAccounted ==
  \A s \in Loaded \cup ({meta[1], meta[2]} \ {None}) :
    /\ DOMAIN s.lvl \cup DOMAIN s.free = 1..s.nBlock
    /\ DOMAIN s.lvl \cap DOMAIN s.free = {}

\* No step, and in particular no recovery, publishes a snapshot older than the
\* checkpoint that iMetaPage names: a checkpoint that lsmCheckpointWrite()
\* finished survives every crash, because the other meta page is written next.
CheckpointSurvives ==
  [][lapse' = None /\ iMetaPage # 0 /\ ChecksumOk(aSnap1)'
     => aSnap1'.iId >= meta[iMetaPage].iId]_vars
=============================================================================

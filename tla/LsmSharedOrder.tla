---------------------------- MODULE LsmSharedOrder ----------------------------
(***************************************************************************)
(* The order that the parties of LsmShared keep: the blocks of a snapshot  *)
(* are all accounted for, ids only grow, a reader holds a slot that is not *)
(* above its snapshot, and the worker's scan of the slots finds it.        *)
(***************************************************************************)
EXTENDS LsmSharedLemmas

USE ZenonT(40)

-----------------------------------------------------------------------------
(* The blocks of every snapshot are accounted for.                           *)

AccountedIn(s) ==
  /\ DOMAIN s.lvl \cup DOMAIN s.free = 1..s.nBlock
  /\ DOMAIN s.lvl \cap DOMAIN s.free = {}

(* BlocksAccounted, for the snapshot a worker is building as well.           *)
AllAccounted ==
  /\ \A s \in Published : AccountedIn(s)
  /\ wk.pc # "idle" => AccountedIn(wk.p)
  /\ \A m \in 1..2 : meta[m] # None => AccountedIn(meta[m])
  /\ ck.snap # None => AccountedIn(ck.snap)
  /\ \A c \in Readers :
       /\ rd[c].snap # None => AccountedIn(rd[c].snap)
       /\ rd[c].client # None => AccountedIn(rd[c].client)

(* A block the worker recycles goes from the free list to the levels, and a  *)
(* new one is the next after the last; a block it frees goes the other way.  *)
LEMMA BlocksMove ==
  ASSUME fleet \in Fleets, NEW p \in Snapshots, AccountedIn(p), NEW b \in Blocks, NEW q
  PROVE  /\ q = WithBlock(p, b) /\ (b \in DOMAIN p.free \/ b = p.nBlock + 1) =>
              q \in Snapshots /\ AccountedIn(q)
         /\ q = WithoutBlock(p, b) /\ b \in DOMAIN p.lvl =>
              q \in Snapshots /\ AccountedIn(q)
<1>1. /\ fleet.maxBlock \in Nat /\ p \in SnapshotsOf(fleet.maxBlock)
      /\ b \in 1..fleet.maxBlock /\ p.nBlock \in 0..fleet.maxBlock
  BY FleetFacts, OwnSnapshot DEF Snapshots, Blocks
<1>2. ASSUME q = WithBlock(p, b), b \in DOMAIN p.free \/ b = p.nBlock + 1
      PROVE  q \in Snapshots /\ AccountedIn(q)
  <2>1. /\ q \in SnapshotsOf(fleet.maxBlock)
        /\ DOMAIN q.lvl = DOMAIN p.lvl \cup {b}
        /\ DOMAIN q.free = DOMAIN p.free \ {b}
        /\ q.nBlock = IF b > p.nBlock THEN b ELSE p.nBlock
    BY SMTT(40), <1>1, <1>2, WithBlockFields
  <2>2. CASE b \in DOMAIN p.free
    BY SMTT(40), <1>1, <2>1, <2>2 DEF AccountedIn, Snapshots
  <2>3. CASE b = p.nBlock + 1
    BY SMTT(40), <1>1, <2>1, <2>3 DEF AccountedIn, Snapshots
  <2>4. AccountedIn(q)
    BY <1>2, <2>2, <2>3
  <2> QED
    BY <2>1, <2>4 DEF Snapshots
<1>3. ASSUME q = WithoutBlock(p, b), b \in DOMAIN p.lvl
      PROVE  q \in Snapshots /\ AccountedIn(q)
  <2>1. /\ q \in SnapshotsOf(fleet.maxBlock)
        /\ DOMAIN q.lvl = DOMAIN p.lvl \ {b}
        /\ DOMAIN q.free = DOMAIN p.free \cup {b}
        /\ q.nBlock = p.nBlock
    BY SMTT(40), <1>1, <1>3, WithoutBlockFields
  <2>2. AccountedIn(q)
    BY <1>1, <1>3, <2>1 DEF AccountedIn
  <2> QED
    BY <2>1, <2>2 DEF Snapshots
<1> QED
  BY <1>2, <1>3

(* The first state's snapshots are accounted for.                            *)
LEMMA InitAccounted ==
  ASSUME Init
  PROVE  AllAccounted
<1>1. OneBlock.lvl = <<2>> /\ OneBlock.free = <<>> /\ OneBlock.nBlock = 1
  BY FirstSnapshots, FleetFacts DEF Init
<1>2. AccountedIn(OneBlock)
  BY SMTT(40), <1>1 DEF AccountedIn
<1> QED
  BY <1>2 DEF Init, AllAccounted, Published, IdleReader, IdleWorker, IdleCkpt

(* The snapshot that a worker starts from can be loaded.                     *)
LEMMA CurrentPublished ==
  ASSUME Control
  PROVE  Current \in Published /\ Current \in Snapshots /\ fleet \in Fleets
<1>1. fleet \in Fleets
  BY DEF Control, TypeOK
<1> QED
  BY <1>1, CopyWhole DEF Control, CopiesInOrder, Current, Published, TypeOK, ShmType

(* A worker keeps its own snapshot accounted for.                            *)
LEMMA WorkerAccounted ==
  ASSUME Control, AllAccounted, NEW c \in Readers \cup Workers, WorkerStep(c)
  PROVE  wk'.pc # "idle" => AccountedIn(wk'.p)
<1>0. fleet \in Fleets /\ Current \in Published
  BY CurrentPublished
<1>1. wk.pc # "idle" => wk.p \in Snapshots /\ AccountedIn(wk.p)
  BY DEF Control, CopiesInOrder, AllAccounted
<1>2. CASE wk.pc = "idle" /\ wk'.p = Current
  BY <1>0, <1>2 DEF AllAccounted
<1>3. CASE wk.pc # "idle" /\ wk'.p = wk.p
  BY <1>1, <1>3
<1>4. ASSUME wk.pc = "work", NEW b \in DOMAIN wk.p.lvl, wk'.p = WithoutBlock(wk.p, b)
      PROVE  AccountedIn(wk'.p)
  <2>1. b \in Blocks
    BY <1>0, <1>1, <1>4, OwnSnapshot
  <2> QED
    BY <1>0, <1>1, <1>4, <2>1, BlocksMove
<1>5. CASE wk.pc = "work" /\ wk'.p = [wk.p EXCEPT !.iId = @ + 1]
  <2>1. /\ wk'.p.lvl = wk.p.lvl /\ wk'.p.free = wk.p.free
        /\ wk'.p.nBlock = wk.p.nBlock
    BY SMTT(40), <1>0, <1>1, <1>5, FleetFacts, NextIdFields DEF Snapshots
  <2> QED
    BY <1>1, <1>5, <2>1 DEF AccountedIn
<1>6. ASSUME Scanned(c), NEW b \in Blocks, Written(b)
      PROVE  AccountedIn(wk'.p)
  <2> DEFINE q == WithBlock(wk.p, b)
  <2>1. wk.pc # "idle" /\ (b \in DOMAIN wk.p.free \/ b = wk.p.nBlock + 1)
    BY <1>6 DEF Scanned, Written, Recyclable
  <2>2. q \in Snapshots /\ AccountedIn(q)
    BY <1>0, <1>1, <2>1, BlocksMove
  <2>3. CASE wk'.p = q
    BY <2>2, <2>3
  <2>4. CASE wk'.p = WithoutBlock(q, wk.iBefore) /\ wk.iBefore # b /\ wk.iBefore \in DOMAIN wk.p.lvl
    <3>1. wk.iBefore \in Blocks
      BY <1>0, <1>1, <2>1, <2>4, OwnSnapshot
    <3>2. wk.iBefore \in DOMAIN q.lvl
      BY SMTT(40), <1>0, <1>1, <1>6, <2>1, <2>4, FleetFacts, WithBlockFields DEF Snapshots, Blocks
    <3> HIDE DEF q
    <3> QED
      BY <1>0, <2>2, <2>4, <3>1, <3>2, BlocksMove
  <2> QED
    BY <1>6, <2>3, <2>4 DEF Written
<1> QED
  BY <1>2, <1>3, <1>4, <1>5, <1>6, WorkerSnapshot

(* A worker that moves its transaction to the first copy finds the snapshot  *)
(* that the next worker starts from there.                                   *)
LEMMA WorkerReloads ==
  ASSUME Control, NEW c \in Readers \cup Workers, WorkerStep(c), NEW d \in Readers
  PROVE  rd'[d].client \in {rd[d].client, Current}
<1>1. SUFFICES ASSUME rd'[d].client # rd[d].client
               PROVE  rd'[d].client = Current
  OBVIOUS
<1>2. rd'[d].client = aSnap1 /\ rd' # rd
  BY <1>1, WorkerReaders
<1>3. ~BeginWork(c)
  <2>1. SUFFICES ASSUME BeginWork(c) PROVE FALSE
    OBVIOUS
  <2>2. rd \in [Readers -> ReaderStates]
    BY DEF Control, TypeOK, ReaderType
  <2>3. rd'[d].client = rd[d].client
    BY <2>1, <2>2 DEF BeginWork, ReaderStates
  <2> QED
    BY <1>1, <2>3
<1>4. wk.pc \in Working
  BY <1>2, <1>3
  DEF WorkerStep, AllocateBlock, ReadSynced, ScanSlot, ScanLock, WriteBlock,
      MoveBlock, FreeBlock, SaveWorker, SavedSnap2, SaveSnap1, SavedSnap1,
      FinishWork, AbandonWork, Working
<1> QED
  BY <1>2, <1>4 DEF Control, CopiesInOrder, Current

(* Every step keeps every snapshot accounted for.                            *)
LEMMA NextAccounted ==
  ASSUME Control, AllAccounted, [Next]_vars
  PROVE  AllAccounted'
<1>0. /\ fleet \in Fleets /\ Current \in Published
      /\ \A c \in Readers : rd[c] \in ReaderStates
      /\ rd \in [Readers -> ReaderStates]
  BY CurrentPublished DEF Control, TypeOK, ReaderType
<1>1. ASSUME NEW c \in Readers, ReaderStep(c) PROVE AllAccounted'
  <2>1. PICK r \in ReaderStates :
          /\ rd' = [rd EXCEPT ![c] = r]
          /\ \/ r.snap \in {rd[c].snap, rd[c].client, None}
             \/ r.snap \in Published
          /\ r.client \in {rd[c].snap, rd[c].client, None}
    BY <1>1, ReaderOwnStep
  <2>2. \A d \in Readers : rd'[d] = IF d = c THEN r ELSE rd[d]
    BY <1>0, <2>1
  <2>3. UNCHANGED <<aSnap1, aSnap2, meta, wk, ck>>
    BY <1>1, ReaderFrame
  <2>4. /\ r.snap # None => AccountedIn(r.snap)
        /\ r.client # None => AccountedIn(r.client)
    BY <2>1 DEF AllAccounted
  <2> QED
    BY <2>2, <2>3, <2>4 DEF AllAccounted, Published
<1>2. ASSUME NEW c \in Readers \cup Workers, WorkerStep(c) PROVE AllAccounted'
  <2>1. wk'.pc # "idle" => AccountedIn(wk'.p)
    BY <1>2, WorkerAccounted
  <2>2. UNCHANGED <<meta, ck>>
    BY <1>2, WorkerFrame
  <2>3. \A s \in Published' : AccountedIn(s)
    <3>1. \A n \in Nat \ {0} : ~ChecksumOk(Torn(n))
      BY <1>0, CopyWhole
    <3>2. wk.pc # "idle" => wk.p.iId \in Nat \ {0}
      BY <1>0, OwnSnapshot DEF Control, CopiesInOrder
    <3>3. /\ ChecksumOk(aSnap1') => AccountedIn(aSnap1')
          /\ ChecksumOk(aSnap2') => AccountedIn(aSnap2')
      BY SMTT(40), <1>0, <1>2, <3>1, <3>2, WorkerPublishes DEF AllAccounted, Published
    <3> QED
      BY <3>3 DEF Published
  <2>4. \A d \in Readers :
          /\ rd'[d].snap # None => AccountedIn(rd'[d].snap)
          /\ rd'[d].client # None => AccountedIn(rd'[d].client)
    <3>1. \A d \in Readers : rd'[d].client \in {rd[d].client, Current}
      BY <1>2, WorkerReloads
    <3> QED
      BY <1>0, <1>2, <3>1, WorkerReaders DEF AllAccounted
  <2> QED
    BY <2>1, <2>2, <2>3, <2>4 DEF AllAccounted
<1>3. ASSUME NEW c \in Checkpointers, CkptStep(c) PROVE AllAccounted'
  <2>1. UNCHANGED <<aSnap1, aSnap2, rd, wk>>
    BY <1>3, CkptFrame
  <2>2. /\ ck'.snap \in {ck.snap, None} \cup Published
        /\ \A m \in 1..2 : meta'[m] = meta[m] \/ meta'[m] = ck.snap
    BY <1>3, CkptOwnStep
  <2> QED
    BY <2>1, <2>2 DEF AllAccounted, Published
<1>4. ASSUME NEW c \in Conns, Die(c) PROVE AllAccounted'
  <2>1. /\ UNCHANGED <<aSnap1, aSnap2, meta>>
        /\ wk' = wk \/ wk' = IdleWorker
        /\ ck' = ck \/ ck' = IdleCkpt
        /\ rd' = IF c \in Readers THEN [rd EXCEPT ![c] = IdleReader] ELSE rd
    BY <1>4 DEF Die, shm, file
  <2>2. \A d \in Readers : rd'[d] = rd[d] \/ rd'[d] = IdleReader
    BY <1>0, <2>1
  <2> QED
    BY SMTT(40), <2>1, <2>2 DEF AllAccounted, Published, IdleReader, IdleWorker, IdleCkpt
<1>5. CASE Crash
  <2>1. AccountedIn(EmptySnapshot)
    BY SMTT(40), <1>0, FleetFacts, FirstSnapshots DEF AccountedIn
  <2>2. \A m \in 1..2 : meta'[m] # None => AccountedIn(meta'[m])
    BY <1>5, CrashFacts DEF AllAccounted
  <2>3. AccountedIn(aSnap1') /\ aSnap2' = aSnap1'
    BY <1>5, <2>1, <2>2, CrashFacts
  <2>4. wk' = IdleWorker /\ ck' = IdleCkpt /\ rd' = [d \in Readers |-> IdleReader]
    BY <1>5, CrashFacts
  <2> QED
    BY <2>2, <2>3, <2>4 DEF AllAccounted, Published, IdleReader, IdleWorker, IdleCkpt
<1>6. CASE UNCHANGED vars
  <2>1. UNCHANGED <<aSnap1, aSnap2, meta, rd, wk, ck>>
    BY <1>6 DEF vars, shm, file
  <2> QED
    BY <2>1 DEF AllAccounted, Published
<1> QED
  BY <1>0, <1>1, <1>2, <1>3, <1>4, <1>5, <1>6, NextCases

-----------------------------------------------------------------------------
(* Ids.  Nobody has a newer snapshot than the one the next worker starts     *)
(* from, and the id tells which snapshot it is.                              *)

LoadedBy ==
  ({ck.snap} \cup {rd[c].client : c \in Readers} \cup {rd[c].snap : c \in Readers})
    \ {None}

IdsInOrder ==
  lapse = None =>
    /\ \A s \in LoadedBy : s.iId <= Current.iId
    /\ \A m \in 1..2 : meta[m] # None => meta[m].iId <= Current.iId
    /\ \A s, t \in LoadedBy \cup {Current} : s.iId = t.iId => s = t

(* What is loaded is a snapshot.                                             *)
LEMMA LoadedSnapshots ==
  ASSUME Control
  PROVE  /\ LoadedBy \subseteq Snapshots
         /\ \A s \in LoadedBy \cup {Current} : s.iId \in Nat
         /\ \A m \in 1..2 : meta[m] # None => meta[m] \in Snapshots /\ meta[m].iId \in Nat
<1>1. fleet \in Fleets /\ Current \in Snapshots
  BY CurrentPublished
<1>2. ck.snap \in OptSnapshots
  BY DEF Control, TypeOK, CkptType, CkptStates
<1>3. \A c \in Readers : rd[c].client \in OptSnapshots /\ rd[c].snap \in OptSnapshots
  BY DEF Control, TypeOK, ReaderType, ReaderStates
<1>4. \A m \in 1..2 : meta[m] \in OptSnapshots
  BY DEF Control, TypeOK, FileType
<1>5. LoadedBy \subseteq Snapshots
  BY <1>2, <1>3 DEF LoadedBy, OptSnapshots
<1> QED
  BY <1>1, <1>4, <1>5, OwnSnapshot DEF OptSnapshots

(* But for a crash and the early load, what a step loads is the snapshot the *)
(* next worker starts from, and that one only moves on to the next id.       *)
LEMMA LoadsCurrent ==
  ASSUME Control, Next, ~Crash, lapse' = None
  PROVE  /\ lapse = None
         /\ LoadedBy' \subseteq LoadedBy \cup {Current}
         /\ \A m \in 1..2 : meta'[m] = meta[m] \/ meta'[m] \in LoadedBy \cup {None}
         /\ \/ Current' = Current
            \/ Current' \in Snapshots /\ Current'.iId = Current.iId + 1
<1>0. fleet \in Fleets /\ rd \in [Readers -> ReaderStates]
  BY DEF Control, TypeOK, ReaderType
<1> DEFINE Goal ==
      /\ lapse = None
      /\ LoadedBy' \subseteq LoadedBy \cup {Current}
      /\ \A m \in 1..2 : meta'[m] = meta[m] \/ meta'[m] \in LoadedBy \cup {None}
      /\ \/ Current' = Current
         \/ Current' \in Snapshots /\ Current'.iId = Current.iId + 1
<1>1. ASSUME NEW c \in Readers, ReaderStep(c) PROVE Goal
  <2>1. PICK r \in ReaderStates :
          /\ rd' = [rd EXCEPT ![c] = r]
          /\ r.snap \in {rd[c].snap, rd[c].client, None, Current}
          /\ r.client \in {rd[c].snap, rd[c].client, None}
    BY <1>1, ReaderOwnStep
  <2>2. \A d \in Readers : rd'[d] = IF d = c THEN r ELSE rd[d]
    BY <1>0, <2>1
  <2>3. UNCHANGED <<aSnap1, aSnap2, meta, ck>> /\ lapse = None
    BY <1>1, ReaderFrame, LsmAssumption
  <2>4. LoadedBy' \subseteq LoadedBy \cup {Current}
    BY <2>1, <2>2, <2>3 DEF LoadedBy
  <2> QED
    BY <2>3, <2>4 DEF Current
<1>2. ASSUME NEW c \in Readers \cup Workers, WorkerStep(c) PROVE Goal
  <2>1. UNCHANGED <<meta, ck, lapse>>
    BY <1>2, WorkerFrame
  <2>2. \A d \in Readers :
          rd'[d].snap = rd[d].snap /\ rd'[d].client \in {rd[d].client, Current}
    BY <1>2, WorkerReaders, WorkerReloads
  <2>3. LoadedBy' \subseteq LoadedBy \cup {Current}
    BY <2>1, <2>2 DEF LoadedBy
  <2>4. \/ Current' = Current
        \/ Current' \in Snapshots /\ Current'.iId = Current.iId + 1
    BY <1>2, WorkerPublishes DEF Control, CopiesInOrder, Current
  <2> QED
    BY <2>1, <2>3, <2>4
<1>3. ASSUME NEW c \in Checkpointers, CkptStep(c) PROVE Goal
  <2>1. UNCHANGED <<aSnap1, aSnap2, rd>> /\ lapse = None
    BY <1>3, CkptFrame, LsmAssumption
  <2>2. /\ ck'.snap \in {ck.snap, None, Current}
        /\ \A m \in 1..2 : meta'[m] = meta[m] \/ meta'[m] = ck.snap
    BY <1>3, CkptOwnStep
  <2>3. LoadedBy' \subseteq LoadedBy \cup {Current}
    BY <2>1, <2>2 DEF LoadedBy
  <2>4. \A m \in 1..2 : meta'[m] = meta[m] \/ meta'[m] \in LoadedBy \cup {None}
    BY <2>2 DEF LoadedBy
  <2> QED
    BY <2>1, <2>3, <2>4 DEF Current
<1>4. ASSUME NEW c \in Conns, Die(c) PROVE Goal
  <2>1. /\ UNCHANGED <<aSnap1, aSnap2, meta, lapse>>
        /\ ck' = ck \/ ck' = IdleCkpt
        /\ rd' = IF c \in Readers THEN [rd EXCEPT ![c] = IdleReader] ELSE rd
    BY <1>4 DEF Die, shm, file
  <2>2. \A d \in Readers : rd'[d] = rd[d] \/ rd'[d] = IdleReader
    BY <1>0, <2>1
  <2>3. LoadedBy' \subseteq LoadedBy \cup {Current}
    BY SMTT(40), <2>1, <2>2 DEF LoadedBy, IdleReader, IdleCkpt
  <2> QED
    BY <2>1, <2>3 DEF Current
<1> QED
  BY <1>0, <1>1, <1>2, <1>3, <1>4, NextCases

(* The ids are in order in the first state.                                  *)
LEMMA InitIds ==
  ASSUME Init
  PROVE  IdsInOrder
<1>1. Control
  BY InitControl
<1>2. LoadedBy = {} /\ Current = OneBlock
  BY DEF Init, LoadedBy, Current, IdleCkpt, IdleReader
<1>3. \A m \in 1..2 : meta[m] \in {None, OneBlock}
  BY DEF Init
<1>4. Current.iId \in Nat
  BY <1>1, LoadedSnapshots
<1> QED
  BY SMTT(40), <1>2, <1>3, <1>4 DEF IdsInOrder

(* The ids stay in order.                                                    *)
LEMMA NextIds ==
  ASSUME Control, IdsInOrder, [Next]_vars
  PROVE  IdsInOrder'
<1>1. Control'
  BY NextControl
<1>2. CASE Crash
  <2>1. LoadedBy' = {}
    BY SMTT(40), <1>2, CrashFacts DEF LoadedBy, IdleCkpt, IdleReader
  <2>2. Current' = aSnap1'
    BY <1>2, CrashFacts DEF Current
  <2>3. \A m \in 1..2 : meta'[m] # None => meta'[m].iId <= aSnap1'.iId
    BY <1>2, CrashFacts
  <2> QED
    BY <2>1, <2>2, <2>3 DEF IdsInOrder
<1>3. CASE Next /\ ~Crash
  <2>1. SUFFICES ASSUME lapse' = None
                 PROVE  /\ \A s \in LoadedBy' : s.iId <= Current'.iId
                        /\ \A m \in 1..2 : meta'[m] # None => meta'[m].iId <= Current'.iId
                        /\ \A s, t \in LoadedBy' \cup {Current'} : s.iId = t.iId => s = t
    BY DEF IdsInOrder
  <2>2. /\ lapse = None
        /\ LoadedBy' \subseteq LoadedBy \cup {Current}
        /\ \A m \in 1..2 : meta'[m] = meta[m] \/ meta'[m] \in LoadedBy \cup {None}
        /\ \/ Current' = Current
           \/ Current'.iId = Current.iId + 1
    BY <1>3, <2>1, LoadsCurrent
  <2>3. /\ \A s \in LoadedBy : s.iId <= Current.iId
        /\ \A m \in 1..2 : meta[m] # None => meta[m].iId <= Current.iId
        /\ \A s, t \in LoadedBy \cup {Current} : s.iId = t.iId => s = t
    BY <2>2 DEF IdsInOrder
  <2>4. /\ \A s \in LoadedBy \cup {Current} : s.iId \in Nat
        /\ \A m \in 1..2 : meta[m] # None => meta[m].iId \in Nat
    BY LoadedSnapshots
  <2>5. Current'.iId \in Nat /\ Current.iId <= Current'.iId
    BY SMTT(40), <2>2, <2>4
  <2>6. \A s \in LoadedBy \cup {Current} : s.iId <= Current.iId /\ s.iId <= Current'.iId
    BY SMTT(40), <2>3, <2>4, <2>5
  <2>7. \A m \in 1..2 : meta'[m] # None => meta'[m].iId <= Current'.iId
    BY SMTT(40), <2>2, <2>3, <2>4, <2>5, <2>6
  <2>8. \A s, t \in LoadedBy' \cup {Current'} : s.iId = t.iId => s = t
    <3>1. CASE Current' = Current
      BY <2>2, <2>3, <3>1
    <3>2. CASE Current'.iId = Current.iId + 1
      <4>1. \A s \in LoadedBy' : s.iId # Current'.iId
        BY SMTT(40), <2>2, <2>4, <2>6, <3>2
      <4> QED
        BY <2>2, <2>3, <4>1
    <3> QED
      BY <2>2, <3>1, <3>2
  <2> QED
    BY <2>2, <2>6, <2>7, <2>8
<1>4. CASE UNCHANGED vars
  <2>1. UNCHANGED <<aSnap1, aSnap2, meta, rd, ck, lapse>>
    BY <1>4 DEF vars, shm, file
  <2>2. LoadedBy' = LoadedBy /\ Current' = Current
    BY <2>1 DEF LoadedBy, Current
  <2> QED
    BY <2>1, <2>2 DEF IdsInOrder
<1> QED
  BY <1>2, <1>3, <1>4

-----------------------------------------------------------------------------
(* Slots.  A reader that has found a slot, and one that reads, holds a lock  *)
(* on a slot with an id that is not newer than its snapshot's.               *)

(* A transaction that the connection has not worked in.                      *)
Reading(c) == InReadTrans(c) /\ ~rd[c].worked

Holds(c, id) ==
  /\ rd[c].iReader \in Slots /\ c \in lock[rd[c].iReader]
  /\ aReader[rd[c].iReader] \in 1..id

SlotsHeld ==
  \A c \in Readers :
    /\ rd[c].pc = "verify" => Holds(c, rd[c].snap.iId)
    /\ Reading(c) => Holds(c, rd[c].client.iId)

(* Looking for a slot neither ends the search nor opens the transaction.     *)
LEMMA ReaderLooks ==
  ASSUME Control, NEW c \in Readers, LookExact(c) \/ LookUsable(c)
  PROVE  rd'[c].pc \in {"grab", "lockexact", "idle", "lockusable"}
<1>1. rd \in [Readers -> ReaderStates] /\ rd[c] \in ReaderStates
  BY DEF Control, TypeOK, ReaderType
<1>2. CASE LookExact(c)
  <2> DEFINE i == IF ExactMatch(c) = {} THEN 1 ELSE Min(ExactMatch(c))
             pc == IF ExactMatch(c) = {} THEN "grab" ELSE "lockexact"
  <2>1. rd' = [rd EXCEPT ![c].pc = pc, ![c].i = i]
    BY <1>2 DEF LookExact
  <2>2. pc \in {"grab", "lockexact"}
    OBVIOUS
  <2> HIDE DEF i, pc
  <2> QED
    BY <1>1, <2>1, <2>2 DEF ReaderStates
<1>3. CASE LookUsable(c)
  <2> DEFINE i == IF UsableSlots(c) = {} THEN 0 ELSE Min(UsableSlots(c))
             pc == IF UsableSlots(c) = {} THEN "idle" ELSE "lockusable"
             s == IF UsableSlots(c) = {} THEN None ELSE rd[c].snap
             k == IF UsableSlots(c) = {} THEN 0 ELSE rd[c].copy
  <2>1. rd' = [rd EXCEPT ![c].pc = pc, ![c].i = i, ![c].snap = s, ![c].copy = k]
    BY <1>1, <1>3 DEF LookUsable, ReaderStates
  <2>2. pc \in {"idle", "lockusable"}
    OBVIOUS
  <2> HIDE DEF i, pc, s, k
  <2> QED
    BY <1>1, <2>1, <2>2 DEF ReaderStates
<1> QED
  BY <1>2, <1>3

(* lsmReadlock() ends with a slot that is locked and names the snapshot or   *)
(* an older one.                                                             *)
LEMMA ReaderLocks ==
  ASSUME Control, NEW c \in Readers, ReaderStep(c), rd'[c].pc = "verify"
  PROVE  rd'[c].snap = rd[c].snap /\ Holds(c, rd[c].snap.iId)'
<1>1. /\ rd \in [Readers -> ReaderStates] /\ rd[c] \in ReaderStates
      /\ ReaderFine(rd[c]) /\ fleet \in Fleets
      /\ aReader \in [Slots -> Nat] /\ lock \in [Slots -> SUBSET Conns]
  BY DEF Control, TypeOK, SlotType, ReaderType, ReaderFine, ReadersInOrder
<1>2. CASE LockExact(c) \/ LockUsable(c)
  <2> DEFINE i == rd[c].i
             x == [rd[c] EXCEPT !.pc = "verify", !.iReader = i]
  <2>1. /\ rd[c].pc \in {"lockexact", "lockusable"}
        /\ lock' = [lock EXCEPT ![i] = @ \cup {c}] /\ aReader' = aReader
    BY <1>2 DEF LockExact, LockUsable
  <2>2. i \in Slots /\ rd[c].snap \in Snapshots
    BY <1>1, <2>1 DEF ReaderFine, Searching
  <2>3. rd[c].snap.iId \in Nat \ {0}
    BY <1>1, <2>2, OwnSnapshot
  <2>4. rd'[c] = x /\ aReader[i] \in 1..rd[c].snap.iId
    <3>1. CASE LockExact(c)
      <4>1. aReader[i] = rd[c].snap.iId
        BY <1>1, <3>1 DEF LockExact, ReaderStates
      <4>2. rd' = [rd EXCEPT ![c].pc = "verify", ![c].iReader = i]
        BY <3>1, <4>1 DEF LockExact
      <4> QED
        BY SMTT(40), <1>1, <2>3, <4>1, <4>2
    <3>2. CASE LockUsable(c)
      <4>1. aReader[i] \in 1..rd[c].snap.iId
        BY <1>1, <3>2 DEF LockUsable, ReaderStates
      <4>2. rd' = [rd EXCEPT ![c].pc = "verify", ![c].iReader = i]
        BY <3>2, <4>1 DEF LockUsable
      <4> QED
        BY <1>1, <4>1, <4>2
    <3> QED
      BY <1>2, <3>1, <3>2
  <2>5. x.snap = rd[c].snap /\ x.iReader = i
    BY <1>1 DEF ReaderStates
  <2>6. c \in lock'[i]
    BY <1>1, <2>1, <2>2
  <2> HIDE DEF i, x
  <2> QED
    BY <2>1, <2>2, <2>4, <2>5, <2>6 DEF Holds
<1>3. CASE GrabSlot(c)
  <2> DEFINE u == {i \in Slots : CanLock(c, i)}
             m == Min(u)
             x == [rd[c] EXCEPT !.pc = "verify", !.iReader = m]
  <2>0. u # {}
    <3>1. u = {} => rd' = [rd EXCEPT ![c].pc = "usable", ![c].i = 1]
      BY <1>3 DEF GrabSlot
    <3> QED
      BY SMTT(40), <1>1, <3>1 DEF ReaderStates
  <2>1. /\ aReader' = [aReader EXCEPT ![m] = rd[c].snap.iId]
        /\ lock' = [lock EXCEPT ![m] = {c}]
        /\ rd'[c] = x
    BY <1>1, <1>3, <2>0 DEF GrabSlot
  <2>2. m \in Slots
    <3>1. u \in SUBSET Nat
      BY SMTT(40), LsmAssumption DEF Slots
    <3> QED
      BY <2>0, <3>1, LeastMember
  <2>3. rd[c].snap.iId \in Nat \ {0}
    BY <1>1, <1>3, OwnSnapshot DEF GrabSlot, ReaderFine, Searching
  <2>4. x.snap = rd[c].snap /\ x.iReader = m
    BY <1>1 DEF ReaderStates
  <2> HIDE DEF u, m, x
  <2>5. c \in lock'[m] /\ aReader'[m] = rd[c].snap.iId
    BY <1>1, <2>1, <2>2
  <2> QED
    BY SMTT(40), <2>1, <2>2, <2>3, <2>4, <2>5 DEF Holds
<1>4. CASE UseCached(c) \/ LoadSnap1(c) \/ LoadSnap2(c)
  BY SMTT(40), <1>1, <1>4 DEF UseCached, LoadSnap1, LoadSnap2, ReaderStates
<1>5. CASE LookExact(c) \/ LookUsable(c)
  BY <1>5, ReaderLooks
<1>6. CASE VerifySnapshot(c) \/ FinishReadTrans(c)
  BY SMTT(40), <1>1, <1>6 DEF VerifySnapshot, FinishReadTrans, ReaderStates
<1> QED
  BY <1>2, <1>3, <1>4, <1>5, <1>6 DEF ReaderStep

(* A transaction is opened with the snapshot that was loaded, if the copy it *)
(* came from has, or may seem to have, its id.                               *)
LEMMA ReaderOpens ==
  ASSUME Control, NEW c \in Readers, ReaderStep(c), rd'[c].pc = "open"
  PROVE  /\ rd[c].pc = "verify" /\ rd'[c].client = rd[c].snap
         /\ rd'[c].iReader = rd[c].iReader
         /\ UNCHANGED <<aReader, lock>>
         /\ MayHaveId(IF rd[c].copy = 1 THEN aSnap1 ELSE aSnap2, rd[c].snap.iId)
<1>1. rd \in [Readers -> ReaderStates] /\ rd[c] \in ReaderStates
  BY DEF Control, TypeOK, ReaderType
<1>2. CASE VerifySnapshot(c)
  <2>1. rd[c].pc = "verify" /\ UNCHANGED aReader
    BY <1>2 DEF VerifySnapshot
  <2>2. /\ MayHaveId(IF rd[c].copy = 1 THEN aSnap1 ELSE aSnap2, rd[c].snap.iId)
        /\ rd' = [rd EXCEPT ![c].pc = "open", ![c].client = rd[c].snap,
                            ![c].snap = None, ![c].copy = 0, ![c].i = 0]
        /\ UNCHANGED lock
    BY SMTT(40), <1>1, <1>2 DEF VerifySnapshot, ReaderStates
  <2> QED
    BY <1>1, <2>1, <2>2 DEF ReaderStates
<1>3. CASE LockExact(c) \/ LockUsable(c)
  BY SMTT(40), <1>1, <1>3 DEF LockExact, LockUsable, ReaderStates
<1>7. CASE GrabSlot(c)
  <2> DEFINE m == Min({i \in Slots : CanLock(c, i)})
  <2>1. \/ rd' = [rd EXCEPT ![c].pc = "usable", ![c].i = 1]
        \/ rd' = [rd EXCEPT ![c].pc = "verify", ![c].iReader = m]
    BY <1>7 DEF GrabSlot
  <2> HIDE DEF m
  <2> QED
    BY SMTT(40), <1>1, <2>1 DEF ReaderStates
<1>4. CASE UseCached(c) \/ LoadSnap1(c) \/ LoadSnap2(c)
  BY SMTT(40), <1>1, <1>4 DEF UseCached, LoadSnap1, LoadSnap2, ReaderStates
<1>5. CASE LookExact(c) \/ LookUsable(c)
  BY <1>5, ReaderLooks
<1>6. CASE FinishReadTrans(c)
  BY <1>1, <1>6 DEF FinishReadTrans, ReaderStates
<1> QED
  BY <1>2, <1>3, <1>4, <1>5, <1>6, <1>7 DEF ReaderStep

(* A reader that works has an open transaction, in which it has worked.      *)
LEMMA WorkerHasWorked ==
  ASSUME Control, NEW c \in Readers, WorkerStep(c)
  PROVE  rd'[c].pc = "open" /\ rd'[c].worked
<1>1. rd \in [Readers -> ReaderStates] /\ rd[c] \in ReaderStates
  BY DEF Control, TypeOK, ReaderType
<1>2. CASE BeginWork(c)
  <2>1. InReadTrans(c)
    BY <1>2, LsmAssumption DEF BeginWork
  <2>2. rd' = [rd EXCEPT ![c].worked = TRUE]
    BY <1>2, <2>1 DEF BeginWork
  <2> QED
    BY <1>1, <2>1, <2>2 DEF InReadTrans, ReaderStates
<1>3. CASE worker = c
  <2>1. rd[c].pc = "open" /\ rd[c].worked
    BY <1>3 DEF Control, ReadersInOrder
  <2>2. rd' = rd \/ rd' = [rd EXCEPT ![c].client = aSnap1] \/ BeginWork(c)
    BY
    DEF WorkerStep, AllocateBlock, ReadSynced, ScanSlot, ScanLock, WriteBlock,
        MoveBlock, FreeBlock, SaveWorker, SavedSnap2, SaveSnap1, SavedSnap1,
        FinishWork, AbandonWork, ReloadClient
  <2> QED
    BY <1>1, <1>2, <2>1, <2>2 DEF ReaderStates
<1> QED
  BY <1>2, <1>3, WorkerFrame

(* No slot is needed in the first state.                                     *)
LEMMA InitSlots ==
  ASSUME Init
  PROVE  SlotsHeld
BY DEF Init, SlotsHeld, Reading, InReadTrans, IdleReader

(* The slots stay held.                                                      *)
LEMMA NextSlots ==
  ASSUME Control, SlotsHeld, [Next]_vars
  PROVE  SlotsHeld'
<1>0. /\ rd \in [Readers -> ReaderStates] /\ fleet \in Fleets
      /\ aReader \in [Slots -> Nat] /\ lock \in [Slots -> SUBSET Conns]
  BY DEF Control, TypeOK, SlotType, ReaderType
<1> DEFINE Held(c) ==
      /\ rd[c].pc = "verify" => Holds(c, rd[c].snap.iId)
      /\ Reading(c) => Holds(c, rd[c].client.iId)
<1>1. ASSUME NEW c, NEW d \in Readers, d # c, OthersKeep(c), rd'[d] = rd[d]
      PROVE  Held(d)'
  <2>1. Held(d)
    BY DEF SlotsHeld
  <2>2. ASSUME NEW id, Holds(d, id) PROVE Holds(d, id)'
    BY <1>1, <2>2 DEF Holds, OthersKeep
  <2>3. Reading(d)' => Reading(d)
    BY <1>1 DEF Reading, InReadTrans
  <2> QED
    BY <1>1, <2>1, <2>2, <2>3
<1>2. ASSUME NEW c \in Readers, ReaderStep(c) PROVE SlotsHeld'
  <2>1. OthersKeep(c)
    BY <1>2, ReaderSlots
  <2>2. \A d \in Readers : d # c => rd'[d] = rd[d]
    BY <1>0, <1>2, ReaderOwnStep
  <2>3. rd'[c].pc = "verify" => Holds(c, rd[c].snap.iId)'
    BY <1>2, ReaderLocks
  <2>4. Reading(c)' => Holds(c, rd[c].client.iId)'
    <3>1. SUFFICES ASSUME rd'[c].pc = "open" PROVE Holds(c, rd[c].client.iId)'
      BY DEF Reading, InReadTrans
    <3>2. /\ rd[c].pc = "verify" /\ rd'[c].client = rd[c].snap
          /\ rd'[c].iReader = rd[c].iReader
          /\ UNCHANGED <<aReader, lock>>
      BY <1>2, <3>1, ReaderOpens
    <3>3. Holds(c, rd[c].snap.iId)
      BY <3>2 DEF SlotsHeld
    <3> QED
      BY <3>2, <3>3 DEF Holds
  <2>5. Held(c)'
    BY <2>3, <2>4 DEF Holds
  <2>6. \A d \in Readers : Held(d)'
    BY <1>1, <2>1, <2>2, <2>5
  <2> QED
    BY <2>6 DEF SlotsHeld
<1>3. ASSUME NEW c \in Readers \cup Workers, WorkerStep(c) PROVE SlotsHeld'
  <2>1. OthersKeep(c)
    BY <1>3, WorkerSlots
  <2>2. \A d \in Readers : d # c => rd'[d] = rd[d]
    BY <1>3, WorkerReaders
  <2>3. c \in Readers => Held(c)'
    BY <1>3, WorkerHasWorked DEF Reading
  <2>4. \A d \in Readers : Held(d)'
    BY <1>1, <2>1, <2>2, <2>3
  <2> QED
    BY <2>4 DEF SlotsHeld
<1>4. ASSUME NEW c \in Checkpointers, CkptStep(c) PROVE SlotsHeld'
  <2>1. UNCHANGED <<aReader, lock, rd>>
    BY <1>4, CkptFrame
  <2> QED
    BY <2>1 DEF SlotsHeld, Holds, Reading, InReadTrans
<1>5. ASSUME NEW c \in Conns, Die(c) PROVE SlotsHeld'
  <2>1. /\ lock' = [i \in Slots |-> lock[i] \ {c}] /\ aReader' = aReader
        /\ rd' = IF c \in Readers THEN [rd EXCEPT ![c] = IdleReader] ELSE rd
    BY <1>5 DEF Die
  <2>2. OthersKeep(c)
    BY <1>0, <2>1 DEF OthersKeep
  <2>3. \A d \in Readers : d # c => rd'[d] = rd[d]
    BY <1>0, <2>1
  <2>4. c \in Readers => Held(c)'
    BY <1>0, <2>1 DEF Reading, InReadTrans, IdleReader
  <2>5. \A d \in Readers : Held(d)'
    BY <1>1, <2>2, <2>3, <2>4
  <2> QED
    BY <2>5 DEF SlotsHeld
<1>6. CASE Crash
  BY SMTT(40), <1>6, CrashFacts DEF SlotsHeld, Reading, InReadTrans, IdleReader
<1>7. CASE UNCHANGED vars
  <2>1. UNCHANGED <<aReader, lock, rd>>
    BY <1>7 DEF vars, slots
  <2> QED
    BY <2>1 DEF SlotsHeld, Holds, Reading, InReadTrans
<1> QED
  BY <1>0, <1>2, <1>3, <1>4, <1>5, <1>6, <1>7, NextCases

-----------------------------------------------------------------------------
(* The scan.  The bound of firstSnapshotInUse() is not above the id of any   *)
(* snapshot that is read under one of the slots it has passed.               *)

ScanBounded ==
  lapse = None =>
    /\ wk.pc \in {"scan", "scanlock"} =>
         /\ wk.iInUse <= wk.p.iId
         /\ \A c \in Readers :
              Reading(c) /\ rd[c].iReader < wk.i => wk.iInUse <= rd[c].client.iId
    /\ wk.pc = "scanlock" =>
         /\ wk.iThis < wk.iInUse
         /\ \A c \in Readers :
              Reading(c) /\ rd[c].iReader = wk.i => wk.iThis <= rd[c].client.iId

(* The numbers of a reader that reads.                                       *)
LEMMA ReadingFacts ==
  ASSUME Control, SlotsHeld, NEW c \in Readers, Reading(c)
  PROVE  /\ rd[c].client \in Snapshots /\ rd[c].client.iId \in Nat \ {0}
         /\ rd[c].iReader \in Slots /\ rd[c].iReader \in Nat \ {0}
         /\ c \in lock[rd[c].iReader]
         /\ aReader[rd[c].iReader] \in 1..rd[c].client.iId
<1>1. Holds(c, rd[c].client.iId)
  BY DEF SlotsHeld
<1>2. rd[c].client \in Snapshots /\ fleet \in Fleets
  BY DEF Control, TypeOK, ReadersInOrder, Reading, InReadTrans
<1>3. rd[c].client.iId \in Nat \ {0}
  BY <1>2, OwnSnapshot
<1> QED
  BY SMTT(40), <1>1, <1>2, <1>3, LsmAssumption DEF Holds, Slots

(* While the worker works a transaction can only be opened with the snapshot *)
(* that the worker started from.                                             *)
LEMMA OpensCurrent ==
  ASSUME Control, NEW c \in Readers, ReaderStep(c), rd'[c].pc = "open",
         wk.pc \in Working
  PROVE  rd'[c].client.iId = wk.p.iId
<1>1. /\ rd'[c].client = rd[c].snap
      /\ MayHaveId(IF rd[c].copy = 1 THEN aSnap1 ELSE aSnap2, rd[c].snap.iId)
  BY ReaderOpens
<1>2. ChecksumOk(aSnap1) /\ aSnap1 = aSnap2 /\ wk.p.iId = aSnap1.iId
  BY DEF Control, CopiesInOrder
<1>3. MayHaveId(aSnap1, rd[c].snap.iId)
  BY <1>1, <1>2
<1> QED
  BY <1>1, <1>2, <1>3 DEF MayHaveId

(* What the steps of firstSnapshotInUse() do to the bound.                   *)
LEMMA ScanSteps ==
  ASSUME Control, NEW c \in Readers \cup Workers, WorkerStep(c),
         wk'.pc \in {"scan", "scanlock"}
  PROVE  \/ ReadSynced(c)
         \/ /\ wk.pc = "scan" /\ wk'.pc = "scanlock"
            /\ wk'.p = wk.p /\ wk'.iInUse = wk.iInUse /\ wk'.i = wk.i
            /\ wk.i \in Slots /\ wk'.iThis = aReader[wk.i] /\ wk.iInUse > aReader[wk.i]
         \/ /\ wk.pc = "scan" /\ wk'.pc = "scan"
            /\ wk'.p = wk.p /\ wk'.iInUse = wk.iInUse /\ wk'.i = wk.i + 1
            /\ wk.i \in Slots /\ (aReader[wk.i] = 0 \/ ~(wk.iInUse > aReader[wk.i]))
         \/ /\ wk.pc = "scanlock" /\ wk'.pc = "scan"
            /\ wk'.p = wk.p /\ wk'.i = wk.i + 1
            /\ (wk'.iInUse = wk.iInUse /\ CanLock(c, wk.i)) \/ wk'.iInUse = wk.iThis
<1>0. wk \in WorkerStates
  BY DEF Control, TypeOK, WorkerType
<1>1. CASE ScanSlot(c)
  <2>1. wk.pc = "scan" /\ wk.i <= NREADER
    BY <1>1 DEF ScanSlot
  <2>2. wk.i \in Slots
    BY SMTT(40), <1>0, <2>1, LsmAssumption DEF Control, CopiesInOrder, WorkerStates, Slots
  <2>3. CASE aReader[wk.i] # 0 /\ wk.iInUse > aReader[wk.i]
    <3>1. wk' = [wk EXCEPT !.pc = "scanlock", !.iThis = aReader[wk.i]]
      BY <1>1, <2>3 DEF ScanSlot
    <3> QED
      BY <1>0, <2>1, <2>2, <2>3, <3>1 DEF WorkerStates
  <2>4. CASE ~(aReader[wk.i] # 0 /\ wk.iInUse > aReader[wk.i])
    <3>1. wk' = [wk EXCEPT !.i = @ + 1]
      BY <1>1, <2>4 DEF ScanSlot
    <3>2. wk'.pc = wk.pc /\ wk'.p = wk.p /\ wk'.iInUse = wk.iInUse /\ wk'.i = wk.i + 1
      BY <1>0, <3>1 DEF WorkerStates
    <3> QED
      BY <2>1, <2>2, <2>4, <3>2
  <2> QED
    BY <2>3, <2>4
<1>2. CASE ScanLock(c)
  <2>1. wk.pc = "scanlock"
    BY <1>2 DEF ScanLock
  <2>2. CASE CanLock(c, wk.i)
    <3>1. wk' = [wk EXCEPT !.pc = "scan", !.i = @ + 1]
      BY <1>2, <2>2 DEF ScanLock
    <3> QED
      BY <1>0, <2>1, <2>2, <3>1 DEF WorkerStates
  <2>3. CASE ~CanLock(c, wk.i)
    <3>1. wk' = [wk EXCEPT !.pc = "scan", !.i = @ + 1, !.iInUse = wk.iThis]
      BY <1>2, <2>3 DEF ScanLock
    <3> QED
      BY <1>0, <2>1, <3>1 DEF WorkerStates
  <2> QED
    BY <2>2, <2>3
<1>3. CASE BeginWork(c) \/ WriteBlock(c) \/ MoveBlock(c)
  <2>1. \E q, d :
          \/ wk' = [IdleWorker EXCEPT !.pc = "work", !.p = q]
          \/ wk' = [IdleWorker EXCEPT !.pc = "work", !.p = q, !.dirty = d]
          \/ wk' = [IdleWorker EXCEPT !.pc = "work", !.dirty = d, !.p = q]
    BY <1>3 DEF BeginWork, WriteBlock, MoveBlock
  <2> QED
    BY <2>1 DEF IdleWorker
<1>4. CASE AllocateBlock(c) \/ FreeBlock(c)
  <2>1. \/ \E x, y : wk' = [wk EXCEPT !.pc = "synced", !.iMeta = x, !.iBefore = y]
        \/ wk.pc = "work" /\ \E q : wk' = [wk EXCEPT !.p = q, !.dirty = TRUE]
    BY <1>4 DEF AllocateBlock, FreeBlock
  <2> QED
    BY <1>0, <2>1 DEF WorkerStates
<1>6. CASE SaveWorker(c) \/ SavedSnap2(c) \/ SaveSnap1(c)
  <2>1. \/ wk' = [wk EXCEPT !.pc = "save2", !.p.iId = @ + 1]
        \/ wk' = [wk EXCEPT !.pc = "barrier"] \/ wk' = [wk EXCEPT !.pc = "save1"]
    BY <1>6 DEF SaveWorker, SavedSnap2, SaveSnap1
  <2>2. wk'.pc \in {"save2", "barrier", "save1"}
    BY <1>0, <2>1 DEF WorkerStates
  <2> QED
    BY <2>2
<1>5. CASE SavedSnap1(c) \/ FinishWork(c) \/ AbandonWork(c)
  <2>1. \/ wk' = IdleWorker
        \/ \E pc \in {"work", "finish"} : wk' = [IdleWorker EXCEPT !.pc = pc, !.p = wk.p]
    BY <1>5 DEF SavedSnap1, FinishWork, AbandonWork
  <2>2. wk'.pc \in {"idle", "work", "finish"}
    <3>1. wk' = IdleWorker => wk'.pc = "idle"
      BY SMTT(40) DEF IdleWorker
    <3>2. ASSUME NEW pc \in {"work", "finish"},
                 wk' = [IdleWorker EXCEPT !.pc = pc, !.p = wk.p]
          PROVE  wk'.pc = pc
      BY <3>2 DEF IdleWorker
    <3> QED
      BY <2>1, <3>1, <3>2
  <2> QED
    BY <2>2
<1> QED
  BY <1>1, <1>2, <1>3, <1>4, <1>5, <1>6 DEF WorkerStep

(* The bound from which the scan starts is not above the snapshot that the   *)
(* worker started from.                                                      *)
LEMMA SyncedBound ==
  ASSUME Control, IdsInOrder, lapse = None, NEW c \in Conns, ReadSynced(c)
  PROVE  wk'.i = 1 /\ wk'.iInUse <= wk'.p.iId
<1>1. PICK n \in Nat :
        /\ wk' = [wk EXCEPT !.pc = "scan", !.i = 1, !.iInUse = n]
        /\ n <= IF CheckpointSynced = 0 THEN wk.p.iId ELSE CheckpointSynced
  BY SyncedFacts
<1>2. wk \in WorkerStates /\ wk.pc \in Working /\ iMetaPage \in 0..2
  BY DEF Control, TypeOK, WorkerType, ReadSynced, Working, ShmType
<1>3. ChecksumOk(aSnap1) /\ wk.p.iId = aSnap1.iId /\ wk.p \in Snapshots /\ fleet \in Fleets
  BY <1>2 DEF Control, CopiesInOrder, TypeOK, Working
<1>4. wk.p.iId \in Nat
  BY <1>3, OwnSnapshot
<1>5. CASE CheckpointSynced # 0
  <2>1. iMetaPage \in 1..2 /\ meta[iMetaPage] # None /\ CheckpointSynced = meta[iMetaPage].iId
    BY SMTT(40), <1>2, <1>5 DEF CheckpointSynced
  <2>2. meta[iMetaPage].iId <= aSnap1.iId
    BY <1>3, <2>1 DEF IdsInOrder, Current
  <2>3. meta[iMetaPage].iId \in Nat
    BY <2>1, LoadedSnapshots
  <2>4. n <= wk.p.iId
    BY SMTT(40), <1>1, <1>3, <1>4, <1>5, <2>1, <2>2, <2>3
  <2> QED
    BY <1>1, <1>2, <2>4 DEF WorkerStates
<1>6. CASE CheckpointSynced = 0
  BY <1>1, <1>2, <1>6 DEF WorkerStates
<1> QED
  BY <1>5, <1>6

(* Nobody scans in the first state.                                          *)
LEMMA InitScan ==
  ASSUME Init
  PROVE  ScanBounded
BY DEF Init, ScanBounded, IdleWorker

(* A step of a worker keeps the bound below what is read.                    *)
LEMMA WorkerScan ==
  ASSUME Control, IdsInOrder, SlotsHeld, ScanBounded,
         NEW c \in Readers \cup Workers, WorkerStep(c), lapse' = None
  PROVE  ScanBounded'
<1>0. /\ wk \in WorkerStates /\ aReader \in [Slots -> Nat] /\ c \in Conns
      /\ lapse = None /\ fleet \in Fleets
  BY WorkerFrame DEF Control, TypeOK, WorkerType, SlotType, Conns
<1>1. \A d \in Readers : Reading(d)' => d # c /\ rd'[d] = rd[d] /\ Reading(d)
  <2>1. SUFFICES ASSUME NEW d \in Readers, Reading(d)'
                 PROVE  d # c /\ rd'[d] = rd[d] /\ Reading(d)
    OBVIOUS
  <2>2. d # c
    BY <2>1, WorkerHasWorked DEF Reading
  <2>3. rd'[d] = rd[d]
    BY <2>2, WorkerReaders
  <2> QED
    BY <2>1, <2>2, <2>3 DEF Reading, InReadTrans
<1>2. \A d \in Readers : Reading(d) =>
        /\ rd[d].client.iId \in Nat /\ rd[d].iReader \in Nat \ {0}
        /\ rd[d].iReader \in Slots /\ d \in lock[rd[d].iReader]
        /\ aReader[rd[d].iReader] \in 1..rd[d].client.iId
  BY ReadingFacts
<1>3. SUFFICES ASSUME wk'.pc \in {"scan", "scanlock"}
               PROVE  /\ wk'.iInUse <= wk'.p.iId
                      /\ \A d \in Readers :
                           Reading(d) /\ d # c /\ rd[d].iReader < wk'.i =>
                             wk'.iInUse <= rd[d].client.iId
                      /\ wk'.pc = "scanlock" =>
                           /\ wk'.iThis < wk'.iInUse
                           /\ \A d \in Readers :
                                Reading(d) /\ d # c /\ rd[d].iReader = wk'.i =>
                                  wk'.iThis <= rd[d].client.iId
  BY <1>1 DEF ScanBounded
<1>4. wk.iInUse \in Nat /\ wk.iThis \in Nat /\ wk.i \in Nat
  BY <1>0 DEF WorkerStates
<1>5. wk.pc \in {"scan", "scanlock"} =>
        /\ wk.iInUse <= wk.p.iId /\ wk.p.iId \in Nat
        /\ \A d \in Readers :
             Reading(d) /\ rd[d].iReader < wk.i => wk.iInUse <= rd[d].client.iId
  BY <1>0, OwnSnapshot DEF ScanBounded, Control, CopiesInOrder
<1>6. wk.pc = "scanlock" =>
        /\ wk.iThis < wk.iInUse
        /\ \A d \in Readers :
             Reading(d) /\ rd[d].iReader = wk.i => wk.iThis <= rd[d].client.iId
  BY <1>0 DEF ScanBounded
<1>7. CASE ReadSynced(c)
  <2>1. wk'.i = 1 /\ wk'.iInUse <= wk'.p.iId /\ wk'.pc = "scan"
    BY <1>0, <1>7, SyncedBound DEF ReadSynced, WorkerStates
  <2> QED
    BY SMTT(40), <1>2, <2>1
<1>8. CASE /\ wk.pc = "scan" /\ wk'.pc = "scanlock"
           /\ wk'.p = wk.p /\ wk'.iInUse = wk.iInUse /\ wk'.i = wk.i
           /\ wk.i \in Slots /\ wk'.iThis = aReader[wk.i] /\ wk.iInUse > aReader[wk.i]
  BY SMTT(40), <1>0, <1>2, <1>4, <1>5, <1>8
<1>9. CASE /\ wk.pc = "scan" /\ wk'.pc = "scan"
           /\ wk'.p = wk.p /\ wk'.iInUse = wk.iInUse /\ wk'.i = wk.i + 1
           /\ wk.i \in Slots /\ (aReader[wk.i] = 0 \/ ~(wk.iInUse > aReader[wk.i]))
  <2>1. ASSUME NEW d \in Readers, Reading(d), rd[d].iReader < wk.i + 1
        PROVE  wk.iInUse <= rd[d].client.iId
    <3>1. CASE rd[d].iReader = wk.i
      BY SMTT(40), <1>2, <1>4, <1>9, <2>1, <3>1
    <3> QED
      BY SMTT(40), <1>2, <1>4, <1>5, <1>9, <2>1, <3>1
  <2> QED
    BY <1>5, <1>9, <2>1
<1>10. CASE /\ wk.pc = "scanlock" /\ wk'.pc = "scan"
            /\ wk'.p = wk.p /\ wk'.i = wk.i + 1
            /\ (wk'.iInUse = wk.iInUse /\ CanLock(c, wk.i)) \/ wk'.iInUse = wk.iThis
  <2>1. wk'.iInUse \in Nat /\ wk'.iInUse <= wk.iInUse /\ wk'.iInUse <= wk'.p.iId
    BY SMTT(40), <1>4, <1>5, <1>6, <1>10
  <2>2. ASSUME NEW d \in Readers, Reading(d), d # c, rd[d].iReader < wk.i + 1
        PROVE  wk'.iInUse <= rd[d].client.iId
    <3>1. CASE rd[d].iReader = wk.i
      <4>1. ~CanLock(c, wk.i)
        BY <1>2, <2>2, <3>1 DEF CanLock
      <4> QED
        BY <1>6, <1>10, <2>2, <3>1, <4>1
    <3>2. CASE rd[d].iReader < wk.i
      BY SMTT(40), <1>2, <1>4, <1>5, <1>10, <2>1, <2>2, <3>2
    <3> QED
      BY SMTT(40), <1>2, <1>4, <2>2, <3>1, <3>2
  <2> QED
    BY <1>10, <2>1, <2>2
<1> QED
  BY <1>3, <1>7, <1>8, <1>9, <1>10, ScanSteps

(* The bound stays below what is read.                                       *)
LEMMA NextScan ==
  ASSUME Control, IdsInOrder, SlotsHeld, ScanBounded, [Next]_vars
  PROVE  ScanBounded'
<1>0. /\ rd \in [Readers -> ReaderStates] /\ fleet \in Fleets /\ wk \in WorkerStates
      /\ lapse \in {None, "early", "recovery"}
  BY DEF Control, TypeOK, ReaderType, WorkerType, LapseType
<1>1. SUFFICES ASSUME lapse' = None PROVE ScanBounded'
  BY DEF ScanBounded
<1>2. ASSUME lapse = None, UNCHANGED wk,
             \A d \in Readers : Reading(d)' => rd'[d] = rd[d] /\ Reading(d)
      PROVE  ScanBounded'
  BY <1>2 DEF ScanBounded
<1>3. ASSUME NEW c \in Readers, ReaderStep(c) PROVE ScanBounded'
  <2>1. lapse = None /\ UNCHANGED wk
    BY <1>1, <1>3, ReaderFrame, LsmAssumption
  <2>2. \A d \in Readers : d # c => rd'[d] = rd[d] /\ (Reading(d)' => Reading(d))
    BY <1>0, <1>3, ReaderOwnStep DEF Reading, InReadTrans
  <2>3. CASE ~Reading(c)'
    BY <1>2, <2>1, <2>2, <2>3
  <2>4. CASE Reading(c)' /\ wk.pc \in {"scan", "scanlock"}
    <3>1. rd'[c].client.iId = wk.p.iId
      BY <1>3, <2>4, OpensCurrent DEF Reading, InReadTrans, Working
    <3>2. wk.p.iId \in Nat /\ wk.iInUse \in Nat /\ wk.iThis \in Nat
      BY <1>0, <2>4, OwnSnapshot DEF Control, CopiesInOrder, WorkerStates
    <3>3. wk.iInUse <= wk.p.iId /\ (wk.pc = "scanlock" => wk.iThis <= wk.p.iId)
      BY SMTT(40), <2>1, <2>4, <3>2 DEF ScanBounded
    <3> QED
      BY <2>1, <2>2, <3>1, <3>3 DEF ScanBounded
  <2>5. CASE wk.pc \notin {"scan", "scanlock"}
    BY <2>1, <2>5 DEF ScanBounded
  <2> QED
    BY <2>3, <2>4, <2>5
<1>4. ASSUME NEW c \in Readers \cup Workers, WorkerStep(c) PROVE ScanBounded'
  BY <1>1, <1>4, WorkerScan
<1>5. ASSUME NEW c \in Checkpointers, CkptStep(c) PROVE ScanBounded'
  <2>1. lapse = None /\ UNCHANGED <<wk, rd>>
    BY <1>1, <1>5, CkptFrame, LsmAssumption
  <2> QED
    BY <1>2, <2>1 DEF Reading, InReadTrans
<1>6. ASSUME NEW c \in Conns, Die(c) PROVE ScanBounded'
  <2>1. /\ lapse = None /\ (wk' = wk \/ wk' = IdleWorker)
        /\ rd' = IF c \in Readers THEN [rd EXCEPT ![c] = IdleReader] ELSE rd
    BY <1>1, <1>6 DEF Die
  <2>2. \A d \in Readers : Reading(d)' => rd'[d] = rd[d] /\ Reading(d)
    BY <1>0, <2>1 DEF Reading, InReadTrans, IdleReader
  <2>3. CASE wk' = IdleWorker
    BY <2>3 DEF ScanBounded, IdleWorker
  <2> QED
    BY <1>2, <2>1, <2>2, <2>3
<1>7. CASE Crash
  BY SMTT(40), <1>7, CrashFacts DEF ScanBounded, IdleWorker
<1>8. CASE UNCHANGED vars
  <2>1. UNCHANGED <<wk, rd, lapse>>
    BY <1>8 DEF vars
  <2> QED
    BY <1>1, <1>2, <2>1 DEF Reading, InReadTrans
<1> QED
  BY <1>0, <1>3, <1>4, <1>5, <1>6, <1>7, <1>8, NextCases

=============================================================================

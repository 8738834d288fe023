--------------------------- MODULE LsmSharedLemmas ---------------------------
(***************************************************************************)
(* What the steps of LsmShared do to the state of each party: who changes  *)
(* what, in which order, and which snapshots and numbers are found there.  *)
(***************************************************************************)
EXTENDS LsmShared, WellFoundedInduction, TLAPS

USE ZenonT(40)

-----------------------------------------------------------------------------
(* Snapshots.                                                               *)

(* A set of numbers with a member has a least one.                          *)
LEMMA LeastNumber ==
  ASSUME NEW T \in SUBSET Nat, T # {}
  PROVE  \E x \in T : \A y \in T : x <= y
<1> DEFINE R == {p \in Nat \X Nat : p[1] < p[2]}
<1>1. R = OpToRel(<, Nat)
  BY DEF OpToRel
<1> HIDE DEF R
<1>2. IsWellFoundedOn(R, Nat)
  BY <1>1, NatLessThanWellFounded
<1>3. PICK x \in T : \A y \in T : ~(<<y, x>> \in R)
  BY <1>2, WFMin
<1>4. ASSUME NEW y \in T PROVE x <= y
  <2>1. x \in Nat /\ y \in Nat /\ <<y, x>> \in Nat \X Nat
    OBVIOUS
  <2>2. <<y, x>>[1] = y /\ <<y, x>>[2] = x
    OBVIOUS
  <2>3. ~(y < x)
    BY <1>3, <2>1, <2>2 DEF R
  <2> QED
    BY SMTT(40), <2>1, <2>3
<1> QED
  BY <1>4

(* The operator Min of a set of numbers with a member is its least one.     *)
LEMMA LeastMember ==
  ASSUME NEW T \in SUBSET Nat, T # {}
  PROVE  /\ Min(T) \in T
         /\ \A y \in T : Min(T) <= y
<1>1. \E x \in T : \A y \in T : x <= y
  BY LeastNumber
<1> QED
  BY <1>1 DEF Min

(* What the fields of a snapshot are; a snapshot is a copy that can be      *)
(* loaded.                                                                  *)
LEMMA SnapshotFields ==
  ASSUME NEW n \in Nat, NEW s \in SnapshotsOf(n)
  PROVE  /\ s.iId \in Nat \ {0} /\ s.nBlock \in 0..n
         /\ DOMAIN s.lvl \subseteq 1..n /\ s.lvl \in [DOMAIN s.lvl -> Nat]
         /\ DOMAIN s.free \subseteq 1..n /\ s.free \in [DOMAIN s.free -> Nat]
         /\ ChecksumOk(s)
<1>1. PICK S \in SUBSET (1..n) : s.lvl \in [S -> Nat]
  BY DEF SnapshotsOf
<1>2. PICK R \in SUBSET (1..n) : s.free \in [R -> Nat]
  BY DEF SnapshotsOf
<1>3. s.iId \in Nat \ {0} /\ s.nBlock \in 0..n
  BY DEF SnapshotsOf
<1>4. DOMAIN s = {"iId", "lvl", "free", "nBlock"}
  BY DEF SnapshotsOf
<1> QED
  BY <1>1, <1>2, <1>3, <1>4 DEF ChecksumOk

(* How a snapshot is put together.                                          *)
LEMMA SnapshotParts ==
  ASSUME NEW n \in Nat, NEW id \in Nat \ {0}, NEW nb \in 0..n,
         NEW S \in SUBSET (1..n), NEW R \in SUBSET (1..n),
         NEW lvl \in [S -> Nat], NEW free \in [R -> Nat]
  PROVE  [iId |-> id, lvl |-> lvl, free |-> free, nBlock |-> nb]
           \in SnapshotsOf(n)
<1> DEFINE M == UNION {[X -> Nat] : X \in SUBSET (1..n)}
<1>1. lvl \in M /\ free \in M
  OBVIOUS
<1> HIDE DEF M
<1>2. [iId |-> id, lvl |-> lvl, free |-> free, nBlock |-> nb]
        \in [iId : Nat \ {0}, lvl : M, free : M, nBlock : 0..n]
  BY <1>1
<1> QED
  BY <1>2 DEF M, SnapshotsOf

(* A snapshot is the record of its fields.                                  *)
LEMMA SnapshotRecord ==
  ASSUME NEW n \in Nat, NEW s \in SnapshotsOf(n)
  PROVE  s = [iId |-> s.iId, lvl |-> s.lvl, free |-> s.free, nBlock |-> s.nBlock]
BY DEF SnapshotsOf

(* The worker snapshot with one more block in its levels, which leaves the  *)
(* free list.                                                               *)
LEMMA WithBlockFields ==
  ASSUME NEW n \in Nat, NEW p \in SnapshotsOf(n), NEW b \in 1..n, NEW q,
         q = WithBlock(p, b)
  PROVE  /\ q \in SnapshotsOf(n)
         /\ q.iId = p.iId
         /\ DOMAIN q.lvl = DOMAIN p.lvl \cup {b}
         /\ q.lvl[b] = p.iId + 1
         /\ \A x \in DOMAIN p.lvl \ {b} : q.lvl[x] = p.lvl[x]
         /\ DOMAIN q.free = DOMAIN p.free \ {b}
         /\ \A x \in DOMAIN q.free : q.free[x] = p.free[x]
         /\ q.nBlock = IF b > p.nBlock THEN b ELSE p.nBlock
<1> DEFINE lv == [x \in DOMAIN p.lvl \cup {b} |-> IF x = b THEN p.iId + 1 ELSE p.lvl[x]]
           fr == [x \in DOMAIN p.free \ {b} |-> p.free[x]]
           nb == IF b > p.nBlock THEN b ELSE p.nBlock
<1>1. q = [iId |-> p.iId, lvl |-> lv, free |-> fr, nBlock |-> nb]
  <2>1. q = [p EXCEPT !.lvl = lv, !.free = fr, !.nBlock = nb]
    BY DEF WithBlock, Restrict
  <2> HIDE DEF lv, fr, nb
  <2> QED
    BY <2>1, SnapshotRecord
<1>2. /\ p.iId \in Nat \ {0} /\ p.nBlock \in 0..n
      /\ DOMAIN p.lvl \subseteq 1..n /\ p.lvl \in [DOMAIN p.lvl -> Nat]
      /\ DOMAIN p.free \subseteq 1..n /\ p.free \in [DOMAIN p.free -> Nat]
  BY SnapshotFields
<1>3. /\ lv \in [DOMAIN p.lvl \cup {b} -> Nat]
      /\ fr \in [DOMAIN p.free \ {b} -> Nat]
      /\ nb \in 0..n
  BY SMTT(40), <1>2
<1>4. [iId |-> p.iId, lvl |-> lv, free |-> fr, nBlock |-> nb] \in SnapshotsOf(n)
  <2> HIDE DEF lv, fr, nb
  <2> QED
    BY <1>2, <1>3, SnapshotParts
<1>5. q.iId = p.iId /\ q.lvl = lv /\ q.free = fr /\ q.nBlock = nb
  <2> HIDE DEF lv, fr, nb
  <2> QED
    BY SMTT(40), <1>1
<1> QED
  BY <1>1, <1>4, <1>5

(* The worker snapshot without a block, which goes to the free list.        *)
LEMMA WithoutBlockFields ==
  ASSUME NEW n \in Nat, NEW p \in SnapshotsOf(n), NEW b \in 1..n, NEW q,
         q = WithoutBlock(p, b)
  PROVE  /\ q \in SnapshotsOf(n)
         /\ q.iId = p.iId /\ q.nBlock = p.nBlock
         /\ DOMAIN q.lvl = DOMAIN p.lvl \ {b}
         /\ \A x \in DOMAIN q.lvl : q.lvl[x] = p.lvl[x]
         /\ DOMAIN q.free = DOMAIN p.free \cup {b}
         /\ q.free[b] = p.iId
         /\ \A x \in DOMAIN p.free \ {b} : q.free[x] = p.free[x]
<1> DEFINE lv == [x \in DOMAIN p.lvl \ {b} |-> p.lvl[x]]
           fr == [x \in DOMAIN p.free \cup {b} |-> IF x = b THEN p.iId ELSE p.free[x]]
<1>1. q = [iId |-> p.iId, lvl |-> lv, free |-> fr, nBlock |-> p.nBlock]
  <2>1. q = [p EXCEPT !.lvl = lv, !.free = fr]
    BY DEF WithoutBlock, Restrict
  <2> HIDE DEF lv, fr
  <2> QED
    BY <2>1, SnapshotRecord
<1>2. /\ p.iId \in Nat \ {0} /\ p.nBlock \in 0..n
      /\ DOMAIN p.lvl \subseteq 1..n /\ p.lvl \in [DOMAIN p.lvl -> Nat]
      /\ DOMAIN p.free \subseteq 1..n /\ p.free \in [DOMAIN p.free -> Nat]
  BY SnapshotFields
<1>3. /\ lv \in [DOMAIN p.lvl \ {b} -> Nat]
      /\ fr \in [DOMAIN p.free \cup {b} -> Nat]
  BY <1>2
<1>4. [iId |-> p.iId, lvl |-> lv, free |-> fr, nBlock |-> p.nBlock] \in SnapshotsOf(n)
  <2> HIDE DEF lv, fr
  <2> QED
    BY <1>2, <1>3, SnapshotParts
<1>5. q.iId = p.iId /\ q.lvl = lv /\ q.free = fr /\ q.nBlock = p.nBlock
  <2> HIDE DEF lv, fr
  <2> QED
    BY SMTT(40), <1>1
<1> QED
  BY <1>1, <1>4, <1>5

(* The worker snapshot with the next id.                                    *)
LEMMA NextIdFields ==
  ASSUME NEW n \in Nat, NEW p \in SnapshotsOf(n), NEW q,
         q = [p EXCEPT !.iId = @ + 1]
  PROVE  /\ q \in SnapshotsOf(n)
         /\ q.iId = p.iId + 1 /\ q.lvl = p.lvl /\ q.free = p.free
         /\ q.nBlock = p.nBlock
<1>1. p.iId \in Nat
  BY SnapshotFields
<1> QED
  BY SMTT(40), <1>1 DEF SnapshotsOf

(* The snapshots Init and recovery start from.                              *)
LEMMA FirstSnapshots ==
  ASSUME NEW n \in Nat \ {0}
  PROVE  /\ EmptySnapshot \in SnapshotsOf(n) /\ OneBlock \in SnapshotsOf(n)
         /\ EmptySnapshot.lvl = <<>> /\ EmptySnapshot.free = <<>>
         /\ EmptySnapshot.iId = 1 /\ OneBlock.iId = 2
         /\ EmptySnapshot.nBlock = 0 /\ OneBlock.nBlock = 1
         /\ OneBlock.lvl = <<2>> /\ OneBlock.free = <<>>
<1>1. <<>> \in [{} -> Nat] /\ <<2>> \in [{1} -> Nat]
  BY SMTT(40)
<1>2. EmptySnapshot \in SnapshotsOf(n)
  <2>1. {} \in SUBSET (1..n) /\ 1 \in Nat \ {0} /\ 0 \in 0..n
    BY SMTT(40)
  <2>2. EmptySnapshot = [iId |-> 1, lvl |-> <<>>, free |-> <<>>, nBlock |-> 0]
    BY DEF EmptySnapshot, FirstId
  <2> QED
    BY <1>1, <2>1, <2>2, SnapshotParts
<1>3. OneBlock \in SnapshotsOf(n)
  <2>1. {1} \in SUBSET (1..n) /\ {} \in SUBSET (1..n) /\ 2 \in Nat \ {0} /\ 1 \in 0..n
    BY SMTT(40)
  <2>2. OneBlock = [iId |-> 2, lvl |-> <<2>>, free |-> <<>>, nBlock |-> 1]
    BY SMTT(40) DEF OneBlock, FirstId
  <2> QED
    BY <1>1, <2>1, <2>2, SnapshotParts
<1> QED
  BY SMTT(40), <1>2, <1>3 DEF EmptySnapshot, OneBlock, FirstId

-----------------------------------------------------------------------------
(* The types of the variables, and where each party is in its protocol.      *)

Snapshots == SnapshotsOf(fleet.maxBlock)
OptSnapshots == Snapshots \cup {None}
TornCopies == [torn : Nat \ {0}]

Searching == {"exact", "lockexact", "grab", "usable", "lockusable", "verify"}
ReaderStates ==
  [pc : {"idle", "load2", "open"} \cup Searching, snap : OptSnapshots,
   copy : 0..2, i : Nat, iReader : 0..NREADER, client : OptSnapshots,
   worked : BOOLEAN]

Working == {"work", "synced", "scan", "scanlock", "finish"}
WorkerStates ==
  [pc : {"idle", "save2", "barrier", "save1"} \cup Working, p : OptSnapshots,
   iBefore : Nat, iMeta : 0..2, iInUse : Nat, iThis : Nat, i : Nat,
   dirty : BOOLEAN]

CkptStates ==
  [pc : {"idle", "load1", "load2", "sync", "store", "syncmeta", "finish"},
   snap : OptSnapshots, iMeta : 0..2]

ShmType ==
  /\ aSnap1 \in Snapshots \cup TornCopies
  /\ aSnap2 \in Snapshots \cup TornCopies
  /\ iMetaPage \in 0..2
FileType ==
  /\ meta \in [1..2 -> OptSnapshots] /\ metaDirty \in SUBSET (1..2)
  /\ disk \in [Blocks -> Nat]
SlotType == aReader \in [Slots -> Nat] /\ lock \in [Slots -> SUBSET Conns]
ReaderType == rd \in [Readers -> ReaderStates]
WorkerType == worker \in Conns \cup {NoConn} /\ wk \in WorkerStates
CkptType == ckptr \in Conns \cup {NoConn} /\ ck \in CkptStates
LapseType == lapse \in {None, "early", "recovery"}

TypeOK ==
  /\ fleet \in Fleets
  /\ ShmType /\ FileType /\ SlotType /\ ReaderType /\ WorkerType /\ CkptType
  /\ LapseType

(* The snapshot that the next worker starts from.                            *)
Current == IF ChecksumOk(aSnap1) THEN aSnap1 ELSE aSnap2

(* How the two copies of the published snapshot and the worker go together:  *)
(* they are the same but for a worker that is publishing, or died doing so.  *)
CopiesInOrder ==
  /\ ChecksumOk(aSnap1) \/ ChecksumOk(aSnap2)
  /\ ~ChecksumOk(aSnap1) => aSnap1.torn = aSnap2.iId
  /\ ChecksumOk(aSnap1) /\ ~ChecksumOk(aSnap2) => aSnap2.torn = aSnap1.iId + 1
  /\ ChecksumOk(aSnap1) /\ ChecksumOk(aSnap2) =>
       aSnap1 = aSnap2 \/ aSnap2.iId = aSnap1.iId + 1
  /\ worker = NoConn <=> wk.pc = "idle"
  /\ wk.pc # "idle" => wk.p \in Snapshots
  /\ wk.pc \in Working =>
       ChecksumOk(aSnap1) /\ aSnap1 = aSnap2 /\ wk.p.iId = aSnap1.iId
  /\ wk.pc = "finish" => wk.p = aSnap1
  /\ wk.pc = "save2" =>
       ChecksumOk(aSnap1) /\ ~ChecksumOk(aSnap2) /\ wk.p.iId = aSnap1.iId + 1
  /\ wk.pc = "barrier" =>
       ChecksumOk(aSnap1) /\ aSnap2 = wk.p /\ wk.p.iId = aSnap1.iId + 1
  /\ wk.pc = "save1" => ~ChecksumOk(aSnap1) /\ aSnap2 = wk.p
  /\ wk.pc \in {"synced", "scan", "scanlock"} /\ wk.iBefore # 0 =>
       wk.iBefore \in DOMAIN wk.p.lvl
  /\ wk.pc = "scan" => wk.i # 0
  /\ wk.pc = "scanlock" => wk.i \in Slots

(* A reader that looks for a slot has loaded a snapshot; one that has a      *)
(* transaction has a client snapshot; one that works has a transaction.      *)
ReadersInOrder ==
  /\ worker \in Readers => rd[worker].pc = "open" /\ rd[worker].worked
  /\ \A c \in Readers :
       /\ rd[c].pc \in Searching => rd[c].snap \in Snapshots /\ rd[c].copy \in 1..2
       /\ rd[c].pc = "open" => rd[c].client \in Snapshots
       /\ rd[c].pc \in {"exact", "usable"} => rd[c].i # 0
       /\ rd[c].pc \in {"lockexact", "lockusable"} => rd[c].i \in Slots

(* The meta page in use is whole and durable, and the checkpointer writes    *)
(* the other one.                                                            *)
MetaInOrder ==
  /\ iMetaPage # 0 => meta[iMetaPage] # None /\ iMetaPage \notin metaDirty
  /\ ckptr = NoConn <=> ck.pc = "idle"
  /\ ck.pc \in {"sync", "store", "syncmeta", "finish"} =>
       ck.iMeta = (iMetaPage % 2) + 1 /\ ck.snap \in Snapshots
  /\ ck.pc \in {"syncmeta", "finish"} => meta[ck.iMeta] = ck.snap
  /\ ck.pc = "finish" => ck.iMeta \notin metaDirty

Control == TypeOK /\ CopiesInOrder /\ ReadersInOrder /\ MetaInOrder

(* Every fleet's file has a number of blocks, and None is no snapshot of it. *)
LEMMA FleetFacts ==
  ASSUME fleet \in Fleets
  PROVE  /\ fleet.maxBlock \in Nat \ {0} /\ fleet.conns \subseteq Conns
         /\ fleet.iMetaPage \in {0, 1}
         /\ None \notin Snapshots
BY LsmAssumption DEF Snapshots

(* A copy can be loaded if and only if it is a snapshot.                     *)
LEMMA CopyWhole ==
  ASSUME fleet \in Fleets
  PROVE  /\ \A x \in Snapshots \cup TornCopies :
              /\ ChecksumOk(x) <=> x \in Snapshots
              /\ ~ChecksumOk(x) => x.torn \in Nat \ {0}
         /\ \A n \in Nat \ {0} :
              Torn(n) \in TornCopies /\ ~ChecksumOk(Torn(n)) /\ Torn(n).torn = n
<1>1. \A x \in Snapshots : ChecksumOk(x)
  BY FleetFacts, SnapshotFields DEF Snapshots
<1>2. \A x \in TornCopies : ~ChecksumOk(x) /\ x.torn \in Nat \ {0}
  BY DEF TornCopies, ChecksumOk
<1>3. \A n \in Nat \ {0} : Torn(n) \in TornCopies /\ Torn(n).torn = n
  BY DEF TornCopies, Torn
<1> QED
  BY <1>1, <1>2, <1>3

(* The fields of a snapshot of this behaviour's file.                        *)
LEMMA OwnSnapshot ==
  ASSUME fleet \in Fleets, NEW s \in Snapshots
  PROVE  /\ s.iId \in Nat \ {0} /\ s.nBlock \in 0..fleet.maxBlock
         /\ DOMAIN s.lvl \subseteq Blocks /\ s.lvl \in [DOMAIN s.lvl -> Nat]
         /\ DOMAIN s.free \subseteq Blocks /\ s.free \in [DOMAIN s.free -> Nat]
         /\ ChecksumOk(s) /\ s # None
<1>1. fleet.maxBlock \in Nat /\ s \in SnapshotsOf(fleet.maxBlock) /\ s # None
  BY FleetFacts DEF Snapshots
<1> QED
  BY <1>1, SnapshotFields DEF Blocks

(* The first state.                                                          *)
LEMMA InitControl ==
  ASSUME Init
  PROVE  Control
<1>1. fleet \in Fleets /\ OneBlock \in Snapshots /\ OneBlock.iId = 2
  BY FleetFacts, FirstSnapshots DEF Init, Snapshots
<1>2. ChecksumOk(OneBlock) /\ OneBlock # None
  BY <1>1, OwnSnapshot
<1>3. ShmType
  BY SMTT(40), <1>1, FleetFacts DEF Init, ShmType
<1>4. FileType
  BY SMTT(40), <1>1, FleetFacts DEF Init, FileType, Blocks, OptSnapshots
<1>5. SlotType
  BY SMTT(40), <1>1 DEF Init, SlotType
<1>6. ReaderType
  BY SMTT(40), LsmAssumption DEF Init, ReaderType, ReaderStates, IdleReader, OptSnapshots
<1>7. WorkerType /\ CkptType /\ LapseType
  BY SMTT(40) DEF Init, WorkerType, WorkerStates, IdleWorker, OptSnapshots, CkptType,
         CkptStates, IdleCkpt, LapseType
<1>8. CopiesInOrder
  BY <1>1, <1>2 DEF Init, CopiesInOrder, IdleWorker, Working
<1>9. ReadersInOrder
  BY LsmAssumption DEF Init, ReadersInOrder, IdleReader, Searching, Conns
<1>10. MetaInOrder
  BY SMTT(40), <1>1, <1>2, FleetFacts DEF Init, MetaInOrder, IdleCkpt
<1> QED
  BY <1>1, <1>3, <1>4, <1>5, <1>6, <1>7, <1>8, <1>9, <1>10 DEF Control, TypeOK

-----------------------------------------------------------------------------
(* Steps of a reader.                                                        *)

ReaderStep(c) ==
  \/ UseCached(c) \/ LoadSnap1(c) \/ LoadSnap2(c)
  \/ LookExact(c) \/ LockExact(c) \/ GrabSlot(c)
  \/ LookUsable(c) \/ LockUsable(c) \/ VerifySnapshot(c)
  \/ FinishReadTrans(c)

(* A reader r is in order by itself.                                         *)
ReaderFine(r) ==
  /\ r.pc \in Searching => r.snap \in Snapshots /\ r.copy \in 1..2
  /\ r.pc = "open" => r.client \in Snapshots
  /\ r.pc \in {"exact", "usable"} => r.i # 0
  /\ r.pc \in {"lockexact", "lockusable"} => r.i \in Slots

(* The slots a search finds are slots, and so is the first of them.          *)
LEMMA SlotsFound ==
  ASSUME Control, NEW c \in Readers, rd[c].i # 0
  PROVE  /\ ExactMatch(c) # {} => Min(ExactMatch(c)) \in Slots
         /\ UsableSlots(c) # {} => Min(UsableSlots(c)) \in Slots
<1>1. rd[c].i \in Nat /\ NREADER \in Nat
  BY LsmAssumption DEF Control, TypeOK, ReaderType, ReaderStates
<1>2. ExactMatch(c) \subseteq Slots /\ UsableSlots(c) \subseteq Slots /\ Slots \subseteq Nat
  BY SMTT(40), <1>1 DEF ExactMatch, UsableSlots, Slots
<1> QED
  BY <1>2, LeastMember

(* What a step of reader c makes of its own state: it stays in order, and    *)
(* what it loads is one of the copies, or what it had cached.  But for the   *)
(* early load, it is the snapshot the next worker would start from.          *)
LEMMA ReaderOwnStep ==
  ASSUME Control, NEW c \in Readers, ReaderStep(c)
  PROVE  \E r \in ReaderStates :
           /\ rd' = [rd EXCEPT ![c] = r]
           /\ ReaderFine(r)
           /\ \/ r.snap \in {rd[c].snap, rd[c].client, None}
              \/ r.snap \in Published /\ (lapse' = None => r.snap = Current)
           /\ r.client \in {rd[c].snap, rd[c].client, None}
<1>0. /\ rd \in [Readers -> ReaderStates] /\ rd[c] \in ReaderStates
      /\ ReaderFine(rd[c])
  BY DEF Control, TypeOK, ReaderType, ReadersInOrder, ReaderFine
<1>1. /\ ChecksumOk(aSnap1) => aSnap1 \in Snapshots
      /\ ChecksumOk(aSnap2) => aSnap2 \in Snapshots
  BY CopyWhole DEF Control, TypeOK, ShmType
<1> DEFINE Good(r) ==
      /\ r \in ReaderStates
      /\ ReaderFine(r)
      /\ \/ r.snap \in {rd[c].snap, rd[c].client, None}
         \/ r.snap \in Published /\ (lapse' = None => r.snap = Current)
      /\ r.client \in {rd[c].snap, rd[c].client, None}
<1>2. SUFFICES \E r : rd' = [rd EXCEPT ![c] = r] /\ Good(r)
  OBVIOUS
<1>3. CASE UseCached(c)
  <2> DEFINE r == [rd[c] EXCEPT !.snap = rd[c].client, !.copy = 1, !.i = 1, !.pc = "exact"]
  <2>1. rd' = [rd EXCEPT ![c] = r]
    BY <1>0, <1>3 DEF UseCached
  <2>2. Good(r)
    BY SMTT(40), <1>0, <1>3 DEF UseCached, ReaderStates, ReaderFine, Searching, OptSnapshots
  <2> QED
    BY <2>1, <2>2
<1>4. CASE LoadSnap1(c)
  <2> DEFINE r == IF ChecksumOk(aSnap1)
                  THEN [rd[c] EXCEPT !.snap = aSnap1, !.copy = 1, !.i = 1,
                                     !.client = None, !.pc = "exact"]
                  ELSE [rd[c] EXCEPT !.client = None, !.pc = "load2"]
  <2>1. rd' = [rd EXCEPT ![c] = r]
    BY <1>0, <1>4 DEF LoadSnap1
  <2>2. Good(r)
    BY SMTT(40), <1>0, <1>1, <1>4
    DEF LoadSnap1, ReaderStates, ReaderFine, Searching, OptSnapshots, Published, Current
  <2> QED
    BY <2>1, <2>2
<1>5. CASE LoadSnap2(c)
  <2> DEFINE r == IF ChecksumOk(aSnap2)
                  THEN [rd[c] EXCEPT !.snap = aSnap2, !.copy = 2, !.i = 1, !.pc = "exact"]
                  ELSE [rd[c] EXCEPT !.pc = "idle"]
  <2>1. rd' = [rd EXCEPT ![c] = r]
    BY <1>0, <1>5 DEF LoadSnap2
  <2>2. ChecksumOk(aSnap2) /\ lapse' = None => aSnap2 = Current
    BY <1>5, LsmAssumption DEF LoadSnap2, LoadsEarly, Current
  <2>3. Good(r)
    BY SMTT(40), <1>0, <1>1, <1>5, <2>2
    DEF LoadSnap2, ReaderStates, ReaderFine, Searching, OptSnapshots, Published
  <2> QED
    BY <2>1, <2>3
<1>6. CASE LookExact(c)
  <2> DEFINE m == Min(ExactMatch(c))
             e == ExactMatch(c) = {}
             r == [rd[c] EXCEPT !.pc = IF e THEN "grab" ELSE "lockexact",
                                !.i = IF e THEN 1 ELSE m]
  <2>1. rd' = [rd EXCEPT ![c] = r]
    BY <1>0, <1>6 DEF LookExact
  <2>2. ~e => m \in Slots /\ m \in Nat
    BY SMTT(40), <1>0, <1>6, SlotsFound DEF LookExact, ReaderFine, Slots
  <2> HIDE DEF m, e
  <2>3. Good(r)
    BY <1>0, <1>6, <2>2 DEF LookExact, ReaderStates, ReaderFine, Searching
  <2> QED
    BY <2>1, <2>3
<1>7. CASE LockExact(c)
  <2> DEFINE r == IF aReader[rd[c].i] = rd[c].snap.iId
                  THEN [rd[c] EXCEPT !.pc = "verify", !.iReader = rd[c].i]
                  ELSE [rd[c] EXCEPT !.pc = "exact", !.i = rd[c].i + 1]
  <2>1. rd' = [rd EXCEPT ![c] = r]
    BY <1>0, <1>7 DEF LockExact
  <2>2. rd[c].i \in 0..NREADER /\ rd[c].i + 1 \in Nat \ {0}
    BY SMTT(40), <1>0, <1>7, LsmAssumption DEF LockExact, ReaderFine, Slots
  <2>3. Good(r)
    BY <1>0, <1>7, <2>2 DEF LockExact, ReaderStates, ReaderFine, Searching
  <2> QED
    BY <2>1, <2>3
<1>8. CASE GrabSlot(c)
  <2> DEFINE u == {i \in Slots : CanLock(c, i)}
             m == Min(u)
             x == [rd[c] EXCEPT !.pc = "usable", !.i = 1]
             y == [rd[c] EXCEPT !.pc = "verify", !.iReader = m]
  <2>1. u = {} => rd' = [rd EXCEPT ![c] = x]
    BY <1>0, <1>8 DEF GrabSlot
  <2>2. u # {} => rd' = [rd EXCEPT ![c] = y]
    BY <1>0, <1>8 DEF GrabSlot
  <2>3. u # {} => m \in 0..NREADER
    BY SMTT(40), LeastMember, LsmAssumption DEF Slots
  <2> HIDE DEF u, m
  <2>4. rd[c].pc = "grab"
    BY <1>8 DEF GrabSlot
  <2>5. Good(x)
    <3>1. x \in ReaderStates
      BY <1>0 DEF ReaderStates, Searching
    <3>2. /\ x.pc = "usable" /\ x.i = 1 /\ x.snap = rd[c].snap /\ x.copy = rd[c].copy
          /\ x.client = rd[c].client
      BY <1>0 DEF ReaderStates
    <3> HIDE DEF x
    <3> QED
      BY SMTT(40), <1>0, <2>4, <3>1, <3>2 DEF ReaderFine, Searching
  <2>6. u # {} => Good(y)
    BY <1>0, <2>3, <2>4 DEF ReaderStates, ReaderFine, Searching
  <2> QED
    BY <2>1, <2>2, <2>5, <2>6
<1>9. CASE LookUsable(c)
  <2> DEFINE m == Min(UsableSlots(c))
             e == UsableSlots(c) = {}
             x == [rd[c] EXCEPT !.pc = "idle", !.i = 0, !.snap = None, !.copy = 0]
             y == [rd[c] EXCEPT !.pc = "lockusable", !.i = m]
  <2>1. e => rd' = [rd EXCEPT ![c] = x]
    BY <1>0, <1>9 DEF LookUsable
  <2>2. ~e => rd' = [rd EXCEPT ![c] = y]
    BY <1>0, <1>9 DEF LookUsable, ReaderStates
  <2>3. ~e => m \in Slots /\ m \in Nat
    BY SMTT(40), <1>0, <1>9, SlotsFound DEF LookUsable, ReaderFine, Slots
  <2> HIDE DEF m, e
  <2>4. rd[c].pc = "usable"
    BY <1>9 DEF LookUsable
  <2>5. Good(x)
    <3>0. None \in OptSnapshots /\ 0 \in 0..2
      BY SMTT(40) DEF OptSnapshots
    <3>1. x \in ReaderStates
      BY <1>0, <3>0 DEF ReaderStates
    <3>2. x.pc = "idle" /\ x.snap = None /\ x.client = rd[c].client
      BY <1>0 DEF ReaderStates
    <3> HIDE DEF x
    <3> QED
      BY <1>0, <3>1, <3>2 DEF ReaderFine, Searching
  <2>6. ~e => Good(y)
    BY <1>0, <2>3, <2>4 DEF ReaderStates, ReaderFine, Searching
  <2> QED
    BY <2>1, <2>2, <2>5, <2>6
<1>10. CASE LockUsable(c)
  <2> DEFINE r == IF aReader[rd[c].i] \in 1..rd[c].snap.iId
                  THEN [rd[c] EXCEPT !.pc = "verify", !.iReader = rd[c].i]
                  ELSE [rd[c] EXCEPT !.pc = "usable", !.i = rd[c].i + 1]
  <2>1. rd' = [rd EXCEPT ![c] = r]
    BY <1>0, <1>10 DEF LockUsable
  <2>2. rd[c].i \in 0..NREADER /\ rd[c].i + 1 \in Nat \ {0}
    BY SMTT(40), <1>0, <1>10, LsmAssumption DEF LockUsable, ReaderFine, Slots
  <2>3. Good(r)
    BY <1>0, <1>10, <2>2 DEF LockUsable, ReaderStates, ReaderFine, Searching
  <2> QED
    BY <2>1, <2>3
<1>11. CASE VerifySnapshot(c)
  <2> DEFINE a == [rd[c] EXCEPT !.pc = "open", !.client = rd[c].snap,
                                !.snap = None, !.copy = 0, !.i = 0]
             b == [rd[c] EXCEPT !.pc = "idle", !.iReader = 0,
                                !.snap = None, !.copy = 0, !.i = 0]
  <2>1. rd' = [rd EXCEPT ![c] = a] \/ rd' = [rd EXCEPT ![c] = b]
    BY <1>0, <1>11 DEF VerifySnapshot
  <2>2. Good(a)
    BY SMTT(40), <1>0, <1>11
    DEF VerifySnapshot, ReaderStates, ReaderFine, Searching, OptSnapshots
  <2>3. Good(b)
    BY SMTT(40), <1>0, <1>11, LsmAssumption
    DEF VerifySnapshot, ReaderStates, ReaderFine, Searching, OptSnapshots
  <2> QED
    BY <2>1, <2>2, <2>3
<1>12. CASE FinishReadTrans(c)
  <2> DEFINE r == [rd[c] EXCEPT !.pc = "idle", !.iReader = 0, !.worked = FALSE]
  <2>1. rd' = [rd EXCEPT ![c] = r]
    BY <1>0, <1>12 DEF FinishReadTrans
  <2>2. Good(r)
    <3>1. rd[c].pc = "open" /\ 0 \in 0..NREADER
      BY SMTT(40), <1>12, LsmAssumption DEF FinishReadTrans
    <3> QED
      BY <1>0, <3>1 DEF ReaderStates, ReaderFine, Searching
  <2> QED
    BY <2>1, <2>2
<1> QED
  BY <1>3, <1>4, <1>5, <1>6, <1>7, <1>8, <1>9, <1>10, <1>11, <1>12 DEF ReaderStep

(* A slot that somebody else than c has locked stays as it is.               *)
OthersKeep(c) ==
  \A i \in Slots : \A d : d # c /\ d \in lock[i] =>
    d \in lock'[i] /\ aReader'[i] = aReader[i]

(* What a step of a reader leaves alone.                                     *)
LEMMA ReaderFrame ==
  ASSUME Control, NEW c \in Readers, ReaderStep(c)
  PROVE  /\ UNCHANGED <<aSnap1, aSnap2, iMetaPage, meta, metaDirty, disk, diskDirty>>
         /\ UNCHANGED <<worker, wk, ckptr, ck, fleet>>
         /\ worker # c
         /\ lapse' = lapse \/ lapse' = "early"
<1>1. /\ UNCHANGED <<aSnap1, aSnap2, iMetaPage, meta, metaDirty, disk, diskDirty>>
      /\ UNCHANGED <<worker, wk, ckptr, ck, fleet>>
      /\ lapse' = lapse \/ lapse' = "early"
  BY DEF ReaderStep, UseCached, LoadSnap1, LoadSnap2, LookExact, LockExact, GrabSlot,
     LookUsable, LockUsable, VerifySnapshot, FinishReadTrans, shm, file
<1>2. rd[c].pc # "open" \/ worker # c
  BY DEF ReaderStep, UseCached, LoadSnap1, LoadSnap2, LookExact, LockExact, GrabSlot,
     LookUsable, LockUsable, VerifySnapshot, FinishReadTrans
<1> QED
  BY <1>1, <1>2 DEF Control, ReadersInOrder

(* A reader takes a slot only if no other connection has locked it.          *)
LEMMA ReaderSlots ==
  ASSUME Control, NEW c \in Readers, ReaderStep(c)
  PROVE  SlotType' /\ OthersKeep(c)
<1>1. /\ aReader \in [Slots -> Nat] /\ lock \in [Slots -> SUBSET Conns] /\ c \in Conns
      /\ rd[c] \in ReaderStates /\ ReaderFine(rd[c])
      /\ fleet \in Fleets
  BY DEF Control, TypeOK, SlotType, Conns, ReaderType, ReaderFine, ReadersInOrder
<1>2. CASE UNCHANGED <<aReader, lock>>
  BY <1>1, <1>2 DEF SlotType, OthersKeep
<1>3. CASE LockExact(c) \/ LockUsable(c)
  <2>1. lock' = [lock EXCEPT ![rd[c].i] = @ \cup {c}] /\ aReader' = aReader
    BY <1>3 DEF LockExact, LockUsable
  <2> QED
    BY <1>1, <2>1 DEF SlotType, OthersKeep
<1>4. CASE GrabSlot(c)
  <2> DEFINE u == {i \in Slots : CanLock(c, i)}
             m == Min(u)
  <2>1. CASE u = {}
    BY <1>2, <1>4, <2>1 DEF GrabSlot, slots
  <2>2. CASE u # {}
    <3>1. /\ aReader' = [aReader EXCEPT ![m] = rd[c].snap.iId]
          /\ lock' = [lock EXCEPT ![m] = {c}]
      BY <1>4, <2>2 DEF GrabSlot
    <3>2. m \in Slots /\ lock[m] \subseteq {c}
      <4>1. u \in SUBSET Nat
        BY SMTT(40), LsmAssumption DEF Slots
      <4>2. m \in u
        BY <2>2, <4>1, LeastMember
      <4> QED
        BY <4>2 DEF CanLock
    <3>3. rd[c].snap.iId \in Nat
      BY <1>1, <1>4, OwnSnapshot DEF GrabSlot, ReaderFine, Searching
    <3> HIDE DEF m, u
    <3> QED
      BY <1>1, <3>1, <3>2, <3>3 DEF SlotType, OthersKeep
  <2> QED
    BY <2>1, <2>2
<1>5. CASE VerifySnapshot(c) \/ FinishReadTrans(c)
  <2>1. /\ lock' = lock \/ lock' = [lock EXCEPT ![rd[c].iReader] = @ \ {c}]
        /\ aReader' = aReader
    BY <1>5 DEF VerifySnapshot, FinishReadTrans
  <2> QED
    BY <1>1, <2>1 DEF SlotType, OthersKeep
<1> QED
  BY <1>2, <1>3, <1>4, <1>5
  DEF ReaderStep, UseCached, LoadSnap1, LoadSnap2, LookExact, LookUsable, slots

(* A step of a reader keeps every party in order.                            *)
LEMMA ReaderControl ==
  ASSUME Control, NEW c \in Readers, ReaderStep(c)
  PROVE  Control'
<1>1. PICK r \in ReaderStates : rd' = [rd EXCEPT ![c] = r] /\ ReaderFine(r)
  BY ReaderOwnStep
<1>2. /\ UNCHANGED <<aSnap1, aSnap2, iMetaPage, meta, metaDirty, disk, diskDirty>>
      /\ UNCHANGED <<worker, wk, ckptr, ck, fleet>>
      /\ worker # c
      /\ lapse' = lapse \/ lapse' = "early"
  BY ReaderFrame
<1>3. Snapshots' = Snapshots /\ OptSnapshots' = OptSnapshots /\ Blocks' = Blocks
  BY <1>2 DEF Snapshots, OptSnapshots, Blocks
<1>4. ReaderStates' = ReaderStates /\ WorkerStates' = WorkerStates /\ CkptStates' = CkptStates
  BY <1>3 DEF ReaderStates, WorkerStates, CkptStates
<1>5. TypeOK'
  <2>1. ShmType' /\ FileType' /\ WorkerType' /\ CkptType' /\ LapseType' /\ (fleet \in Fleets)'
    BY <1>2, <1>3, <1>4
    DEF Control, TypeOK, ShmType, FileType, WorkerType, CkptType, LapseType
  <2>2. ReaderType'
    BY <1>1, <1>4 DEF Control, TypeOK, ReaderType
  <2> QED
    BY <2>1, <2>2, ReaderSlots DEF TypeOK
<1>6. CopiesInOrder'
  BY <1>2, <1>3 DEF Control, CopiesInOrder
<1>7. MetaInOrder'
  BY <1>2, <1>3 DEF Control, MetaInOrder
<1>8. ReadersInOrder'
  <2>1. \A d \in Readers : rd'[d] = IF d = c THEN r ELSE rd[d]
    BY <1>1 DEF Control, TypeOK, ReaderType
  <2>2. \A d \in Readers : ReaderFine(rd[d])
    BY DEF Control, ReadersInOrder, ReaderFine
  <2>3. \A d \in Readers : ReaderFine(rd'[d])
    BY <1>1, <2>1, <2>2
  <2> QED
    BY <1>2, <1>3, <2>1, <2>3 DEF Control, ReadersInOrder, ReaderFine
<1> QED
  BY <1>5, <1>6, <1>7, <1>8 DEF Control

-----------------------------------------------------------------------------
(* Steps of a worker.                                                        *)

WorkerStep(c) ==
  \/ BeginWork(c) \/ AllocateBlock(c) \/ ReadSynced(c) \/ ScanSlot(c)
  \/ ScanLock(c) \/ WriteBlock(c) \/ MoveBlock(c) \/ FreeBlock(c)
  \/ SaveWorker(c) \/ SavedSnap2(c) \/ SaveSnap1(c) \/ SavedSnap1(c)
  \/ FinishWork(c) \/ AbandonWork(c)

(* What a step of a worker leaves alone.                                     *)
LEMMA WorkerFrame ==
  ASSUME NEW c, WorkerStep(c)
  PROVE  /\ UNCHANGED <<iMetaPage, meta, metaDirty, ckptr, ck, fleet, lapse>>
         /\ BeginWork(c) \/ worker = c
BY DEF WorkerStep, BeginWork, AllocateBlock, ReadSynced, ScanSlot, ScanLock, WriteBlock,
   MoveBlock, FreeBlock, SaveWorker, SavedSnap2, SaveSnap1, SavedSnap1, FinishWork,
   AbandonWork, Scanned, shm, file

(* The free blocks that may be recycled are blocks, and so is the first.     *)
LEMMA RecyclableBlocks ==
  ASSUME Control, wk.pc # "idle"
  PROVE  /\ Recyclable \subseteq Blocks
         /\ Recyclable # {} => Min(Recyclable) \in Recyclable
<1>1. DOMAIN wk.p.free \subseteq Blocks /\ Blocks \subseteq Nat
  BY SMTT(40), OwnSnapshot, FleetFacts DEF Control, TypeOK, CopiesInOrder, Blocks
<1>2. Recyclable \subseteq Blocks /\ Recyclable \in SUBSET Nat
  BY <1>1 DEF Recyclable
<1> QED
  BY <1>2, LeastMember

(* The oldest snapshot in use as far as ReadSynced() knows.                  *)
LEMMA SyncedFacts ==
  ASSUME Control, NEW c \in Conns, ReadSynced(c)
  PROVE  \E n \in Nat :
           /\ wk' = [wk EXCEPT !.pc = "scan", !.i = 1, !.iInUse = n]
           /\ n <= IF CheckpointSynced = 0 THEN wk.p.iId ELSE CheckpointSynced
           /\ CheckpointSynced \in Nat
<1>0. fleet \in Fleets
  BY DEF Control, TypeOK
<1>1. wk.p \in Snapshots /\ wk.p.iId \in Nat
  BY <1>0, OwnSnapshot DEF ReadSynced, Control, CopiesInOrder
<1>2. CheckpointSynced \in Nat
  <2>1. CASE wk.iMeta # 0 /\ meta[wk.iMeta] # None
    <3>1. wk.iMeta \in 1..2
      BY SMTT(40), <2>1 DEF Control, TypeOK, WorkerType, WorkerStates
    <3>2. meta[wk.iMeta] \in Snapshots
      BY <2>1, <3>1 DEF Control, TypeOK, FileType, OptSnapshots
    <3> QED
      BY <1>0, <3>2, OwnSnapshot DEF CheckpointSynced
  <2> QED
    BY <2>1 DEF CheckpointSynced
<1> DEFINE i == IF CheckpointSynced = 0 THEN wk.p.iId ELSE CheckpointSynced
           S == {i} \cup OwnClient(c)
<1>3. i \in Nat
  BY <1>1, <1>2
<1>4. OwnClient(c) \in SUBSET Nat
  <2>1. CASE InReadTrans(c)
    <3>1. rd[c].client \in Snapshots
      BY <2>1 DEF InReadTrans, Control, ReadersInOrder
    <3> QED
      BY <1>0, <2>1, <3>1, OwnSnapshot DEF OwnClient
  <2> QED
    BY <2>1 DEF OwnClient
<1>5. wk' = [wk EXCEPT !.pc = "scan", !.i = 1, !.iInUse = Min(S)]
  BY DEF ReadSynced
<1> HIDE DEF i
<1>6. S \in SUBSET Nat /\ S # {} /\ i \in S
  BY <1>3, <1>4
<1> HIDE DEF S
<1>7. Min(S) \in Nat /\ Min(S) <= i
  BY <1>6, LeastMember
<1> QED
  BY <1>2, <1>5, <1>7 DEF i

(* A step of a worker keeps the copies and the worker snapshot in order.     *)
LEMMA WorkerCopies ==
  ASSUME Control, NEW c \in Readers \cup Workers, WorkerStep(c)
  PROVE  (ShmType /\ WorkerType /\ CopiesInOrder)'
<1>0. fleet \in Fleets /\ c \in Conns /\ c # NoConn
  BY LsmAssumption DEF Control, TypeOK, Conns
<1>1. ShmType /\ WorkerType /\ CopiesInOrder
  BY DEF Control, TypeOK
<1>2. Snapshots' = Snapshots /\ WorkerStates' = WorkerStates /\ iMetaPage' = iMetaPage
  BY WorkerFrame DEF Snapshots, WorkerStates, OptSnapshots
<1>3. /\ \A x \in Snapshots \cup TornCopies :
              /\ ChecksumOk(x) <=> x \in Snapshots
              /\ ~ChecksumOk(x) => x.torn \in Nat \ {0}
      /\ \A n \in Nat \ {0} :
              Torn(n) \in TornCopies /\ ~ChecksumOk(Torn(n)) /\ Torn(n).torn = n
      /\ \A s \in Snapshots : s.iId \in Nat \ {0}
  BY <1>0, CopyWhole, OwnSnapshot
<1>4. \A p \in Snapshots : \A b \in Blocks :
        /\ WithBlock(p, b) \in Snapshots /\ WithBlock(p, b).iId = p.iId
        /\ WithoutBlock(p, b) \in Snapshots /\ WithoutBlock(p, b).iId = p.iId
  BY SMTT(40), <1>0, FleetFacts, WithBlockFields, WithoutBlockFields DEF Snapshots, Blocks
<1>5. \A p \in Snapshots : DOMAIN p.lvl \subseteq Blocks
  BY <1>0, OwnSnapshot
<1>6. \A p \in OptSnapshots : \A pc \in {"idle"} \cup Working : \A x \in BOOLEAN :
        [pc |-> pc, p |-> p, iBefore |-> 0, iMeta |-> 0, iInUse |-> 0,
         iThis |-> 0, i |-> 0, dirty |-> x] \in WorkerStates
  BY SMTT(40) DEF WorkerStates
<1>7. CASE BeginWork(c)
  <2> DEFINE p == IF ChecksumOk(aSnap1) THEN aSnap1 ELSE aSnap2
  <2>1. p \in Snapshots
    BY <1>1, <1>3 DEF ShmType, CopiesInOrder
  <2>2. worker' = c /\ aSnap1' = p /\ aSnap2' = p /\ wk' = [IdleWorker EXCEPT !.pc = "work", !.p = p]
    BY <1>7 DEF BeginWork
  <2> HIDE DEF p
  <2>3. wk' \in WorkerStates /\ wk'.pc = "work" /\ wk'.p = p
    BY <1>6, <2>1, <2>2 DEF IdleWorker, OptSnapshots, Working
  <2> QED
    BY SMTT(40), <1>0, <1>1, <1>2, <1>3, <2>1, <2>2, <2>3
    DEF ShmType, WorkerType, CopiesInOrder, Working
<1>8. CASE AllocateBlock(c)
  <2>1. PICK iBefore \in {0} \cup LastBlock(wk.p) :
          wk' = [wk EXCEPT !.pc = "synced", !.iMeta = iMetaPage, !.iBefore = iBefore]
    BY <1>8 DEF AllocateBlock
  <2>2. worker = c /\ wk.pc = "work" /\ UNCHANGED <<aSnap1, aSnap2, worker>>
    BY <1>8 DEF AllocateBlock, shm
  <2>3. wk.p \in Snapshots
    BY <1>1, <2>2 DEF CopiesInOrder
  <2>4. iBefore \in Nat /\ (iBefore # 0 => iBefore \in DOMAIN wk.p.lvl)
    BY SMTT(40), <1>5, <2>3, FleetFacts, <1>0 DEF LastBlock, Blocks
  <2>5. wk' \in WorkerStates /\ wk'.pc = "synced" /\ wk'.p = wk.p /\ wk'.iBefore = iBefore
    BY <1>1, <2>1, <2>4 DEF WorkerType, WorkerStates, ShmType, Working
  <2> QED
    BY <1>1, <1>2, <1>3, <2>2, <2>3, <2>4, <2>5
    DEF ShmType, WorkerType, CopiesInOrder, Working
<1>9. CASE ReadSynced(c) \/ ScanSlot(c) \/ ScanLock(c)
  <2>1. /\ worker = c /\ wk.pc \in {"synced", "scan", "scanlock"}
        /\ UNCHANGED <<aSnap1, aSnap2, worker>>
    BY <1>9 DEF ReadSynced, ScanSlot, ScanLock, shm
  <2>2. /\ wk' \in WorkerStates /\ wk'.pc \in {"scan", "scanlock"}
        /\ wk'.p = wk.p /\ wk'.iBefore = wk.iBefore
        /\ wk'.i # 0 /\ (wk'.pc = "scanlock" => wk'.i \in Slots)
    <3>1. CASE ReadSynced(c)
      <4>1. PICK n \in Nat : wk' = [wk EXCEPT !.pc = "scan", !.i = 1, !.iInUse = n]
        BY <1>0, <3>1, SyncedFacts
      <4>2. wk \in WorkerStates
        BY <1>1 DEF WorkerType
      <4>3. wk' \in WorkerStates
        BY <4>1, <4>2 DEF WorkerStates, Working
      <4>4. wk'.pc = "scan" /\ wk'.p = wk.p /\ wk'.iBefore = wk.iBefore /\ wk'.i = 1
        BY <4>1, <4>2 DEF WorkerStates
      <4> QED
        BY SMTT(40), <4>3, <4>4
    <3>2. CASE ScanSlot(c)
      <4>1. wk.i \in Slots /\ wk.i \in Nat
        BY SMTT(40), <1>1, <3>2, LsmAssumption
        DEF ScanSlot, WorkerType, WorkerStates, CopiesInOrder, Slots
      <4>2. aReader[wk.i] \in Nat /\ wk.i + 1 \in Nat \ {0}
        BY SMTT(40), <4>1 DEF Control, TypeOK, SlotType
      <4>3. \/ wk' = [wk EXCEPT !.pc = "scanlock", !.iThis = aReader[wk.i]]
            \/ wk' = [wk EXCEPT !.i = wk.i + 1]
        BY <3>2 DEF ScanSlot
      <4>4. wk.pc = "scan" /\ wk \in WorkerStates
        BY <1>1, <3>2 DEF ScanSlot, WorkerType
      <4>5. wk' \in WorkerStates
        BY <4>2, <4>3, <4>4 DEF WorkerStates, Working
      <4>6. /\ wk'.pc \in {"scan", "scanlock"} /\ wk'.p = wk.p /\ wk'.iBefore = wk.iBefore
            /\ wk'.i # 0 /\ (wk'.pc = "scanlock" => wk'.i = wk.i)
        <5>1. CASE wk' = [wk EXCEPT !.pc = "scanlock", !.iThis = aReader[wk.i]]
          BY SMTT(40), <4>1, <4>4, <5>1 DEF WorkerStates, Slots
        <5>2. CASE wk' = [wk EXCEPT !.i = wk.i + 1]
          BY <4>2, <4>4, <5>2 DEF WorkerStates
        <5> QED
          BY <4>3, <5>1, <5>2
      <4> QED
        BY <4>1, <4>5, <4>6
    <3>3. CASE ScanLock(c)
      <4>1. \/ wk' = [wk EXCEPT !.pc = "scan", !.i = wk.i + 1]
            \/ wk' = [wk EXCEPT !.pc = "scan", !.i = wk.i + 1, !.iInUse = wk.iThis]
        BY <3>3 DEF ScanLock
      <4>2. wk \in WorkerStates /\ wk.i + 1 \in Nat \ {0}
        BY SMTT(40), <1>1 DEF WorkerType, WorkerStates
      <4>3. wk' \in WorkerStates
        BY <4>1, <4>2 DEF WorkerStates, Working
      <4>4. wk'.pc = "scan" /\ wk'.p = wk.p /\ wk'.iBefore = wk.iBefore /\ wk'.i # 0
        BY <4>1, <4>2 DEF WorkerStates
      <4> QED
        BY <4>3, <4>4
    <3> QED
      BY <1>9, <3>1, <3>2, <3>3
  <2> QED
    BY <1>1, <1>2, <1>3, <2>1, <2>2 DEF ShmType, WorkerType, CopiesInOrder, Working
<1>10. CASE WriteBlock(c) \/ MoveBlock(c) \/ FreeBlock(c)
  <2>1. /\ worker = c /\ wk.pc \in {"work", "scan"}
        /\ UNCHANGED <<aSnap1, aSnap2, worker>>
    BY <1>10 DEF WriteBlock, MoveBlock, FreeBlock, Scanned, shm
  <2>2. wk.p \in Snapshots /\ wk \in WorkerStates
    BY <1>1, <2>1 DEF CopiesInOrder, WorkerType
  <2>3. /\ wk' \in WorkerStates /\ wk'.pc = "work"
        /\ wk'.p \in Snapshots /\ wk'.p.iId = wk.p.iId
    <3>1. CASE WriteBlock(c)
      <4>1. PICK b \in Blocks :
              wk' = [IdleWorker EXCEPT !.pc = "work", !.p = WithBlock(wk.p, b), !.dirty = TRUE]
        BY <3>1 DEF WriteBlock
      <4> DEFINE q == WithBlock(wk.p, b)
      <4>2. q \in Snapshots /\ q.iId = wk.p.iId
        BY <1>4, <2>2
      <4> HIDE DEF q
      <4>3. wk' = [pc |-> "work", p |-> q, iBefore |-> 0, iMeta |-> 0, iInUse |-> 0,
                   iThis |-> 0, i |-> 0, dirty |-> TRUE]
        BY <4>1 DEF IdleWorker, q
      <4>4. wk' \in WorkerStates
        BY <1>6, <4>2, <4>3 DEF OptSnapshots, Working
      <4> QED
        BY <4>2, <4>3, <4>4
    <3>2. CASE MoveBlock(c)
      <4>1. CASE wk' = [IdleWorker EXCEPT !.pc = "work", !.p = wk.p, !.dirty = wk.dirty]
        <5>1. wk.dirty \in BOOLEAN
          BY <2>2 DEF WorkerStates
        <5> QED
          <6> DEFINE x == wk.dirty
                     q == wk.p
          <6>1. x \in BOOLEAN /\ q \in OptSnapshots /\ "work" \in {"idle"} \cup Working
            BY <2>2, <5>1 DEF OptSnapshots, Working
          <6> HIDE DEF x
          <6>2. wk' = [pc |-> "work", p |-> q, iBefore |-> 0, iMeta |-> 0, iInUse |-> 0,
                       iThis |-> 0, i |-> 0, dirty |-> x]
            BY <4>1 DEF IdleWorker, x
          <6>3. wk' \in WorkerStates
            BY <1>6, <6>1, <6>2
          <6> QED
            BY <2>2, <6>2, <6>3
      <4>2. CASE ~(wk' = [IdleWorker EXCEPT !.pc = "work", !.p = wk.p, !.dirty = wk.dirty])
        <5> DEFINE b == Min(Recyclable)
                   q == WithoutBlock(WithBlock(wk.p, b), wk.iBefore)
        <5>1. /\ Recyclable # {}
              /\ wk' = [IdleWorker EXCEPT !.pc = "work", !.dirty = TRUE, !.p = q]
              /\ wk.pc = "scan" /\ wk.iBefore > 0
          BY <3>2, <4>2 DEF MoveBlock, Scanned
        <5>2. b \in Blocks
          BY <5>1, RecyclableBlocks
        <5>3. wk.iBefore \in Blocks
          BY SMTT(40), <1>1, <1>5, <2>2, <5>1 DEF CopiesInOrder, WorkerStates
        <5>4. q \in Snapshots /\ q.iId = wk.p.iId
          BY <1>4, <2>2, <5>2, <5>3
        <5> HIDE DEF q
        <5> QED
          BY <1>6, <5>1, <5>4 DEF IdleWorker, OptSnapshots, Working
      <4> QED
        BY <4>1, <4>2
    <3>3. CASE FreeBlock(c)
      <4>1. PICK b \in DOMAIN wk.p.lvl :
              wk' = [wk EXCEPT !.p = WithoutBlock(wk.p, b), !.dirty = TRUE]
        BY <3>3 DEF FreeBlock
      <4>2. WithoutBlock(wk.p, b) \in Snapshots /\ WithoutBlock(wk.p, b).iId = wk.p.iId
        BY <1>4, <1>5, <2>2
      <4>3. wk.pc = "work"
        BY <3>3 DEF FreeBlock
      <4> QED
        BY <2>2, <4>1, <4>2, <4>3 DEF WorkerStates, OptSnapshots, Working
    <3> QED
      BY <1>10, <3>1, <3>2, <3>3
  <2> QED
    BY <1>1, <1>2, <1>3, <2>1, <2>3 DEF ShmType, WorkerType, CopiesInOrder, Working
<1>11. CASE SaveWorker(c)
  <2>1. /\ worker = c /\ wk.pc = "work" /\ aSnap2' = Torn(wk.p.iId + 1)
        /\ wk' = [wk EXCEPT !.pc = "save2", !.p.iId = wk.p.iId + 1]
        /\ UNCHANGED <<aSnap1, worker>>
    BY <1>11 DEF SaveWorker
  <2>2. wk.p \in Snapshots /\ wk \in WorkerStates /\ wk.p.iId + 1 \in Nat \ {0}
    BY SMTT(40), <1>1, <1>3, <2>1 DEF CopiesInOrder, WorkerType
  <2> DEFINE q == [wk.p EXCEPT !.iId = @ + 1]
  <2>3. q \in Snapshots /\ q.iId = wk.p.iId + 1
    BY SMTT(40), <1>0, <2>2, FleetFacts, NextIdFields DEF Snapshots
  <2>4. wk' = [wk EXCEPT !.pc = "save2", !.p = q]
    BY <2>1, <2>2 DEF WorkerStates
  <2> HIDE DEF q
  <2>5. wk' \in WorkerStates /\ wk'.pc = "save2" /\ wk'.p = q
    BY <2>2, <2>3, <2>4 DEF WorkerStates, OptSnapshots
  <2> QED
    BY <1>0, <1>1, <1>2, <1>3, <2>1, <2>2, <2>3, <2>5
    DEF ShmType, WorkerType, CopiesInOrder, Working
<1>12. CASE SavedSnap2(c) \/ SaveSnap1(c) \/ SavedSnap1(c)
  <2>1. worker = c /\ worker' = c /\ wk.pc \in {"save2", "barrier", "save1"}
    BY <1>12 DEF SavedSnap2, SaveSnap1, SavedSnap1
  <2>2. wk.p \in Snapshots /\ wk \in WorkerStates /\ wk.p.iId \in Nat \ {0}
    BY <1>1, <1>3, <2>1 DEF CopiesInOrder, WorkerType
  <2>3. /\ wk' \in WorkerStates /\ wk'.p = wk.p
        /\ SavedSnap2(c) => wk'.pc = "barrier"
        /\ SaveSnap1(c) => wk'.pc = "save1"
        /\ SavedSnap1(c) => wk'.pc \in {"work", "finish"}
    <3>1. CASE SavedSnap2(c)
      BY <2>2, <3>1 DEF SavedSnap2, SaveSnap1, SavedSnap1, WorkerStates
    <3>2. CASE SaveSnap1(c)
      BY <2>2, <3>2 DEF SavedSnap2, SaveSnap1, SavedSnap1, WorkerStates
    <3>3. CASE SavedSnap1(c)
      <4>1. PICK pc \in {"work", "finish"} : wk' = [IdleWorker EXCEPT !.pc = pc, !.p = wk.p]
        BY <3>3 DEF SavedSnap1
      <4>2. wk.pc = "save1"
        BY <3>3 DEF SavedSnap1
      <4> QED
        BY <1>6, <2>2, <4>1, <4>2
        DEF IdleWorker, OptSnapshots, Working, SavedSnap2, SaveSnap1
    <3> QED
      BY <1>12, <3>1, <3>2, <3>3
  <2>4. CASE SavedSnap2(c)
    <3>1. aSnap2' = wk.p /\ aSnap1' = aSnap1 /\ wk.pc = "save2"
      BY <2>4 DEF SavedSnap2
    <3> QED
      BY <1>0, <1>1, <1>2, <1>3, <2>1, <2>2, <2>3, <2>4, <3>1
      DEF ShmType, WorkerType, CopiesInOrder, Working
  <2>5. CASE SaveSnap1(c)
    <3>1. aSnap1' = Torn(wk.p.iId) /\ aSnap2' = aSnap2 /\ wk.pc = "barrier"
      BY <2>5 DEF SaveSnap1
    <3> QED
      BY SMTT(40), <1>0, <1>1, <1>2, <1>3, <2>1, <2>2, <2>3, <2>5, <3>1
      DEF ShmType, WorkerType, CopiesInOrder, Working
  <2>6. CASE SavedSnap1(c)
    <3>1. aSnap1' = wk.p /\ aSnap2' = aSnap2 /\ wk.pc = "save1"
      BY <2>6 DEF SavedSnap1
    <3> QED
      BY <1>0, <1>1, <1>2, <1>3, <2>1, <2>2, <2>3, <2>6, <3>1
      DEF ShmType, WorkerType, CopiesInOrder, Working
  <2> QED
    BY <1>12, <2>4, <2>5, <2>6
<1>13. CASE FinishWork(c) \/ AbandonWork(c)
  <2>1. /\ worker = c /\ wk.pc \in {"work", "finish"} /\ UNCHANGED <<aSnap1, aSnap2>>
        /\ worker' = NoConn /\ wk' = IdleWorker
    BY <1>13 DEF FinishWork, AbandonWork, shm
  <2>2. wk' \in WorkerStates /\ wk'.pc = "idle" /\ NoConn \in Conns \cup {NoConn}
    BY <1>6, <2>1 DEF IdleWorker, OptSnapshots
  <2> QED
    BY <1>1, <1>2, <2>1, <2>2 DEF ShmType, WorkerType, CopiesInOrder, Working
<1> QED
  BY <1>7, <1>8, <1>9, <1>10, <1>11, <1>12, <1>13 DEF WorkerStep

(* A worker touches the slots when it clears one in firstSnapshotInUse()     *)
(* and when it puts its id in one, if no other connection has locked it.     *)
LEMMA WorkerSlots ==
  ASSUME Control, NEW c \in Readers \cup Workers, WorkerStep(c)
  PROVE  SlotType' /\ OthersKeep(c)
<1>0. fleet \in Fleets /\ c \in Conns /\ c # NoConn
  BY LsmAssumption DEF Control, TypeOK, Conns
<1>1. aReader \in [Slots -> Nat] /\ lock \in [Slots -> SUBSET Conns]
  BY DEF Control, TypeOK, SlotType
<1>2. CASE UNCHANGED <<aReader, lock>>
  BY <1>1, <1>2 DEF SlotType, OthersKeep
<1>3. CASE ScanLock(c)
  <2>1. CASE CanLock(c, wk.i)
    <3>1. /\ aReader' = [aReader EXCEPT ![wk.i] = 0]
          /\ lock' = [lock EXCEPT ![wk.i] = {}]
      BY <1>3, <2>1 DEF ScanLock
    <3> QED
      BY <1>1, <2>1, <3>1 DEF SlotType, OthersKeep, CanLock
  <2> QED
    BY <1>2, <1>3, <2>1 DEF ScanLock, slots
<1>4. CASE FinishWork(c)
  <2> DEFINE u == {i \in Slots : CanLock(c, i)}
             m == Min(u)
  <2>1. CASE u # {} /\ ~UNCHANGED <<aReader, lock>>
    <3>1. /\ aReader' = [aReader EXCEPT ![m] = wk.p.iId]
          /\ lock' = [lock EXCEPT ![m] = {}]
      BY <1>4, <2>1 DEF FinishWork, SetReadLock, slots
    <3>2. m \in Slots /\ lock[m] \subseteq {c}
      <4>1. u \in SUBSET Nat
        BY SMTT(40), LsmAssumption DEF Slots
      <4>2. m \in u
        BY <2>1, <4>1, LeastMember
      <4> QED
        BY <4>2 DEF CanLock
    <3>3. wk.p.iId \in Nat
      BY <1>0, <1>4, OwnSnapshot DEF FinishWork, Control, CopiesInOrder
    <3> HIDE DEF m, u
    <3> QED
      BY <1>1, <3>1, <3>2, <3>3 DEF SlotType, OthersKeep
  <2> QED
    BY <1>2, <1>4, <2>1 DEF FinishWork, SetReadLock, slots
<1> QED
  BY <1>2, <1>3, <1>4
  DEF WorkerStep, BeginWork, AllocateBlock, ReadSynced, ScanSlot, WriteBlock,
      MoveBlock, FreeBlock, SaveWorker, SavedSnap2, SaveSnap1, SavedSnap1,
      AbandonWork, slots

(* The worker snapshot with block b written, and perhaps the block iBefore,  *)
(* of which b is the copy, freed.                                            *)
Written(b) ==
  /\ disk' = [disk EXCEPT ![b] = Building]
  /\ b \in Recyclable \/ b = wk.p.nBlock + 1
  /\ \/ wk'.p = WithBlock(wk.p, b)
     \/ /\ wk'.p = WithoutBlock(WithBlock(wk.p, b), wk.iBefore)
        /\ wk.iBefore # b /\ wk.iBefore \in DOMAIN wk.p.lvl

(* What a step makes of the worker snapshot, and what it writes to the file: *)
(* a block that may be recycled, or a new one.                               *)
LEMMA WorkerSnapshot ==
  ASSUME Control, NEW c \in Readers \cup Workers, WorkerStep(c)
  PROVE  \/ wk'.pc = "idle" /\ UNCHANGED disk
         \/ wk.pc = "idle" /\ wk'.p = Current /\ UNCHANGED disk
         \/ wk.pc # "idle" /\ wk'.p = wk.p /\ UNCHANGED disk
         \/ /\ wk.pc = "work" /\ UNCHANGED disk
            /\ \/ \E b \in DOMAIN wk.p.lvl : wk'.p = WithoutBlock(wk.p, b)
               \/ wk'.p = [wk.p EXCEPT !.iId = @ + 1]
         \/ Scanned(c) /\ \E b \in Blocks : Written(b)
<1>0. fleet \in Fleets /\ c \in Conns /\ c # NoConn /\ wk \in WorkerStates
  BY LsmAssumption DEF Control, TypeOK, Conns, WorkerType
<1>1. worker = c => wk.pc # "idle"
  BY <1>0 DEF Control, CopiesInOrder
<1>2. CASE BeginWork(c)
  <2>1. wk.pc = "idle" /\ UNCHANGED disk
    BY <1>2 DEF BeginWork, file, Control, CopiesInOrder
  <2>2. wk'.p = Current
    BY <1>2 DEF BeginWork, Current, IdleWorker
  <2> QED
    BY <2>1, <2>2
<1>3. CASE AllocateBlock(c) \/ ReadSynced(c) \/ ScanSlot(c) \/ ScanLock(c)
  <2>1. UNCHANGED disk /\ worker = c
    BY <1>3 DEF AllocateBlock, ReadSynced, ScanSlot, ScanLock, file
  <2>2. wk'.p = wk.p
    BY <1>0, <1>3 DEF AllocateBlock, ReadSynced, ScanSlot, ScanLock, WorkerStates
  <2> QED
    BY <1>1, <2>1, <2>2
<1>4. CASE WriteBlock(c)
  <2> DEFINE b == IF Recyclable = {} THEN wk.p.nBlock + 1 ELSE Min(Recyclable)
  <2>1. /\ Scanned(c) /\ b \in Blocks /\ disk' = [disk EXCEPT ![b] = Building]
        /\ wk' = [IdleWorker EXCEPT !.pc = "work", !.p = WithBlock(wk.p, b), !.dirty = TRUE]
    BY <1>4 DEF WriteBlock
  <2>2. b \in Recyclable \/ b = wk.p.nBlock + 1
    BY <2>1, RecyclableBlocks DEF Scanned
  <2> HIDE DEF b
  <2>3. wk'.p = WithBlock(wk.p, b)
    BY <2>1 DEF IdleWorker
  <2> QED
    BY <2>1, <2>2, <2>3 DEF Written
<1>5. CASE MoveBlock(c)
  <2> DEFINE b == Min(Recyclable)
  <2>1. CASE Recyclable # {} /\ b < wk.iBefore
    <3>1. /\ Scanned(c) /\ disk' = [disk EXCEPT ![b] = Building]
          /\ wk' = [IdleWorker EXCEPT !.pc = "work", !.dirty = TRUE,
                      !.p = WithoutBlock(WithBlock(wk.p, b), wk.iBefore)]
          /\ wk.iBefore > 0
      BY <1>5, <2>1 DEF MoveBlock
    <3>2. b \in Recyclable /\ b \in Blocks
      BY <2>1, <3>1, RecyclableBlocks DEF Scanned
    <3>3. b < wk.iBefore
      BY <2>1
    <3> HIDE DEF b
    <3>4. wk'.p = WithoutBlock(WithBlock(wk.p, b), wk.iBefore)
      BY <3>1 DEF IdleWorker
    <3>5. wk.iBefore \in Nat /\ b \in Nat
      BY SMTT(40), <1>0, <3>2, FleetFacts DEF WorkerStates, Blocks
    <3>6. wk.iBefore # b /\ wk.iBefore \in DOMAIN wk.p.lvl
      BY SMTT(40), <3>1, <3>3, <3>5 DEF Scanned, Control, CopiesInOrder
    <3> QED
      BY <3>1, <3>2, <3>4, <3>6 DEF Written
  <2>2. CASE ~(Recyclable # {} /\ b < wk.iBefore)
    <3>1. /\ worker = c /\ UNCHANGED disk
          /\ wk' = [IdleWorker EXCEPT !.pc = "work", !.p = wk.p, !.dirty = wk.dirty]
      BY <1>5, <2>2 DEF MoveBlock, Scanned
    <3>2. wk'.p = wk.p
      BY <3>1 DEF IdleWorker
    <3> QED
      BY <1>1, <3>1, <3>2
  <2> QED
    BY <2>1, <2>2
<1>6. CASE FreeBlock(c)
  <2>1. PICK b \in DOMAIN wk.p.lvl :
          wk' = [wk EXCEPT !.p = WithoutBlock(wk.p, b), !.dirty = TRUE]
    BY <1>6 DEF FreeBlock
  <2>2. wk'.p = WithoutBlock(wk.p, b)
    BY <1>0, <2>1 DEF WorkerStates
  <2> QED
    BY <1>6, <2>2 DEF FreeBlock, file
<1>7. CASE SaveWorker(c)
  <2>1. wk' = [wk EXCEPT !.pc = "save2", !.p.iId = @ + 1] /\ wk.pc = "work" /\ UNCHANGED disk
    BY <1>7 DEF SaveWorker, file
  <2>2. wk'.p = [wk.p EXCEPT !.iId = @ + 1]
    BY <1>0, <2>1 DEF WorkerStates
  <2> QED
    BY <2>1, <2>2
<1>8. CASE SavedSnap2(c) \/ SaveSnap1(c) \/ SavedSnap1(c)
  <2>1. UNCHANGED disk /\ worker = c
    BY <1>8 DEF SavedSnap2, SaveSnap1, SavedSnap1, file
  <2>2. wk'.p = wk.p
    BY <1>0, <1>8 DEF SavedSnap2, SaveSnap1, SavedSnap1, WorkerStates, IdleWorker
  <2> QED
    BY <1>1, <2>1, <2>2
<1>9. CASE FinishWork(c) \/ AbandonWork(c)
  BY SMTT(40), <1>9 DEF FinishWork, AbandonWork, IdleWorker, file
<1> QED
  BY <1>2, <1>3, <1>4, <1>5, <1>6, <1>7, <1>8, <1>9 DEF WorkerStep

(* What a worker does to the readers' state: it marks its own transaction,   *)
(* or moves it to the first copy.                                            *)
LEMMA WorkerReaders ==
  ASSUME Control, NEW c \in Readers \cup Workers, WorkerStep(c)
  PROVE  /\ ReaderType' /\ ReadersInOrder'
         /\ \A d \in Readers :
              /\ d # c => rd'[d] = rd[d]
              /\ rd'[d].snap = rd[d].snap /\ rd'[d].pc = rd[d].pc
              /\ rd'[d].client = rd[d].client \/ rd'[d].client = aSnap1
              /\ rd'[d].client = aSnap1 \/ rd'[d] = rd[d] \/ rd'[d].worked
<1>0. fleet \in Fleets /\ c \in Conns /\ c # NoConn
  BY LsmAssumption DEF Control, TypeOK, Conns
<1>1. rd \in [Readers -> ReaderStates]
  BY DEF Control, TypeOK, ReaderType
<1>2. Snapshots' = Snapshots /\ OptSnapshots' = OptSnapshots
  BY WorkerFrame DEF Snapshots, OptSnapshots
<1>3. ReaderStates' = ReaderStates
  BY <1>2 DEF ReaderStates
<1>4. CASE rd' = rd /\ worker' \in {worker, NoConn}
  <2>1. ReaderType'
    BY <1>1, <1>3, <1>4 DEF ReaderType
  <2>2. ReadersInOrder'
    BY <1>0, <1>2, <1>4, LsmAssumption DEF Control, ReadersInOrder, Conns
  <2> QED
    BY <1>4, <2>1, <2>2
<1>5. CASE BeginWork(c)
  <2>1. c \in Readers <=> InReadTrans(c)
    BY <1>5, LsmAssumption DEF BeginWork, InReadTrans
  <2>2. worker' = c
    BY <1>5 DEF BeginWork
  <2>3. CASE c \notin Readers
    <3>1. rd' = rd
      BY <1>5, <2>1, <2>3 DEF BeginWork
    <3> QED
      BY <1>1, <1>2, <1>3, <2>2, <2>3, <3>1 DEF Control, ReadersInOrder, ReaderType
  <2>4. CASE c \in Readers
    <3>1. rd' = [rd EXCEPT ![c].worked = TRUE]
      BY <1>5, <2>1, <2>4 DEF BeginWork
    <3>2. /\ ReaderType'
          /\ \A d \in Readers :
               /\ d # c => rd'[d] = rd[d]
               /\ rd'[d].snap = rd[d].snap /\ rd'[d].pc = rd[d].pc
               /\ rd'[d].client = rd[d].client /\ rd'[d].copy = rd[d].copy
               /\ rd'[d].i = rd[d].i
          /\ rd'[c].worked
      BY <1>1, <1>3, <2>4, <3>1 DEF ReaderType, ReaderStates
    <3>3. rd[c].pc = "open"
      BY <2>1, <2>4 DEF InReadTrans
    <3>4. ReadersInOrder'
      BY <1>2, <2>2, <3>2, <3>3 DEF Control, ReadersInOrder
    <3> QED
      BY <3>2, <3>4
  <2> QED
    BY <2>3, <2>4
<1>6. CASE (FinishWork(c) \/ AbandonWork(c)) /\ rd' # rd
  <2>1. /\ InReadTrans(c) /\ rd' = [rd EXCEPT ![c].client = aSnap1]
        /\ worker' = NoConn /\ wk.pc \in {"work", "finish"}
    BY <1>6 DEF FinishWork, AbandonWork, ReloadClient
  <2>2. aSnap1 \in Snapshots /\ aSnap1 \in OptSnapshots
    BY <2>1, CopyWhole DEF Control, CopiesInOrder, TypeOK, ShmType, Working, OptSnapshots
  <2>3. c \in Readers /\ rd[c].pc = "open"
    BY <2>1 DEF InReadTrans
  <2>4. /\ ReaderType'
        /\ \A d \in Readers :
             /\ d # c => rd'[d] = rd[d]
             /\ rd'[d].snap = rd[d].snap /\ rd'[d].pc = rd[d].pc
             /\ rd'[d].copy = rd[d].copy /\ rd'[d].i = rd[d].i
        /\ rd'[c].client = aSnap1
    BY <1>1, <1>3, <2>1, <2>2, <2>3 DEF ReaderType, ReaderStates
  <2>5. ReadersInOrder'
    <3>1. NoConn \notin Readers
      BY LsmAssumption DEF Conns
    <3> QED
      BY SMTT(40), <1>2, <2>1, <2>2, <2>4, <3>1 DEF Control, ReadersInOrder
  <2> QED
    BY <2>4, <2>5
<1>7. CASE ~BeginWork(c) /\ ~FinishWork(c) /\ ~AbandonWork(c)
  <2>1. rd' = rd /\ worker' = worker
    BY <1>7
    DEF WorkerStep, AllocateBlock, ReadSynced, ScanSlot, ScanLock, WriteBlock,
        MoveBlock, FreeBlock, SaveWorker, SavedSnap2, SaveSnap1, SavedSnap1
  <2> QED
    BY <1>4, <2>1
<1>8. CASE (FinishWork(c) \/ AbandonWork(c)) /\ rd' = rd
  BY <1>4, <1>8 DEF FinishWork, AbandonWork
<1> QED
  BY <1>5, <1>6, <1>7, <1>8

(* A step of a worker keeps every party in order.                            *)
LEMMA WorkerControl ==
  ASSUME Control, NEW c \in Readers \cup Workers, WorkerStep(c)
  PROVE  Control'
<1>1. UNCHANGED <<iMetaPage, meta, metaDirty, ckptr, ck, fleet, lapse>>
  BY WorkerFrame
<1>2. Snapshots' = Snapshots /\ OptSnapshots' = OptSnapshots /\ Blocks' = Blocks
  BY <1>1 DEF Snapshots, OptSnapshots, Blocks
<1>3. CkptStates' = CkptStates
  BY <1>2 DEF CkptStates
<1>4. (disk \in [Blocks -> Nat])'
  <2>1. disk \in [Blocks -> Nat]
    BY DEF Control, TypeOK, FileType
  <2>2. ASSUME NEW b \in Blocks, disk' = [disk EXCEPT ![b] = Building], Scanned(c)
        PROVE  disk' \in [Blocks -> Nat]
    <3>1. Building \in Nat
      BY SMTT(40), <2>2, OwnSnapshot DEF Building, Scanned, Control, CopiesInOrder, TypeOK
    <3> QED
      BY <2>1, <2>2, <3>1
  <2> QED
    BY <1>2, <2>1, <2>2, WorkerSnapshot DEF Written
<1>5. (FileType /\ CkptType /\ LapseType /\ fleet \in Fleets)'
  BY <1>1, <1>2, <1>3, <1>4 DEF Control, TypeOK, FileType, CkptType, LapseType
<1>6. MetaInOrder'
  BY <1>1, <1>2 DEF Control, MetaInOrder
<1> QED
  BY <1>5, <1>6, WorkerCopies, WorkerSlots, WorkerReaders DEF Control, TypeOK

-----------------------------------------------------------------------------
(* Steps of a checkpointer, deaths and crashes.                              *)

CkptStep(c) ==
  \/ BeginCheckpoint(c) \/ LoadCheckpoint(c)
  \/ SyncBlocks(c) \/ StoreMeta(c) \/ SyncMeta(c)
  \/ FinishCheckpoint(c) \/ FailCheckpoint(c)

(* What a step of a checkpointer leaves alone.                               *)
LEMMA CkptFrame ==
  ASSUME NEW c, CkptStep(c)
  PROVE  /\ UNCHANGED <<aSnap1, aSnap2, disk, aReader, lock, rd, worker, wk, fleet>>
         /\ lapse' = lapse \/ lapse' = "early"
BY DEF CkptStep, BeginCheckpoint, LoadCheckpoint, SyncBlocks, StoreMeta, SyncMeta,
   FinishCheckpoint, FailCheckpoint, Checkpoint, shm, file, slots

(* What a checkpointer does to its own state and to the meta pages: it       *)
(* loads one of the copies, and writes what it has loaded to the page that   *)
(* is not in use.                                                            *)
LEMMA CkptOwnStep ==
  ASSUME Control, NEW c \in Checkpointers, CkptStep(c)
  PROVE  /\ CkptType' /\ MetaInOrder'
         /\ iMetaPage' \in 0..2
         /\ meta' \in [1..2 -> OptSnapshots] /\ metaDirty' \in SUBSET (1..2)
         /\ \/ ck'.snap \in {ck.snap, None}
            \/ ck'.snap \in Published /\ (lapse' = None => ck'.snap = Current)
         /\ \A m \in 1..2 : meta'[m] = meta[m] \/ meta'[m] = ck.snap
<1>0. fleet \in Fleets /\ c \in Conns /\ c # NoConn
  BY LsmAssumption DEF Control, TypeOK, Conns
<1>1. Snapshots' = Snapshots /\ OptSnapshots' = OptSnapshots
  BY CkptFrame DEF Snapshots, OptSnapshots
<1>2. CkptStates' = CkptStates
  BY <1>1 DEF CkptStates
<1>3. /\ ck \in CkptStates /\ ckptr \in Conns \cup {NoConn}
      /\ meta \in [1..2 -> OptSnapshots] /\ metaDirty \in SUBSET (1..2)
      /\ iMetaPage \in 0..2
      /\ MetaInOrder
  BY DEF Control, TypeOK, CkptType, FileType, ShmType
<1>4. /\ ChecksumOk(aSnap1) => aSnap1 \in Snapshots
      /\ ChecksumOk(aSnap2) => aSnap2 \in Snapshots
      /\ \A s \in Snapshots : s # None /\ s \in OptSnapshots
      /\ None \in OptSnapshots
  BY <1>0, CopyWhole, OwnSnapshot DEF Control, TypeOK, ShmType, OptSnapshots
<1>5. CASE /\ UNCHANGED <<iMetaPage, meta, metaDirty>>
           /\ ckptr' = NoConn /\ ck' = IdleCkpt
  <2>1. ck' \in CkptStates /\ ck'.pc = "idle" /\ ck'.snap = None
    BY SMTT(40), <1>4, <1>5 DEF CkptStates, IdleCkpt
  <2> QED
    BY <1>1, <1>2, <1>3, <1>5, <2>1 DEF CkptType, MetaInOrder
<1>6. ASSUME NEW snap \in Snapshots, snap \in Published, Checkpoint(c, snap),
             lapse' = None => snap = Current,
             UNCHANGED <<iMetaPage, meta, metaDirty>>
      PROVE  /\ CkptType' /\ MetaInOrder'
             /\ iMetaPage' \in 0..2
             /\ meta' \in [1..2 -> OptSnapshots] /\ metaDirty' \in SUBSET (1..2)
             /\ \/ ck'.snap \in {ck.snap, None}
                \/ ck'.snap \in Published /\ (lapse' = None => ck'.snap = Current)
             /\ \A m \in 1..2 : meta'[m] = meta[m] \/ meta'[m] = ck.snap
  <2>1. CASE Needed(snap)
    <3>1. /\ ckptr' = c
          /\ ck' = [pc |-> "sync", snap |-> snap, iMeta |-> (iMetaPage % 2) + 1]
      BY <1>6, <2>1 DEF Checkpoint
    <3>2. (iMetaPage % 2) + 1 \in 1..2
      BY SMTT(40), <1>3
    <3>3. /\ ck' \in CkptStates /\ ck'.pc = "sync" /\ ck'.snap = snap
          /\ ck'.iMeta = (iMetaPage % 2) + 1
      BY SMTT(40), <1>4, <1>6, <3>1, <3>2 DEF CkptStates
    <3> QED
      BY <1>0, <1>1, <1>2, <1>3, <1>6, <3>1, <3>3 DEF CkptType, MetaInOrder
  <2>2. CASE ~Needed(snap)
    BY <1>5, <1>6, <2>2 DEF Checkpoint
  <2> QED
    BY <2>1, <2>2
<1>7. CASE BeginCheckpoint(c)
  <2>1. UNCHANGED <<iMetaPage, meta, metaDirty>>
    BY <1>7 DEF BeginCheckpoint, shm, file
  <2>2. CASE ChecksumOk(aSnap1)
    <3>1. aSnap1 \in Published /\ Checkpoint(c, aSnap1) /\ aSnap1 = Current
      BY <1>7, <2>2 DEF BeginCheckpoint, Published, Current
    <3> QED
      BY <1>4, <1>6, <2>1, <2>2, <3>1
  <2>3. CASE ~ChecksumOk(aSnap1)
    <3>1. ckptr' = c /\ ck' = [pc |-> "load2", snap |-> None, iMeta |-> 0]
      BY <1>7, <2>3 DEF BeginCheckpoint, IdleCkpt
    <3>2. ck' \in CkptStates /\ ck'.pc = "load2" /\ ck'.snap = None
      BY SMTT(40), <1>4, <3>1 DEF CkptStates
    <3> QED
      BY <1>0, <1>1, <1>2, <1>3, <2>1, <3>1, <3>2 DEF CkptType, MetaInOrder
  <2> QED
    BY <2>2, <2>3
<1>8. CASE LoadCheckpoint(c)
  <2>1. UNCHANGED <<iMetaPage, meta, metaDirty>>
    BY <1>8 DEF LoadCheckpoint, shm, file
  <2>2. CASE ChecksumOk(aSnap2)
    <3>1. /\ aSnap2 \in Published /\ Checkpoint(c, aSnap2)
          /\ lapse' = None => aSnap2 = Current
      BY <1>8, <2>2, LsmAssumption DEF LoadCheckpoint, Published, LoadsEarly, Current
    <3> QED
      BY <1>4, <1>6, <2>1, <2>2, <3>1
  <2>3. CASE ~ChecksumOk(aSnap2)
    <3>1. ckptr' = c /\ ck' = [ck EXCEPT !.pc = "load1"]
      BY <1>8, <2>3 DEF LoadCheckpoint
    <3>2. ck' \in CkptStates /\ ck'.pc = "load1" /\ ck'.snap = ck.snap
      BY <1>3, <3>1 DEF CkptStates
    <3> QED
      BY <1>0, <1>1, <1>2, <1>3, <2>1, <3>1, <3>2 DEF CkptType, MetaInOrder
  <2> QED
    BY <2>2, <2>3
<1>9. CASE SyncBlocks(c) \/ SyncMeta(c)
  <2>1. /\ UNCHANGED <<iMetaPage, meta, ckptr>> /\ metaDirty' = {} /\ ckptr = c
        /\ \/ ck.pc = "sync" /\ ck' = [ck EXCEPT !.pc = "store"]
           \/ ck.pc = "syncmeta" /\ ck' = [ck EXCEPT !.pc = "finish"]
    BY <1>9 DEF SyncBlocks, SyncMeta, shm
  <2>2. /\ ck' \in CkptStates /\ ck'.snap = ck.snap /\ ck'.iMeta = ck.iMeta
        /\ \/ ck.pc = "sync" /\ ck'.pc = "store"
           \/ ck.pc = "syncmeta" /\ ck'.pc = "finish"
    BY <1>3, <2>1 DEF CkptStates
  <2> QED
    BY <1>0, <1>1, <1>2, <1>3, <2>1, <2>2 DEF CkptType, MetaInOrder
<1>10. CASE StoreMeta(c)
  <2>1. /\ UNCHANGED <<iMetaPage, ckptr>> /\ ckptr = c /\ ck.pc = "store"
        /\ meta' = [meta EXCEPT ![ck.iMeta] = ck.snap]
        /\ metaDirty' = metaDirty \cup {ck.iMeta}
        /\ ck' = [ck EXCEPT !.pc = "syncmeta"]
    BY <1>10 DEF StoreMeta, shm
  <2>2. ck.snap \in Snapshots /\ ck.iMeta = (iMetaPage % 2) + 1
    BY <1>3, <2>1 DEF MetaInOrder
  <2>3. ck.iMeta \in 1..2 /\ (iMetaPage # 0 => ck.iMeta # iMetaPage)
    BY SMTT(40), <1>3, <2>2
  <2>4. /\ ck' \in CkptStates /\ ck'.snap = ck.snap /\ ck'.iMeta = ck.iMeta
        /\ ck'.pc = "syncmeta"
    BY <1>3, <2>1 DEF CkptStates
  <2>5. /\ meta' \in [1..2 -> OptSnapshots] /\ meta'[ck.iMeta] = ck.snap
        /\ \A m \in 1..2 : m # ck.iMeta => meta'[m] = meta[m]
    BY <1>3, <1>4, <2>1, <2>2, <2>3
  <2>6. CkptType' /\ ck'.snap = ck.snap
    BY <1>2, <1>3, <2>1, <2>4 DEF CkptType
  <2>7. MetaInOrder'
    BY SMTT(40), <1>0, <1>1, <1>3, <2>1, <2>2, <2>3, <2>4, <2>5 DEF MetaInOrder
  <2>8. metaDirty' \in SUBSET (1..2)
    BY <1>3, <2>1, <2>3
  <2>9. \A m \in 1..2 : meta'[m] = meta[m] \/ meta'[m] = ck.snap
    BY <2>3, <2>5
  <2>10. iMetaPage' \in 0..2
    BY <1>3, <2>1
  <2> QED
    BY <2>5, <2>6, <2>7, <2>8, <2>9, <2>10
<1>11. CASE FinishCheckpoint(c)
  <2>1. /\ ckptr = c /\ ck.pc = "finish" /\ iMetaPage' = ck.iMeta
        /\ ckptr' = NoConn /\ ck' = IdleCkpt /\ UNCHANGED <<meta, metaDirty>>
    BY <1>11 DEF FinishCheckpoint, file
  <2>2. /\ ck.snap \in Snapshots /\ ck.iMeta = (iMetaPage % 2) + 1
        /\ meta[ck.iMeta] = ck.snap /\ ck.iMeta \notin metaDirty
    BY <1>3, <2>1 DEF MetaInOrder
  <2>3. ck.iMeta \in 1..2 /\ ck.snap # None
    BY SMTT(40), <1>3, <1>4, <2>2
  <2>4. ck' \in CkptStates /\ ck'.pc = "idle" /\ ck'.snap = None
    BY SMTT(40), <1>4, <2>1 DEF CkptStates, IdleCkpt
  <2> QED
    BY SMTT(40), <1>1, <1>2, <1>3, <2>1, <2>2, <2>3, <2>4 DEF CkptType, MetaInOrder
<1>12. CASE FailCheckpoint(c)
  BY <1>5, <1>12 DEF FailCheckpoint, shm, file
<1> QED
  BY <1>7, <1>8, <1>9, <1>10, <1>11, <1>12 DEF CkptStep

(* A step of a checkpointer keeps every party in order.                      *)
LEMMA CkptControl ==
  ASSUME Control, NEW c \in Checkpointers, CkptStep(c)
  PROVE  Control'
<1>1. /\ UNCHANGED <<aSnap1, aSnap2, disk, aReader, lock, rd, worker, wk, fleet>>
      /\ lapse' = lapse \/ lapse' = "early"
  BY CkptFrame
<1>2. Snapshots' = Snapshots /\ OptSnapshots' = OptSnapshots /\ Blocks' = Blocks
  BY <1>1 DEF Snapshots, OptSnapshots, Blocks
<1>3. ReaderStates' = ReaderStates /\ WorkerStates' = WorkerStates
  BY <1>2 DEF ReaderStates, WorkerStates
<1>4. /\ CkptType' /\ MetaInOrder'
      /\ iMetaPage' \in 0..2
      /\ meta' \in [1..2 -> OptSnapshots] /\ metaDirty' \in SUBSET (1..2)
  BY CkptOwnStep
<1>5. TypeOK'
  BY <1>1, <1>2, <1>3, <1>4
  DEF Control, TypeOK, ShmType, FileType, SlotType, ReaderType, WorkerType, LapseType
<1>6. CopiesInOrder'
  BY <1>1, <1>2 DEF Control, CopiesInOrder
<1>7. ReadersInOrder'
  BY <1>1, <1>2 DEF Control, ReadersInOrder
<1> QED
  BY <1>4, <1>5, <1>6, <1>7 DEF Control

(* The death of a process keeps the others in order.                         *)
LEMMA DieControl ==
  ASSUME Control, NEW c \in Conns, Die(c)
  PROVE  Control'
<1>0. fleet \in Fleets /\ c # NoConn /\ NoConn \notin Readers
  BY LsmAssumption DEF Control, TypeOK, Conns
<1>1. /\ lock' = [i \in Slots |-> lock[i] \ {c}]
      /\ rd' = IF c \in Readers THEN [rd EXCEPT ![c] = IdleReader] ELSE rd
      /\ worker' = IF worker = c THEN NoConn ELSE worker
      /\ wk' = IF worker = c THEN IdleWorker ELSE wk
      /\ ckptr' = IF ckptr = c THEN NoConn ELSE ckptr
      /\ ck' = IF ckptr = c THEN IdleCkpt ELSE ck
      /\ UNCHANGED <<aSnap1, aSnap2, iMetaPage, meta, metaDirty, disk>>
      /\ UNCHANGED <<aReader, fleet, lapse>>
  BY DEF Die, shm, file
<1>2. Snapshots' = Snapshots /\ OptSnapshots' = OptSnapshots /\ Blocks' = Blocks
  BY <1>1 DEF Snapshots, OptSnapshots, Blocks
<1>3. /\ ReaderStates' = ReaderStates /\ WorkerStates' = WorkerStates
      /\ CkptStates' = CkptStates
  BY <1>2 DEF ReaderStates, WorkerStates, CkptStates
<1>4. /\ IdleReader \in ReaderStates /\ IdleReader.pc = "idle"
      /\ IdleWorker \in WorkerStates /\ IdleWorker.pc = "idle"
      /\ IdleCkpt \in CkptStates /\ IdleCkpt.pc = "idle"
  BY SMTT(40), LsmAssumption
  DEF IdleReader, IdleWorker, IdleCkpt, ReaderStates, WorkerStates, CkptStates, OptSnapshots
<1>5. TypeOK'
  <2>1. (ShmType /\ FileType /\ LapseType /\ fleet \in Fleets)'
    BY <1>1, <1>2 DEF Control, TypeOK, ShmType, FileType, LapseType
  <2>2. SlotType'
    BY <1>1 DEF Control, TypeOK, SlotType
  <2>3. ReaderType'
    BY <1>1, <1>3, <1>4 DEF Control, TypeOK, ReaderType
  <2>4. WorkerType' /\ CkptType'
    BY <1>1, <1>3, <1>4 DEF Control, TypeOK, WorkerType, CkptType
  <2> QED
    BY <2>1, <2>2, <2>3, <2>4 DEF TypeOK
<1>6. CopiesInOrder'
  <2>1. CASE worker = c
    BY <1>1, <1>2, <1>4, <2>1 DEF Control, CopiesInOrder, Working
  <2>2. CASE worker # c
    BY <1>1, <1>2, <2>2 DEF Control, CopiesInOrder
  <2> QED
    BY <2>1, <2>2
<1>7. MetaInOrder'
  <2>1. CASE ckptr = c
    BY <1>1, <1>2, <1>4, <2>1 DEF Control, MetaInOrder
  <2>2. CASE ckptr # c
    BY <1>1, <1>2, <2>2 DEF Control, MetaInOrder
  <2> QED
    BY <2>1, <2>2
<1>8. ReadersInOrder'
  <2>1. \A d \in Readers : rd'[d] = IF d = c THEN IdleReader ELSE rd[d]
    BY <1>1 DEF Control, TypeOK, ReaderType
  <2>2. worker' \in Readers => worker' = worker /\ worker # c
    BY <1>0, <1>1
  <2> QED
    BY <1>2, <1>4, <2>1, <2>2 DEF Control, ReadersInOrder, Searching
<1> QED
  BY <1>5, <1>6, <1>7, <1>8 DEF Control

(* lsmCheckpointRecover() loads the newest whole meta page, if there is one. *)
LEMMA RecoverFacts ==
  ASSUME fleet \in Fleets, NEW m \in [1..2 -> OptSnapshots], NEW r, r = RecoverPage(m)
  PROVE  /\ r \in 0..2
         /\ r # 0 => m[r] \in Snapshots /\ m[r] # None
         /\ \A i \in 1..2 : m[i] # None => r # 0 /\ m[i].iId <= m[r].iId
<1>1. \A i \in 1..2 : m[i] # None => m[i] \in Snapshots /\ m[i].iId \in Nat
  BY OwnSnapshot DEF OptSnapshots
<1>2. CASE m[1] = None /\ m[2] = None
  <2>1. r = 0
    BY <1>2 DEF RecoverPage
  <2> QED
    BY SMTT(40), <1>2, <2>1
<1>3. CASE m[2] # None /\ (m[1] # None => m[1].iId < m[2].iId)
  <2>1. r = 2
    BY SMTT(40), <1>1, <1>3 DEF RecoverPage
  <2> QED
    BY SMTT(40), <1>1, <1>3, <2>1
<1>4. CASE m[1] # None /\ (m[2] # None => m[2].iId <= m[1].iId)
  <2>1. r = 1
    BY SMTT(40), <1>1, <1>4 DEF RecoverPage
  <2> QED
    BY SMTT(40), <1>1, <1>4, <2>1
<1> QED
  BY SMTT(40), <1>1, <1>2, <1>3, <1>4

(* What a crash leaves: a snapshot that both copies hold, the newest of the  *)
(* meta pages that survive, and nobody at work.                              *)
LEMMA CrashFacts ==
  ASSUME Control, Crash
  PROVE  /\ UNCHANGED fleet
         /\ aSnap1' \in Snapshots /\ aSnap2' = aSnap1'
         /\ meta' \in [1..2 -> OptSnapshots] /\ metaDirty' = {}
         /\ \A i \in 1..2 : meta'[i] = meta[i] \/ (meta'[i] = None /\ i \in metaDirty)
         /\ \A i \in 1..2 : meta'[i] # None => meta'[i].iId <= aSnap1'.iId
         /\ iMetaPage' \in 0..2
         /\ iMetaPage' # 0 => meta'[iMetaPage'] # None
         /\ aSnap1' = EmptySnapshot \/ \E i \in 1..2 : aSnap1' = meta'[i] /\ meta'[i] # None
         /\ disk' \in [Blocks -> Nat]
         /\ aReader' \in [Slots -> Nat] /\ lock' = [i \in Slots |-> {}]
         /\ rd' = [c \in Readers |-> IdleReader]
         /\ worker' = NoConn /\ wk' = IdleWorker
         /\ ckptr' = NoConn /\ ck' = IdleCkpt
         /\ \/ lapse' = lapse /\ \A b \in DOMAIN aSnap1'.lvl : disk'[b] = aSnap1'.lvl[b]
            \/ lapse' = "recovery"
<1>0. /\ fleet \in Fleets /\ meta \in [1..2 -> OptSnapshots]
      /\ disk \in [Blocks -> Nat]
  BY DEF Control, TypeOK, FileType
<1>1. PICK lostBlocks \in SUBSET diskDirty, lostMeta \in SUBSET metaDirty :
        LET m == [i \in 1..2 |-> IF i \in lostMeta THEN None ELSE meta[i]]
            snap == IF RecoverPage(m) = 0 THEN EmptySnapshot ELSE m[RecoverPage(m)]
        IN
        /\ disk' = [b \in Blocks |-> IF b \in lostBlocks THEN 0 ELSE disk[b]]
        /\ meta' = m
        /\ iMetaPage' = RecoverPage(m)
        /\ aSnap1' = snap /\ aSnap2' = snap
        /\ aReader' = [i \in Slots |-> IF i = 1 THEN snap.iId ELSE 0]
        /\ lapse' = IF Intact(aSnap1)' THEN lapse ELSE "recovery"
  BY DEF Crash
<1> DEFINE m == [i \in 1..2 |-> IF i \in lostMeta THEN None ELSE meta[i]]
           r == RecoverPage(m)
<1>2. m \in [1..2 -> OptSnapshots]
  BY <1>0 DEF OptSnapshots
<1>3. \A i \in 1..2 : m[i] = meta[i] \/ (m[i] = None /\ i \in metaDirty)
  BY <1>0
<1>4. /\ meta' = m /\ iMetaPage' = r /\ aSnap2' = aSnap1'
      /\ aSnap1' = IF r = 0 THEN EmptySnapshot ELSE m[r]
      /\ aReader' = [i \in Slots |-> IF i = 1 THEN aSnap1'.iId ELSE 0]
      /\ disk' = [b \in Blocks |-> IF b \in lostBlocks THEN 0 ELSE disk[b]]
  BY SMTT(40), <1>1
<1>5. \/ lapse' = lapse /\ \A b \in DOMAIN aSnap1'.lvl : disk'[b] = aSnap1'.lvl[b]
      \/ lapse' = "recovery"
  BY <1>1 DEF Intact
<1> HIDE DEF m, r
<1>6. /\ r \in 0..2
      /\ r # 0 => m[r] \in Snapshots /\ m[r] # None
      /\ \A i \in 1..2 : m[i] # None => r # 0 /\ m[i].iId <= m[r].iId
  BY <1>0, <1>2, RecoverFacts DEF r
<1>7. aSnap1' \in Snapshots
  BY <1>0, <1>4, <1>6, FleetFacts, FirstSnapshots DEF Snapshots
<1>8. aSnap1'.iId \in Nat
  BY <1>0, <1>7, OwnSnapshot
<1>9. aReader' \in [Slots -> Nat] /\ disk' \in [Blocks -> Nat]
  BY <1>0, <1>4, <1>8
<1>10. /\ UNCHANGED fleet /\ metaDirty' = {} /\ lock' = [i \in Slots |-> {}]
       /\ rd' = [c \in Readers |-> IdleReader]
       /\ worker' = NoConn /\ wk' = IdleWorker
       /\ ckptr' = NoConn /\ ck' = IdleCkpt
  BY DEF Crash
<1>11. aSnap1' = EmptySnapshot \/ \E i \in 1..2 : aSnap1' = meta'[i] /\ meta'[i] # None
  BY SMTT(40), <1>4, <1>6
<1> QED
  BY <1>2, <1>3, <1>4, <1>5, <1>6, <1>7, <1>9, <1>10, <1>11

(* A crash leaves everything in order.                                       *)
LEMMA CrashControl ==
  ASSUME Control, Crash
  PROVE  Control'
<1>0. fleet \in Fleets /\ NoConn \notin Readers /\ UNCHANGED fleet
  BY LsmAssumption, CrashFacts DEF Control, TypeOK, Conns
<1>2. Snapshots' = Snapshots /\ OptSnapshots' = OptSnapshots /\ Blocks' = Blocks
  BY <1>0 DEF Snapshots, OptSnapshots, Blocks
<1>3. /\ ReaderStates' = ReaderStates /\ WorkerStates' = WorkerStates
      /\ CkptStates' = CkptStates
  BY <1>2 DEF ReaderStates, WorkerStates, CkptStates
<1>4. /\ IdleReader \in ReaderStates /\ IdleReader.pc = "idle"
      /\ IdleWorker \in WorkerStates /\ IdleWorker.pc = "idle"
      /\ IdleCkpt \in CkptStates /\ IdleCkpt.pc = "idle"
  BY SMTT(40), LsmAssumption
  DEF IdleReader, IdleWorker, IdleCkpt, ReaderStates, WorkerStates, CkptStates, OptSnapshots
<1>5. TypeOK'
  <2>1. (ShmType /\ FileType /\ LapseType /\ fleet \in Fleets)'
    BY <1>0, <1>2, CrashFacts DEF Control, TypeOK, ShmType, FileType, LapseType
  <2>2. (SlotType /\ ReaderType)'
    BY <1>3, <1>4, CrashFacts DEF SlotType, ReaderType
  <2>4. (WorkerType /\ CkptType)'
    BY <1>3, <1>4, CrashFacts DEF WorkerType, CkptType
  <2> QED
    BY <2>1, <2>2, <2>4 DEF TypeOK
<1>6. CopiesInOrder'
  <2>1. ChecksumOk(aSnap1')
    BY <1>0, CrashFacts, OwnSnapshot
  <2> QED
    BY <1>2, <1>4, <2>1, CrashFacts DEF CopiesInOrder, Working
<1>7. MetaInOrder'
  BY <1>2, <1>4, CrashFacts DEF MetaInOrder
<1>8. ReadersInOrder'
  BY <1>0, <1>2, <1>4, CrashFacts DEF ReadersInOrder, Searching
<1> QED
  BY <1>5, <1>6, <1>7, <1>8 DEF Control

(* The steps, by who takes them.                                             *)
LEMMA NextCases ==
  ASSUME fleet \in Fleets, Next
  PROVE  \/ \E c \in Readers : ReaderStep(c)
         \/ \E c \in Readers \cup Workers : WorkerStep(c)
         \/ \E c \in Checkpointers : CkptStep(c)
         \/ \E c \in Conns : Die(c)
         \/ Crash
<1>1. fleet.conns \subseteq Conns
  BY FleetFacts
<1> QED
  BY <1>1 DEF Next, ReaderStep, WorkerStep, CkptStep

(* Every step keeps the variables in their ranges and the parties in order.  *)
LEMMA NextControl ==
  ASSUME Control, [Next]_vars
  PROVE  Control'
<1>1. CASE Next
  <2>1. fleet \in Fleets
    BY DEF Control, TypeOK
  <2> QED
    BY <1>1, <2>1, NextCases, ReaderControl, WorkerControl, CkptControl, DieControl,
       CrashControl
<1>2. CASE UNCHANGED vars
  <2>1. /\ UNCHANGED <<aSnap1, aSnap2, iMetaPage, meta, metaDirty, disk, diskDirty>>
        /\ UNCHANGED <<aReader, lock, rd, worker, wk, ckptr, ck, fleet, lapse>>
    BY <1>2 DEF vars, shm, file, slots
  <2>2. Snapshots' = Snapshots /\ OptSnapshots' = OptSnapshots /\ Blocks' = Blocks
    BY <2>1 DEF Snapshots, OptSnapshots, Blocks
  <2>3. /\ ReaderStates' = ReaderStates /\ WorkerStates' = WorkerStates
        /\ CkptStates' = CkptStates
    BY <2>2 DEF ReaderStates, WorkerStates, CkptStates
  <2>4. TypeOK'
    BY <2>1, <2>2, <2>3
    DEF Control, TypeOK, ShmType, FileType, SlotType, ReaderType, WorkerType, CkptType,
        LapseType
  <2>5. CopiesInOrder'
    BY <2>1, <2>2 DEF Control, CopiesInOrder
  <2>6. ReadersInOrder' /\ MetaInOrder'
    BY <2>1, <2>2 DEF Control, ReadersInOrder, MetaInOrder
  <2> QED
    BY <2>4, <2>5, <2>6 DEF Control
<1> QED
  BY <1>1, <1>2

(* What a worker makes of the two copies.                                    *)
LEMMA WorkerPublishes ==
  ASSUME Control, NEW c \in Readers \cup Workers, WorkerStep(c)
  PROVE  /\ \/ aSnap1' = aSnap1
            \/ wk.pc = "idle" /\ aSnap1' = Current
            \/ wk.pc = "barrier" /\ aSnap1' = Torn(wk.p.iId)
            \/ wk.pc = "save1" /\ aSnap1' = wk.p
         /\ \/ aSnap2' = aSnap2
            \/ wk.pc = "idle" /\ aSnap2' = Current
            \/ wk.pc = "work" /\ aSnap2' = Torn(wk.p.iId + 1)
            \/ wk.pc = "save2" /\ aSnap2' = wk.p
         /\ \/ Current' = Current
            \/ wk.pc = "barrier" /\ Current' = wk.p
<1>0. fleet \in Fleets /\ c \in Conns /\ c # NoConn
  BY LsmAssumption DEF Control, TypeOK, Conns
<1>1. BeginWork(c) => wk.pc = "idle"
  BY DEF BeginWork, Control, CopiesInOrder
<1>2. /\ \/ aSnap1' = aSnap1
         \/ wk.pc = "idle" /\ aSnap1' = Current /\ aSnap2' = Current
         \/ wk.pc = "barrier" /\ aSnap1' = Torn(wk.p.iId) /\ aSnap2' = aSnap2
         \/ wk.pc = "save1" /\ aSnap1' = wk.p /\ aSnap2' = aSnap2
      /\ \/ aSnap2' = aSnap2
         \/ wk.pc = "idle" /\ aSnap2' = Current /\ aSnap1' = Current
         \/ wk.pc = "work" /\ aSnap2' = Torn(wk.p.iId + 1)
         \/ wk.pc = "save2" /\ aSnap2' = wk.p
  BY <1>1
  DEF WorkerStep, BeginWork, AllocateBlock, ReadSynced, ScanSlot, ScanLock, WriteBlock,
      MoveBlock, FreeBlock, SaveWorker, SavedSnap2, SaveSnap1, SavedSnap1, FinishWork,
      AbandonWork, shm, Current
<1>3. /\ wk.pc # "idle" => wk.p.iId \in Nat \ {0} /\ ChecksumOk(wk.p)
      /\ ChecksumOk(Current)
  BY <1>0, OwnSnapshot DEF Control, CopiesInOrder, Current
<1>4. wk.pc = "barrier" => ~ChecksumOk(Torn(wk.p.iId))
  BY <1>0, <1>3, CopyWhole
<1>5. Current' = Current \/ (wk.pc = "barrier" /\ Current' = wk.p)
  BY <1>2, <1>3, <1>4 DEF Current, Control, CopiesInOrder, Working
<1> QED
  BY <1>2, <1>5
=============================================================================

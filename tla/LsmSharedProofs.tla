--------------------------- MODULE LsmSharedProofs ---------------------------
(***************************************************************************)
(* That the snapshots, the read-lock slots, the blocks and the meta pages  *)
(* of lsm keep their promises for every number of connections, slots and   *)
(* blocks.                                                                 *)
(***************************************************************************)
EXTENDS LsmSharedOrder

USE ZenonT(40)

-----------------------------------------------------------------------------
(* Blocks.  A block of a snapshot that can still be used is in the levels of *)
(* the snapshot that the next worker starts from, and of the one the worker  *)
(* builds, or it is on their free lists with an id that keeps it from being  *)
(* recycled.                                                                 *)

Keeps(p, s) ==
  \A b \in DOMAIN s.lvl :
    \/ b \in DOMAIN p.lvl /\ p.lvl[b] = s.lvl[b]
    \/ b \in DOMAIN p.free /\ p.free[b] >= s.iId

Safe(s) == Intact(s) /\ Keeps(Current, s) /\ (wk.pc # "idle" => Keeps(wk.p, s))

(* The least id that the check of the snapshot loaded may find published.    *)
PubId == IF ChecksumOk(aSnap1) THEN aSnap1.iId ELSE aSnap1.torn - 1

BlocksSafe ==
  lapse = None =>
    /\ Safe(Current)
    /\ ChecksumOk(aSnap2) => Intact(aSnap2)
    /\ wk.pc # "idle" => Intact(wk.p)
    /\ \A c \in Readers : \A s \in {rd[c].snap, rd[c].client} \ {None} :
         s.iId >= PubId => Safe(s)
    /\ \A c \in Readers : Reading(c) => Safe(rd[c].client)

(* A worker writes to no block of a snapshot that is not older than its      *)
(* bound, and goes on keeping its blocks.                                    *)
LEMMA WrittenKeeps ==
  ASSUME Control, AllAccounted, NEW c \in Readers \cup Workers, Scanned(c),
         NEW b \in Blocks, Written(b), wk.iInUse <= wk.p.iId,
         NEW s \in Snapshots, Keeps(wk.p, s),
         wk.iInUse <= s.iId, s.iId <= wk.p.iId
  PROVE  b \notin DOMAIN s.lvl /\ Keeps(wk'.p, s)
<1>0. /\ fleet \in Fleets /\ wk \in WorkerStates /\ c # NoConn /\ c \in Conns
      /\ fleet.maxBlock \in Nat
  BY LsmAssumption DEF Control, TypeOK, WorkerType, Conns
<1>1. wk.p \in Snapshots /\ AccountedIn(wk.p) /\ wk.iInUse \in Nat
  BY <1>0 DEF Scanned, Control, CopiesInOrder, AllAccounted, WorkerStates
<1>2. /\ wk.p.nBlock \in Nat /\ wk.p.iId \in Nat /\ s.iId \in Nat
      /\ DOMAIN s.lvl \subseteq Blocks
      /\ DOMAIN wk.p.lvl \subseteq Blocks
      /\ DOMAIN wk.p.free \subseteq Blocks /\ wk.p.free \in [DOMAIN wk.p.free -> Nat]
  BY SMTT(40), <1>0, <1>1, OwnSnapshot
<1>3. b \notin DOMAIN wk.p.lvl /\ (b \in DOMAIN wk.p.free => wk.p.free[b] < wk.iInUse)
  <2>1. CASE b \in Recyclable
    BY <1>1, <2>1 DEF Recyclable, AccountedIn
  <2>2. CASE b = wk.p.nBlock + 1
    BY SMTT(40), <1>1, <1>2, <2>2 DEF AccountedIn
  <2> QED
    BY <2>1, <2>2 DEF Written
<1>4. b \notin DOMAIN s.lvl
  <2>1. b \in DOMAIN wk.p.free => wk.p.free[b] \in Nat
    BY <1>2
  <2>2. ~(b \in DOMAIN wk.p.free /\ wk.p.free[b] >= s.iId)
    BY SMTT(40), <1>1, <1>2, <1>3, <2>1
  <2> QED
    BY <1>3, <2>2 DEF Keeps
<1> DEFINE q == WithBlock(wk.p, b)
<1>5. /\ q \in Snapshots /\ q.iId = wk.p.iId
      /\ DOMAIN q.lvl = DOMAIN wk.p.lvl \cup {b}
      /\ \A x \in DOMAIN wk.p.lvl \ {b} : q.lvl[x] = wk.p.lvl[x]
      /\ DOMAIN q.free = DOMAIN wk.p.free \ {b}
      /\ \A x \in DOMAIN q.free : q.free[x] = wk.p.free[x]
  BY SMTT(40), <1>0, <1>1, WithBlockFields DEF Snapshots, Blocks
<1> HIDE DEF q
<1>6. Keeps(q, s)
  <2>1. SUFFICES ASSUME NEW x \in DOMAIN s.lvl
                 PROVE  \/ x \in DOMAIN q.lvl /\ q.lvl[x] = s.lvl[x]
                        \/ x \in DOMAIN q.free /\ q.free[x] >= s.iId
    BY DEF Keeps
  <2>2. x # b
    BY <1>4, <2>1
  <2>3. \/ x \in DOMAIN wk.p.lvl /\ wk.p.lvl[x] = s.lvl[x]
        \/ x \in DOMAIN wk.p.free /\ wk.p.free[x] >= s.iId
    BY <2>1 DEF Keeps
  <2> QED
    BY SMTT(40), <1>5, <2>2, <2>3
<1>7. CASE wk'.p = q
  BY <1>4, <1>6, <1>7
<1>8. CASE wk'.p = WithoutBlock(q, wk.iBefore) /\ wk.iBefore \in DOMAIN wk.p.lvl
  <2> DEFINE r == WithoutBlock(q, wk.iBefore)
  <2>1. wk.iBefore \in Blocks
    BY <1>2, <1>8
  <2>2. /\ DOMAIN r.lvl = DOMAIN q.lvl \ {wk.iBefore}
        /\ \A x \in DOMAIN r.lvl : r.lvl[x] = q.lvl[x]
        /\ DOMAIN r.free = DOMAIN q.free \cup {wk.iBefore}
        /\ r.free[wk.iBefore] = q.iId
        /\ \A x \in DOMAIN q.free \ {wk.iBefore} : r.free[x] = q.free[x]
    BY SMTT(40), <1>0, <1>5, <2>1, WithoutBlockFields DEF Snapshots, Blocks
  <2> HIDE DEF r
  <2>3. Keeps(r, s)
    <3>1. SUFFICES ASSUME NEW x \in DOMAIN s.lvl
                   PROVE  \/ x \in DOMAIN r.lvl /\ r.lvl[x] = s.lvl[x]
                          \/ x \in DOMAIN r.free /\ r.free[x] >= s.iId
      BY DEF Keeps
    <3>2. \/ x \in DOMAIN q.lvl /\ q.lvl[x] = s.lvl[x]
          \/ x \in DOMAIN q.free /\ q.free[x] >= s.iId
      BY <1>6, <3>1 DEF Keeps
    <3>3. CASE x = wk.iBefore
      BY <1>2, <1>5, <2>2, <3>3
    <3>4. CASE x # wk.iBefore
      BY <2>2, <3>2, <3>4
    <3> QED
      BY <3>3, <3>4
  <2> QED
    BY <1>4, <1>8, <2>3 DEF r
<1> QED
  BY <1>7, <1>8 DEF Written, q

(* A block that is freed is kept for every snapshot up to the one that the   *)
(* worker started from.                                                      *)
LEMMA FreedKeeps ==
  ASSUME fleet \in Fleets, NEW p \in Snapshots, NEW b \in DOMAIN p.lvl,
         NEW s \in Snapshots, Keeps(p, s), s.iId <= p.iId,
         NEW q, q = WithoutBlock(p, b)
  PROVE  Keeps(q, s)
<1>1. b \in Blocks /\ p.iId \in Nat /\ s.iId \in Nat /\ fleet.maxBlock \in Nat
  BY OwnSnapshot, FleetFacts
<1>2. /\ DOMAIN q.lvl = DOMAIN p.lvl \ {b}
      /\ \A x \in DOMAIN q.lvl : q.lvl[x] = p.lvl[x]
      /\ DOMAIN q.free = DOMAIN p.free \cup {b}
      /\ q.free[b] = p.iId
      /\ \A x \in DOMAIN p.free \ {b} : q.free[x] = p.free[x]
  BY SMTT(40), <1>1, WithoutBlockFields DEF Snapshots, Blocks
<1>3. SUFFICES ASSUME NEW x \in DOMAIN s.lvl
               PROVE  \/ x \in DOMAIN q.lvl /\ q.lvl[x] = s.lvl[x]
                      \/ x \in DOMAIN q.free /\ q.free[x] >= s.iId
  BY DEF Keeps
<1>4. \/ x \in DOMAIN p.lvl /\ p.lvl[x] = s.lvl[x]
      \/ x \in DOMAIN p.free /\ p.free[x] >= s.iId
  BY <1>3 DEF Keeps
<1>5. CASE x = b
  BY <1>1, <1>2, <1>5
<1>6. CASE x # b
  BY <1>2, <1>4, <1>6
<1> QED
  BY <1>5, <1>6

(* A worker keeps safe what is not older than its bound.                     *)
LEMMA WorkerKeepsSafe ==
  ASSUME Control, AllAccounted, NEW c \in Readers \cup Workers, WorkerStep(c),
         NEW s \in Snapshots, Safe(s), s.iId <= Current.iId,
         Scanned(c) => wk.iInUse <= wk.p.iId /\ wk.iInUse <= s.iId
  PROVE  Safe(s)'
<1>0. /\ fleet \in Fleets /\ wk \in WorkerStates /\ c # NoConn /\ c \in Conns
      /\ disk \in [Blocks -> Nat]
  BY LsmAssumption DEF Control, TypeOK, WorkerType, Conns, FileType
<1>1. /\ Intact(s) /\ Keeps(Current, s)
      /\ wk.pc # "idle" => Keeps(wk.p, s) /\ wk.p \in Snapshots
  BY DEF Safe, Control, CopiesInOrder
<1>2. Keeps(Current, s)'
  <2>1. Current' = Current \/ (wk.pc = "barrier" /\ Current' = wk.p)
    BY WorkerPublishes
  <2>2. Keeps(Current', s)
    BY <1>1, <2>1
  <2> QED
    BY <2>2 DEF Keeps
<1>3. wk.pc \in {"work", "scan"} => s.iId <= wk.p.iId
  BY DEF Control, CopiesInOrder, Working, Current
<1>4. CASE Scanned(c) /\ \E b \in Blocks : Written(b)
  <2>1. PICK b \in Blocks : Written(b)
    BY <1>4
  <2>2. b \notin DOMAIN s.lvl /\ Keeps(wk'.p, s)
    BY <1>1, <1>3, <1>4, <2>1, WrittenKeeps DEF Scanned
  <2>3. disk' = [disk EXCEPT ![b] = Building]
    BY <2>1 DEF Written
  <2>4. DOMAIN s.lvl \subseteq Blocks
    BY <1>0, OwnSnapshot
  <2>5. Intact(s)'
    BY <1>0, <1>1, <2>2, <2>3, <2>4 DEF Intact
  <2>6. Keeps(wk.p, s)'
    BY <2>2 DEF Keeps
  <2> QED
    BY <1>2, <2>5, <2>6 DEF Safe
<1>5. CASE UNCHANGED disk
  <2>1. Intact(s)'
    BY <1>1, <1>5 DEF Intact
  <2>2. wk'.pc # "idle" => Keeps(wk'.p, s)
    <3>1. CASE wk.pc = "idle" /\ wk'.p = Current
      BY <1>1, <3>1
    <3>2. CASE wk.pc # "idle" /\ wk'.p = wk.p
      BY <1>1, <3>2
    <3>3. CASE wk.pc = "work" /\ \E b \in DOMAIN wk.p.lvl : wk'.p = WithoutBlock(wk.p, b)
      BY <1>0, <1>1, <1>3, <3>3, FreedKeeps
    <3>4. CASE wk.pc = "work" /\ wk'.p = [wk.p EXCEPT !.iId = @ + 1]
      <4>1. wk'.p.lvl = wk.p.lvl /\ wk'.p.free = wk.p.free
        BY SMTT(40), <1>0, <1>1, <3>4, FleetFacts, NextIdFields DEF Snapshots
      <4> QED
        BY <1>1, <3>4, <4>1 DEF Keeps
    <3> QED
      BY <1>4, <3>1, <3>2, <3>3, <3>4, WorkerSnapshot DEF Safe, Keeps
  <2>3. wk'.pc # "idle" => Keeps(wk.p, s)'
    BY <2>2 DEF Keeps
  <2> QED
    BY <1>2, <2>1, <2>3 DEF Safe
<1> QED
  BY <1>4, <1>5, WorkerSnapshot

(* What a worker builds holds what is expected of it.                        *)
LEMMA WorkerIntact ==
  ASSUME Control, AllAccounted, NEW c \in Readers \cup Workers, WorkerStep(c),
         wk.pc # "idle" => Intact(wk.p), Intact(Current), wk'.pc # "idle"
  PROVE  Intact(wk.p)'
<1>0. /\ fleet \in Fleets /\ wk \in WorkerStates /\ c # NoConn /\ c \in Conns
      /\ disk \in [Blocks -> Nat] /\ fleet.maxBlock \in Nat
  BY LsmAssumption DEF Control, TypeOK, WorkerType, Conns, FileType
<1>1. wk.pc # "idle" => wk.p \in Snapshots /\ AccountedIn(wk.p)
  BY DEF Control, CopiesInOrder, AllAccounted
<1>2. CASE Scanned(c) /\ \E b \in Blocks : Written(b)
  <2>1. PICK b \in Blocks : Written(b)
    BY <1>2
  <2>2. wk.pc # "idle"
    BY <1>2 DEF Scanned
  <2>3. /\ DOMAIN wk.p.lvl \subseteq Blocks /\ wk.p.nBlock \in Nat
        /\ \A x \in DOMAIN wk.p.lvl : disk[x] = wk.p.lvl[x]
    BY SMTT(40), <1>0, <1>1, <2>2, OwnSnapshot DEF Intact
  <2>4. disk' = [disk EXCEPT ![b] = wk.p.iId + 1]
    BY <2>1 DEF Written, Building
  <2> DEFINE q == WithBlock(wk.p, b)
  <2>5. /\ q \in Snapshots /\ DOMAIN q.lvl = DOMAIN wk.p.lvl \cup {b}
        /\ q.lvl[b] = wk.p.iId + 1
        /\ \A x \in DOMAIN wk.p.lvl \ {b} : q.lvl[x] = wk.p.lvl[x]
    BY SMTT(40), <1>0, <1>1, <2>2, WithBlockFields DEF Snapshots, Blocks
  <2> HIDE DEF q
  <2>6. \A x \in DOMAIN q.lvl : disk'[x] = q.lvl[x]
    BY <1>0, <2>3, <2>4, <2>5
  <2>7. CASE wk'.p = q
    BY <2>6, <2>7 DEF Intact
  <2>8. CASE wk'.p = WithoutBlock(q, wk.iBefore) /\ wk.iBefore \in DOMAIN wk.p.lvl
    <3>1. wk.iBefore \in Blocks
      BY <2>3, <2>8
    <3>2. /\ DOMAIN wk'.p.lvl = DOMAIN q.lvl \ {wk.iBefore}
          /\ \A x \in DOMAIN wk'.p.lvl : wk'.p.lvl[x] = q.lvl[x]
      BY SMTT(40), <1>0, <2>5, <2>8, <3>1, WithoutBlockFields DEF Snapshots, Blocks
    <3> QED
      BY <2>6, <3>2 DEF Intact
  <2> QED
    BY <2>1, <2>7, <2>8 DEF Written, q
<1>3. CASE UNCHANGED disk
  <2>1. ASSUME NEW p, Intact(p), DOMAIN wk'.p.lvl \subseteq DOMAIN p.lvl,
               \A x \in DOMAIN wk'.p.lvl : wk'.p.lvl[x] = p.lvl[x]
        PROVE  Intact(wk.p)'
    BY <1>3, <2>1 DEF Intact
  <2>2. CASE wk.pc = "idle" /\ wk'.p = Current
    BY <2>1, <2>2
  <2>3. CASE wk.pc # "idle" /\ wk'.p = wk.p
    BY <2>1, <2>3
  <2>4. CASE wk.pc = "work" /\ \E b \in DOMAIN wk.p.lvl : wk'.p = WithoutBlock(wk.p, b)
    <3>1. PICK b \in DOMAIN wk.p.lvl : wk'.p = WithoutBlock(wk.p, b)
      BY <2>4
    <3>2. b \in 1..fleet.maxBlock /\ wk.p \in SnapshotsOf(fleet.maxBlock)
      BY <1>0, <1>1, <2>4, OwnSnapshot DEF Blocks, Snapshots
    <3>3. /\ DOMAIN wk'.p.lvl = DOMAIN wk.p.lvl \ {b}
          /\ \A x \in DOMAIN wk'.p.lvl : wk'.p.lvl[x] = wk.p.lvl[x]
      BY SMTT(40), <1>0, <3>1, <3>2, WithoutBlockFields
    <3> QED
      BY <2>1, <2>4, <3>3
  <2>5. CASE wk.pc = "work" /\ wk'.p = [wk.p EXCEPT !.iId = @ + 1]
    <3>1. wk'.p.lvl = wk.p.lvl
      BY SMTT(40), <1>0, <1>1, <2>5, NextIdFields DEF Snapshots
    <3> QED
      BY <2>1, <2>5, <3>1
  <2> QED
    BY <1>2, <2>2, <2>3, <2>4, <2>5, WorkerSnapshot
<1> QED
  BY <1>2, <1>3, WorkerSnapshot

(* The blocks of the first snapshot are as it was written.                   *)
LEMMA InitSafe ==
  ASSUME Init
  PROVE  BlocksSafe
<1>1. fleet \in Fleets
  BY DEF Init
<1>2. OneBlock.lvl = <<2>> /\ OneBlock.iId = 2 /\ fleet.maxBlock \in Nat \ {0}
  BY <1>1, FleetFacts, FirstSnapshots
<1>3. Current = OneBlock /\ aSnap2 = OneBlock /\ wk.pc = "idle"
  BY DEF Init, Current, IdleWorker
<1>4. disk[1] = 2
  BY SMTT(40), <1>2 DEF Init, Blocks
<1>5. Intact(OneBlock)
  BY SMTT(40), <1>2, <1>4 DEF Intact
<1>6. Keeps(OneBlock, OneBlock)
  BY DEF Keeps
<1>7. \A c \in Readers : rd[c].snap = None /\ rd[c].client = None /\ rd[c].pc = "idle"
  BY DEF Init, IdleReader
<1> QED
  BY <1>3, <1>5, <1>6, <1>7 DEF BlocksSafe, Safe, Reading, InReadTrans

(* The numbers of the two copies.                                            *)
LEMMA PubIdFacts ==
  ASSUME Control
  PROVE  /\ PubId \in Nat /\ PubId <= Current.iId /\ Current.iId \in Nat
         /\ wk.pc \in Working => PubId = wk.p.iId
<1>1. /\ fleet \in Fleets /\ aSnap1 \in Snapshots \cup TornCopies
      /\ aSnap2 \in Snapshots \cup TornCopies
  BY DEF Control, TypeOK, ShmType
<1>2. CASE ChecksumOk(aSnap1)
  <2>1. aSnap1.iId \in Nat
    BY <1>1, <1>2, CopyWhole, OwnSnapshot
  <2> QED
    BY SMTT(40), <1>2, <2>1 DEF PubId, Current, Control, CopiesInOrder
<1>3. CASE ~ChecksumOk(aSnap1)
  <2>1. aSnap1.torn = aSnap2.iId /\ aSnap1.torn \in Nat \ {0} /\ wk.pc \notin Working
    BY <1>1, <1>3, CopyWhole DEF Control, CopiesInOrder
  <2> QED
    BY SMTT(40), <1>3, <2>1 DEF PubId, Current
<1> QED
  BY <1>2, <1>3

(* The least id that may be found published never goes back, but for a crash. *)
LEMMA WorkerPubId ==
  ASSUME Control, NEW c \in Readers \cup Workers, WorkerStep(c)
  PROVE  PubId' \in Nat /\ PubId <= PubId'
<1>1. /\ fleet \in Fleets /\ PubId \in Nat /\ PubId <= Current.iId
      /\ Current.iId \in Nat /\ Current \in Snapshots
  BY PubIdFacts, CurrentPublished
<1>2. CASE aSnap1' = aSnap1
  <2>1. PubId' = PubId
    BY <1>2 DEF PubId
  <2> QED
    BY SMTT(40), <1>1, <2>1
<1>3. CASE wk.pc = "idle" /\ aSnap1' = Current
  <2>1. PubId' = Current.iId
    BY <1>1, <1>3, OwnSnapshot DEF PubId
  <2> QED
    BY <1>1, <2>1
<1>4. CASE wk.pc = "barrier" /\ aSnap1' = Torn(wk.p.iId)
  <2>1. ChecksumOk(aSnap1) /\ wk.p.iId = aSnap1.iId + 1 /\ wk.p \in Snapshots
    BY <1>4 DEF Control, CopiesInOrder
  <2>2. wk.p.iId \in Nat \ {0}
    BY <1>1, <2>1, OwnSnapshot
  <2>3. ~ChecksumOk(aSnap1') /\ aSnap1'.torn = wk.p.iId
    BY <1>1, <1>4, <2>2, CopyWhole
  <2>4. PubId = aSnap1.iId /\ PubId' = wk.p.iId - 1
    BY <2>1, <2>3 DEF PubId
  <2> QED
    BY SMTT(40), <1>1, <2>1, <2>2, <2>4
<1>5. CASE wk.pc = "save1" /\ aSnap1' = wk.p
  <2>1. ~ChecksumOk(aSnap1) /\ aSnap2 = wk.p /\ aSnap1.torn = aSnap2.iId /\ wk.p \in Snapshots
    BY <1>5 DEF Control, CopiesInOrder
  <2>2. wk.p.iId \in Nat /\ ChecksumOk(wk.p)
    BY <1>1, <2>1, OwnSnapshot
  <2>3. PubId = wk.p.iId - 1 /\ PubId' = wk.p.iId
    BY <1>5, <2>1, <2>2 DEF PubId
  <2> QED
    BY SMTT(40), <2>2, <2>3
<1> QED
  BY <1>2, <1>3, <1>4, <1>5, WorkerPublishes

(* A transaction is opened with an id that may be found published.           *)
LEMMA OpensPublished ==
  ASSUME Control, NEW c \in Readers, ReaderStep(c), rd'[c].pc = "open"
  PROVE  rd'[c].client = rd[c].snap /\ rd[c].snap \in Snapshots /\ rd[c].snap.iId >= PubId
<1>1. /\ fleet \in Fleets /\ aSnap1 \in Snapshots \cup TornCopies
      /\ aSnap2 \in Snapshots \cup TornCopies
  BY DEF Control, TypeOK, ShmType
<1>2. /\ rd[c].pc = "verify" /\ rd'[c].client = rd[c].snap
      /\ MayHaveId(aSnap1, rd[c].snap.iId) \/ MayHaveId(aSnap2, rd[c].snap.iId)
  BY ReaderOpens
<1>3. rd[c].snap \in Snapshots
  BY <1>2 DEF Control, ReadersInOrder, Searching
<1>4. rd[c].snap.iId \in Nat
  BY <1>1, <1>3, OwnSnapshot
<1>5. /\ ChecksumOk(aSnap1) => aSnap1.iId \in Nat
      /\ ~ChecksumOk(aSnap1) => aSnap1.torn \in Nat \ {0}
      /\ ChecksumOk(aSnap2) => aSnap2.iId \in Nat
      /\ ~ChecksumOk(aSnap2) => aSnap2.torn \in Nat \ {0}
  BY <1>1, CopyWhole, OwnSnapshot
<1>6. /\ ChecksumOk(aSnap1) \/ ChecksumOk(aSnap2)
      /\ ~ChecksumOk(aSnap1) => aSnap1.torn = aSnap2.iId
      /\ ChecksumOk(aSnap1) /\ ~ChecksumOk(aSnap2) => aSnap2.torn = aSnap1.iId + 1
      /\ ChecksumOk(aSnap1) /\ ChecksumOk(aSnap2) =>
           aSnap1.iId = aSnap2.iId \/ aSnap2.iId = aSnap1.iId + 1
  BY DEF Control, CopiesInOrder
<1>7. rd[c].snap.iId >= PubId
  <2>1. CASE ChecksumOk(aSnap1)
    BY SMTT(40), <1>2, <1>4, <1>5, <1>6, <2>1 DEF PubId, MayHaveId
  <2>2. CASE ~ChecksumOk(aSnap1)
    BY SMTT(40), <1>2, <1>4, <1>5, <1>6, <2>2 DEF PubId, MayHaveId
  <2> QED
    BY <2>1, <2>2
<1> QED
  BY <1>2, <1>3, <1>7

(* A step of a worker keeps the blocks safe.                                 *)
LEMMA WorkerSafe ==
  ASSUME Control, AllAccounted, IdsInOrder, SlotsHeld, ScanBounded, BlocksSafe,
         NEW c \in Readers \cup Workers, WorkerStep(c), lapse' = None
  PROVE  BlocksSafe'
<1>0. /\ lapse = None /\ fleet \in Fleets /\ c # NoConn /\ c \in Conns
      /\ PubId \in Nat /\ PubId <= Current.iId /\ Current.iId \in Nat
      /\ PubId <= PubId' /\ PubId' \in Nat /\ Current \in Snapshots
  BY WorkerFrame, PubIdFacts, WorkerPubId, CurrentPublished, LsmAssumption
  DEF Control, TypeOK, Conns
<1>1. /\ Safe(Current)
      /\ ChecksumOk(aSnap2) => Intact(aSnap2)
      /\ wk.pc # "idle" => Intact(wk.p)
      /\ \A d \in Readers : \A s \in {rd[d].snap, rd[d].client} \ {None} :
           s.iId >= PubId => Safe(s)
      /\ \A d \in Readers : Reading(d) => Safe(rd[d].client)
  BY <1>0 DEF BlocksSafe
<1>2. Scanned(c) => /\ wk.iInUse <= wk.p.iId /\ wk.p.iId = PubId /\ wk.p.iId = Current.iId
                    /\ wk.iInUse \in Nat /\ aSnap2 = Current
  <2>1. SUFFICES ASSUME wk.pc = "scan"
                 PROVE  /\ wk.iInUse <= wk.p.iId /\ wk.p.iId = PubId
                        /\ wk.p.iId = Current.iId
                        /\ wk.iInUse \in Nat /\ aSnap2 = Current
    BY DEF Scanned
  <2> QED
    BY <1>0, <2>1, PubIdFacts
    DEF ScanBounded, Control, TypeOK, WorkerType, WorkerStates, CopiesInOrder, Current, Working
<1>3. ASSUME NEW s \in Snapshots, Safe(s), s.iId <= Current.iId,
             Scanned(c) => wk.iInUse <= s.iId
      PROVE  Safe(s)'
  BY <1>2, <1>3, WorkerKeepsSafe
<1>4. Safe(Current)'
  <2>1. CASE Current' = Current
    <3>1. Scanned(c) => wk.iInUse <= Current.iId
      BY <1>2
    <3>2. ASSUME NEW s, s = Current PROVE Safe(s)'
      BY SMTT(40), <1>0, <1>1, <1>3, <3>1, <3>2
    <3>3. ASSUME NEW s, s = Current, Safe(s)' PROVE Safe(Current)'
      BY <2>1, <3>3 DEF Safe, Keeps, Intact
    <3> QED
      BY <3>2, <3>3
  <2>2. CASE wk.pc = "barrier" /\ Current' = wk.p
    <3>1. SaveSnap1(c)
      BY <2>2 DEF WorkerStep, BeginWork, AllocateBlock, ReadSynced, ScanSlot, ScanLock,
         WriteBlock, MoveBlock, FreeBlock, SaveWorker, SavedSnap2, SavedSnap1, FinishWork,
         AbandonWork, Scanned, Control, CopiesInOrder
    <3>2. UNCHANGED disk /\ wk'.p = wk.p
      BY <3>1 DEF SaveSnap1, file, Control, TypeOK, WorkerType, WorkerStates
    <3>3. Intact(wk.p)
      BY <1>1, <2>2
    <3> QED
      BY <2>2, <3>2, <3>3 DEF Safe, Keeps, Intact
  <2> QED
    BY <2>1, <2>2, WorkerPublishes
<1>5. ChecksumOk(aSnap2)' => Intact(aSnap2)'
  <2>1. CASE Scanned(c) /\ aSnap2' = aSnap2
    <3>1. aSnap2 = Current /\ ChecksumOk(aSnap1)
      BY <1>2, <2>1 DEF Scanned, Control, CopiesInOrder, Working
    <3>2. CASE Current' = Current
      BY <1>4, <2>1, <3>1, <3>2 DEF Safe, Intact
    <3> QED
      BY <2>1, <3>2, WorkerPublishes DEF Scanned
  <2>2. CASE UNCHANGED disk
    <3>1. CASE aSnap2' = aSnap2
      BY <1>1, <2>2, <3>1 DEF Intact
    <3>2. CASE wk.pc = "idle" /\ aSnap2' = Current
      BY <1>1, <2>2, <3>2 DEF Intact, Safe
    <3>3. CASE wk.pc = "work" /\ aSnap2' = Torn(wk.p.iId + 1)
      BY <3>3 DEF ChecksumOk, Torn
    <3>4. CASE wk.pc = "save2" /\ aSnap2' = wk.p
      BY <1>1, <2>2, <3>4 DEF Intact
    <3> QED
      BY <3>1, <3>2, <3>3, <3>4, WorkerPublishes
  <2>3. UNCHANGED disk \/ Scanned(c)
    BY WorkerSnapshot
  <2>4. Scanned(c) => aSnap2' = aSnap2
    BY WorkerPublishes DEF Scanned
  <2> QED
    BY <2>1, <2>2, <2>3, <2>4
<1>6. wk'.pc # "idle" => Intact(wk.p)'
  BY <1>1, WorkerIntact DEF Safe
<1>7. ASSUME NEW d \in Readers, NEW s \in {rd'[d].snap, rd'[d].client} \ {None}, s.iId >= PubId'
      PROVE  Safe(s)'
  <2>1. s \in {rd[d].snap, rd[d].client, Current}
    BY <1>7, WorkerReaders, WorkerReloads
  <2>2. s \in LoadedBy \cup {Current}
    BY <1>7, <2>1 DEF LoadedBy
  <2>3. s \in Snapshots /\ s.iId <= Current.iId /\ s.iId \in Nat
    BY SMTT(40), <1>0, <2>2, LoadedSnapshots DEF IdsInOrder
  <2>4. s.iId >= PubId
    BY SMTT(40), <1>0, <1>7, <2>3
  <2>5. Safe(s)
    BY <1>1, <1>7, <2>1, <2>4
  <2>6. Scanned(c) => wk.iInUse <= s.iId
    BY SMTT(40), <1>0, <1>2, <2>3, <2>4
  <2> QED
    BY <1>3, <2>3, <2>5, <2>6
<1>8. ASSUME NEW d \in Readers, Reading(d)'
      PROVE  Safe(rd[d].client)'
  <2>1. d # c
    BY <1>8, WorkerHasWorked DEF Reading
  <2>2. rd'[d] = rd[d] /\ Reading(d)
    BY <1>8, <2>1, WorkerReaders DEF Reading, InReadTrans
  <2> DEFINE s == rd[d].client
  <2>3. s \in Snapshots /\ s.iId \in Nat /\ rd[d].iReader \in Slots
    BY <2>2, ReadingFacts
  <2>4. s \in LoadedBy
    BY <1>0, <2>3, OwnSnapshot DEF LoadedBy
  <2>5. s.iId <= Current.iId
    BY <1>0, <2>4 DEF IdsInOrder
  <2>6. Scanned(c) => wk.iInUse <= s.iId
    <3>1. SUFFICES ASSUME Scanned(c) PROVE wk.iInUse <= s.iId
      OBVIOUS
    <3>2. wk.pc = "scan" /\ wk.i > NREADER /\ wk.i \in Nat
      BY <3>1 DEF Scanned, Control, TypeOK, WorkerType, WorkerStates
    <3>3. rd[d].iReader < wk.i
      BY SMTT(40), <2>3, <3>2, LsmAssumption DEF Slots
    <3> QED
      BY <1>0, <2>2, <3>2, <3>3 DEF ScanBounded
  <2>7. Safe(s)
    BY <1>1, <2>2
  <2> HIDE DEF s
  <2>8. ASSUME NEW t, t = rd'[d].client, Safe(t)' PROVE Safe(rd[d].client)'
    BY <2>8 DEF Safe, Keeps, Intact
  <2> QED
    BY <1>3, <2>2, <2>3, <2>5, <2>6, <2>7, <2>8 DEF s
<1> QED
  BY <1>4, <1>5, <1>6, <1>7, <1>8 DEF BlocksSafe

(* A step of a reader keeps the blocks safe.                                 *)
LEMMA ReaderSafe ==
  ASSUME Control, BlocksSafe, NEW c \in Readers, ReaderStep(c), lapse' = None
  PROVE  BlocksSafe'
<1>0. /\ UNCHANGED <<aSnap1, aSnap2, disk, wk>> /\ lapse = None /\ fleet \in Fleets
      /\ rd \in [Readers -> ReaderStates]
  BY ReaderFrame, LsmAssumption DEF Control, TypeOK, ReaderType
<1>1. Current' = Current /\ PubId' = PubId
  BY <1>0 DEF Current, PubId
<1>2. ASSUME NEW s, Safe(s) PROVE Safe(s)'
  BY <1>0, <1>1, <1>2 DEF Safe, Intact, Keeps
<1>3. /\ Safe(Current)
      /\ ChecksumOk(aSnap2) => Intact(aSnap2)
      /\ wk.pc # "idle" => Intact(wk.p)
      /\ \A d \in Readers : \A s \in {rd[d].snap, rd[d].client} \ {None} :
           s.iId >= PubId => Safe(s)
      /\ \A d \in Readers : Reading(d) => Safe(rd[d].client)
  BY <1>0 DEF BlocksSafe
<1>4. PICK r \in ReaderStates :
        /\ rd' = [rd EXCEPT ![c] = r]
        /\ r.snap \in {rd[c].snap, rd[c].client, None, Current}
        /\ r.client \in {rd[c].snap, rd[c].client, None}
  BY ReaderOwnStep
<1>5. rd'[c] = r /\ \A d \in Readers : d # c => rd'[d] = rd[d]
  BY <1>0, <1>4
<1>6. Safe(Current)'
  BY <1>0, <1>1, <1>3 DEF Safe, Intact, Keeps
<1>7. /\ ChecksumOk(aSnap2)' => Intact(aSnap2)'
      /\ wk'.pc # "idle" => Intact(wk.p)'
  BY <1>0, <1>3 DEF Intact
<1>8. ASSUME NEW d \in Readers, NEW s \in {rd'[d].snap, rd'[d].client} \ {None}, s.iId >= PubId'
      PROVE  Safe(s)'
  <2>1. \/ s = Current
        \/ \E e \in Readers : s \in {rd[e].snap, rd[e].client} \ {None}
    BY <1>4, <1>5, <1>8
  <2>2. Safe(s)
    BY <1>1, <1>3, <1>8, <2>1
  <2> QED
    BY <1>2, <2>2
<1>9. ASSUME NEW d \in Readers, Reading(d)'
      PROVE  Safe(rd[d].client)'
  <2>1. Safe(rd'[d].client)
    <3>1. CASE d = c
      <4>1. /\ rd'[c].client = rd[c].snap /\ rd[c].snap \in Snapshots
            /\ rd[c].snap.iId >= PubId
        BY <1>9, <3>1, OpensPublished DEF Reading, InReadTrans
      <4>2. rd[c].snap # None
        BY <1>0, <4>1, OwnSnapshot
      <4> QED
        BY <1>3, <3>1, <4>1, <4>2
    <3>2. CASE d # c
      BY <1>3, <1>5, <1>9, <3>2 DEF Reading, InReadTrans
    <3> QED
      BY <3>1, <3>2
  <2> QED
    BY <1>0, <1>1, <2>1 DEF Safe, Intact, Keeps
<1> QED
  BY <1>6, <1>7, <1>8, <1>9 DEF BlocksSafe

(* The blocks stay safe.                                                     *)
LEMMA NextSafe ==
  ASSUME Control, AllAccounted, IdsInOrder, SlotsHeld, ScanBounded, BlocksSafe,
         [Next]_vars
  PROVE  BlocksSafe'
<1>0. fleet \in Fleets /\ rd \in [Readers -> ReaderStates]
  BY DEF Control, TypeOK, ReaderType
<1>1. SUFFICES ASSUME lapse' = None PROVE BlocksSafe'
  BY DEF BlocksSafe
<1>2. ASSUME lapse = None, UNCHANGED <<aSnap1, aSnap2, disk>>,
             wk' = wk \/ wk' = IdleWorker,
             \A d \in Readers : rd'[d] = rd[d] \/ rd'[d] = IdleReader
      PROVE  BlocksSafe'
  <2>1. Current' = Current /\ PubId' = PubId
    BY <1>2 DEF Current, PubId
  <2>2. wk'.pc # "idle" => wk' = wk
    BY SMTT(40), <1>2 DEF IdleWorker
  <2>3. ASSUME NEW s, Safe(s) PROVE Safe(s)'
    BY <1>2, <2>1, <2>2, <2>3 DEF Safe, Intact, Keeps
  <2>4. /\ Safe(Current)
        /\ ChecksumOk(aSnap2) => Intact(aSnap2)
        /\ wk.pc # "idle" => Intact(wk.p)
        /\ \A d \in Readers : \A s \in {rd[d].snap, rd[d].client} \ {None} :
             s.iId >= PubId => Safe(s)
        /\ \A d \in Readers : Reading(d) => Safe(rd[d].client)
    BY <1>2 DEF BlocksSafe
  <2>5. Safe(Current)'
    BY <1>2, <2>1, <2>2, <2>4 DEF Safe, Intact, Keeps
  <2>6. /\ ChecksumOk(aSnap2)' => Intact(aSnap2)'
        /\ wk'.pc # "idle" => Intact(wk.p)'
    BY <1>2, <2>2, <2>4 DEF Intact
  <2>7. \A d \in Readers : rd'[d] = rd[d] \/
          (rd'[d].snap = None /\ rd'[d].client = None /\ rd'[d].pc = "idle")
    BY SMTT(40), <1>2 DEF IdleReader
  <2>8. ASSUME NEW d \in Readers, NEW s \in {rd'[d].snap, rd'[d].client} \ {None},
               s.iId >= PubId'
        PROVE  Safe(s)'
    BY <2>1, <2>3, <2>4, <2>7, <2>8
  <2>9. ASSUME NEW d \in Readers, Reading(d)'
        PROVE  Safe(rd[d].client)'
    <3>1. rd'[d] = rd[d] /\ Reading(d)
      BY <2>7, <2>9 DEF Reading, InReadTrans
    <3> QED
      BY SMTT(40), <1>2, <2>1, <2>2, <2>4, <3>1 DEF Safe, Intact, Keeps
  <2> QED
    BY <2>5, <2>6, <2>8, <2>9 DEF BlocksSafe
<1>3. ASSUME NEW c \in Readers, ReaderStep(c) PROVE BlocksSafe'
  BY <1>1, <1>3, ReaderSafe
<1>4. ASSUME NEW c \in Readers \cup Workers, WorkerStep(c) PROVE BlocksSafe'
  BY <1>1, <1>4, WorkerSafe
<1>5. ASSUME NEW c \in Checkpointers, CkptStep(c) PROVE BlocksSafe'
  <2>1. lapse = None /\ UNCHANGED <<aSnap1, aSnap2, disk, wk, rd>>
    BY <1>1, <1>5, CkptFrame, LsmAssumption
  <2> QED
    BY <1>2, <2>1
<1>6. ASSUME NEW c \in Conns, Die(c) PROVE BlocksSafe'
  <2>1. /\ lapse = None /\ (wk' = wk \/ wk' = IdleWorker)
        /\ UNCHANGED <<aSnap1, aSnap2, disk>>
        /\ rd' = IF c \in Readers THEN [rd EXCEPT ![c] = IdleReader] ELSE rd
    BY <1>1, <1>6 DEF Die, shm, file
  <2>2. \A d \in Readers : rd'[d] = rd[d] \/ rd'[d] = IdleReader
    BY <1>0, <2>1
  <2> QED
    BY <1>2, <2>1, <2>2
<1>7. CASE Crash
  <2>1. /\ Current' = aSnap1' /\ aSnap2' = aSnap1' /\ wk' = IdleWorker
        /\ rd' = [c \in Readers |-> IdleReader]
        /\ \A b \in DOMAIN aSnap1'.lvl : disk'[b] = aSnap1'.lvl[b]
    BY <1>1, <1>7, CrashFacts, LsmAssumption DEF Current
  <2>2. wk'.pc = "idle"
    BY <2>1 DEF IdleWorker
  <2>3. \A d \in Readers : rd'[d].snap = None /\ rd'[d].client = None /\ rd'[d].pc = "idle"
    BY <2>1 DEF IdleReader
  <2>4. Safe(Current)' /\ Intact(aSnap2)'
    BY <2>1, <2>2 DEF Safe, Intact, Keeps
  <2> QED
    BY <2>2, <2>3, <2>4 DEF BlocksSafe, Reading, InReadTrans
<1>8. CASE UNCHANGED vars
  <2>1. UNCHANGED <<aSnap1, aSnap2, disk, wk, rd, lapse>>
    BY <1>8 DEF vars, shm, file
  <2> QED
    BY <1>1, <1>2, <2>1
<1> QED
  BY <1>0, <1>3, <1>4, <1>5, <1>6, <1>7, <1>8, NextCases

-----------------------------------------------------------------------------
(* The invariant, and what follows from it.                                  *)

SharedInv ==
  /\ Control /\ AllAccounted /\ IdsInOrder
  /\ SlotsHeld /\ ScanBounded /\ BlocksSafe

(* The inductive invariant of the snapshots and of the blocks holds in every *)
(* state that lsm_shared.c and lsm_ckpt.c reach, for any number of readers,  *)
(* workers, checkpointers, slots, blocks and snapshots.                      *)
THEOREM SharedInvariance == Spec => []SharedInv
<1>1. Init => SharedInv
  BY InitControl, InitAccounted, InitIds, InitSlots, InitScan, InitSafe DEF SharedInv
<1>2. SharedInv /\ [Next]_vars => SharedInv'
  BY NextControl, NextAccounted, NextIds, NextSlots, NextScan, NextSafe DEF SharedInv
<1> QED
  BY <1>1, <1>2, PTL DEF Spec

(* No block leaks and none is free and in use: lsmBlockAllocate(),           *)
(* lsmBlockFree() and the copies made of the snapshots keep the levels and   *)
(* the free list apart, and let them cover the file.                         *)
THEOREM BlocksAlwaysAccounted == Spec => []BlocksAccounted
<1>1. SharedInv => BlocksAccounted
  BY SMTT(40) DEF SharedInv, AllAccounted, AccountedIn, BlocksAccounted, Loaded
<1> QED
  BY <1>1, SharedInvariance, PTL

(* The id of a snapshot tells which snapshot it is, which is all that        *)
(* lsmCheckpointClientCacheOk() and lsmCheckpointLoadOk() look at.           *)
THEOREM IdsAlwaysUnique == Spec => []SameIdSameSnapshot
<1>1. SharedInv => SameIdSameSnapshot
  <2>1. SUFFICES ASSUME Control, IdsInOrder, lapse = None,
                        NEW s \in Loaded, NEW t \in Loaded, s.iId = t.iId
                 PROVE  s = t
    BY DEF SharedInv, SameIdSameSnapshot
  <2>2. /\ \A u, v \in LoadedBy \cup {Current} : u.iId = v.iId => u = v
        /\ \A u \in LoadedBy \cup {Current} : u.iId <= Current.iId /\ u.iId \in Nat
    BY SMTT(40), <2>1, LoadedSnapshots DEF IdsInOrder
  <2>3. Loaded \subseteq LoadedBy \cup {Current, aSnap2}
    BY DEF Loaded, LoadedBy, Published, Current
  <2>4. CASE aSnap2 = Current \/ ~ChecksumOk(aSnap2)
    <3>1. Loaded \subseteq LoadedBy \cup {Current}
      BY <2>4 DEF Loaded, LoadedBy, Published, Current
    <3> QED
      BY <2>1, <2>2, <3>1
  <2>5. CASE aSnap2 # Current /\ ChecksumOk(aSnap2)
    <3>1. aSnap2.iId = Current.iId + 1
      BY <2>1, <2>5 DEF Control, CopiesInOrder, Current
    <3>2. \A u \in LoadedBy \cup {Current} : u.iId # aSnap2.iId
      BY SMTT(40), <2>2, <3>1
    <3> QED
      BY <2>1, <2>2, <2>3, <3>2
  <2> QED
    BY <2>4, <2>5
<1> QED
  BY <1>1, SharedInvariance, PTL

(* One of the copies can always be loaded, and until one of the two races is *)
(* lost no worker recycles a block of either, and no recovery publishes a    *)
(* snapshot with a block missing.                                            *)
THEOREM PublishedAlwaysIntact == Spec => []PublishedIntact
<1>1. SharedInv => PublishedIntact
  BY CurrentPublished
  DEF SharedInv, BlocksSafe, PublishedIntact, Published, Safe, Current
<1> QED
  BY <1>1, SharedInvariance, PTL

(* The snapshot of an open read transaction stays whole for as long as the   *)
(* transaction is open, if the connection has not worked in it.              *)
THEOREM ClientAlwaysIntact == Spec => []ClientIntact
<1>1. SharedInv => ClientIntact
  BY DEF SharedInv, BlocksSafe, ClientIntact, Reading, Safe
<1> QED
  BY <1>1, SharedInvariance, PTL

(* A checkpoint that lsmCheckpointWrite() finished survives every crash, and *)
(* nothing older is ever published again.                                    *)
THEOREM CheckpointAlwaysSurvives == Spec => CheckpointSurvives
<1>1. ASSUME SharedInv, [Next]_vars
      PROVE  [lapse' = None /\ iMetaPage # 0 /\ ChecksumOk(aSnap1)'
                => aSnap1'.iId >= meta[iMetaPage].iId]_vars
  <2>1. SUFFICES ASSUME Next, lapse' = None, iMetaPage # 0, ChecksumOk(aSnap1)'
                 PROVE  aSnap1'.iId >= meta[iMetaPage].iId
    BY <1>1
  <2>2. /\ Control /\ IdsInOrder /\ iMetaPage \in 1..2
        /\ meta[iMetaPage] # None /\ iMetaPage \notin metaDirty
    BY SMTT(40), <1>1, <2>1 DEF SharedInv, Control, TypeOK, ShmType, MetaInOrder
  <2>3. meta[iMetaPage].iId \in Nat /\ Current.iId \in Nat
    BY <2>2, LoadedSnapshots
  <2>4. CASE Crash
    <3>1. meta'[iMetaPage] = meta[iMetaPage]
      BY <2>2, <2>4, CrashFacts
    <3>2. meta'[iMetaPage].iId <= aSnap1'.iId /\ aSnap1' \in Snapshots /\ fleet \in Fleets
      BY <2>2, <2>4, <3>1, CrashFacts DEF Control, TypeOK
    <3>3. aSnap1'.iId \in Nat
      BY <3>2, OwnSnapshot
    <3> QED
      BY <2>3, <3>1, <3>2, <3>3
  <2>5. CASE ~Crash
    <3>1. lapse = None /\ (Current' = Current \/ Current'.iId = Current.iId + 1)
      BY <2>1, <2>2, <2>5, LoadsCurrent
    <3>2. Current' = aSnap1'
      BY <2>1 DEF Current
    <3>3. meta[iMetaPage].iId <= Current.iId
      BY <2>2, <3>1 DEF IdsInOrder
    <3> QED
      BY SMTT(40), <2>3, <3>1, <3>2, <3>3
  <2> QED
    BY <2>4, <2>5
<1> QED
  BY <1>1, SharedInvariance, PTL DEF Spec, CheckpointSurvives
=============================================================================

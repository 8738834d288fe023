-------------------------------- MODULE LsmLog --------------------------------
(***************************************************************************)
(* The log file of an lsm database (lsm_log.c) with the write              *)
(* transactions, flushes, checkpoints and recovery that use it.            *)
(*                                                                         *)
(* The log is a file of cells, each of which holds one record.  Records    *)
(* are written to one end of a chain; a JUMP record continues the chain    *)
(* elsewhere in the file, at its start (wrapping round) or past a part     *)
(* that is still in use.  Of the cells in use the tree header keeps three  *)
(* regions.  A commit record carries a checksum of the whole chain before  *)
(* it.  The checksum is ideal: it is the list of the records themselves.   *)
(*                                                                         *)
(* A committed transaction is in the in-memory tree and in the log.  The   *)
(* tree is made old, flushed to the database file with the offset in the   *)
(* log up to which the file now holds everything, and the checkpointer     *)
(* copies that to a meta page, from where recovery starts to read the log. *)
(*                                                                         *)
(* Four things in the code defeat the scheme and are recorded in "lapse":  *)
(* rolling a transaction back that had wrapped the log ("wrap"), rolling   *)
(* back over a jump ("seek"), and lsm_flush(), which may export a log      *)
(* offset that was never one ("offset") and discards the tree even if it   *)
(* was not written ("busy").                                               *)
(***************************************************************************)
EXTENDS Integers, Sequences, FiniteSets, SequencesExt

CONSTANTS
  Cases,       \* the databases to look at, each a mode and a budget
  NCell,       \* size of the log file, in cells
  MIN_LOGWRAP, \* the log wraps when region 2 starts here or later
  SectorSize,  \* cells in a sector of the disk
  ReadSize,    \* cells read at a time (LOG_READ_SIZE)
  None

ASSUME LogAssumption ==
  /\ Cases \subseteq [mode : {"full", "normal", "nolog"},
                     left : [{"write", "trans", "work", "flush", "crash"} -> Nat]]
  /\ NCell \in Nat \ {0} /\ SectorSize \in Nat \ {0} /\ ReadSize \in Nat \ {0}
  /\ MIN_LOGWRAP \in Nat \ {0}

VARIABLES
  mode,     \* safety "full" or "normal", or "nolog": there is no log at all
  file,     \* the records in the log file
  prev,     \* for each cell, what it held before a write that is not synced
  hdr,      \* the tree header in shared memory
  client,   \* log offset of the snapshot of the open read transaction, or None
  tx,       \* the open write transaction, or None
  snap,     \* the published snapshot of the database file
  meta,     \* the snapshot on the current meta page, or None
  hist,     \* history: the transactions committed, each a sequence of writes
  cut,      \* history: the histories that a power failure has cut short
  lapse,    \* history: which of the four flaws has been met
  left      \* bound: how many writes, levels, merges, flushes, crashes may come

vars == <<mode, file, prev, hdr, client, tx, snap, meta, hist, cut, lapse, left>>

Cells == 0..(NCell - 1)
Eof == [t |-> "eof"]
Pad == [t |-> "pad"]
Write(x) == [t |-> "write", x |-> x]
Jump(to) == [t |-> "jump", x |-> to]
\* The header of a WRITE_CKSUM record; the write itself is in the next cell.
Cksum(ck) == [t |-> "cksum", ck |-> ck]
Commit(ck) == [t |-> "commit", ck |-> ck]

\* The first checksums: of an empty database, and the zeroes in a new header.
FirstCk == <<"1234">>
ZeroCk == <<"0">>

\* The checksum after the records recs: what they say, but for checksums.
Chain(ck, recs) ==
  ck \o [i \in DOMAIN recs |->
           IF "x" \in DOMAIN recs[i] THEN <<recs[i].t, recs[i].x>>
           ELSE <<recs[i].t, 0>>]

Region(s, e) == [iStart |-> s, iEnd |-> e]
NoRegion == Region(0, 0)

\* iOldLog: an offset, and a bit that differs from that of the snapshot.
LogOff(off, bit) == [off |-> off, bit |-> bit]

EmptySnapshot ==
  [iId |-> 1, log |-> LogOff(0, 0), ck |-> FirstCk, from |-> 0, n |-> 0]

\* lsmTreeInit(): a new header for the trees, which hold the transactions
\* after number "from".
TreeInit(aRegion, ck, iSnapshotId, from) ==
  [aRegion |-> aRegion, ck |-> ck, iSnapshotId |-> iSnapshotId,
   hasOld |-> FALSE, iOldLog |-> LogOff(0, 0), oldck |-> ZeroCk,
   oldFrom |-> 0, oldN |-> 0, newFrom |-> from]

Init ==
  /\ \E c \in Cases : mode = c.mode /\ left = c.left
  /\ file = [i \in Cells |-> Eof] /\ prev = file
  /\ hdr = TreeInit(<<NoRegion, NoRegion, NoRegion>>, FirstCk, 1, 0)
  /\ client = None /\ tx = None
  /\ snap = EmptySnapshot /\ meta = None
  /\ hist = <<>> /\ cut = {} /\ lapse = {}

\* A step of the kind f, of which the budget has one left.
Spend(f) == left[f] > 0 /\ left' = [left EXCEPT ![f] = @ - 1]

-----------------------------------------------------------------------------
(* The log writer.  A LogWriter is a record; iOff is where its buffer will *)
(* be written and ck the checksum of the chain up to there.                *)

szSector == IF mode = "full" THEN SectorSize ELSE 1
firstByteOnSector(off) == (off \div szSector) * szSector
lastByteOnSector(off) == firstByteOnSector(off) + szSector - 1

\* lsmFsWriteLog().
Put(f, off, recs) ==
  [i \in Cells |-> IF i >= off /\ i < off + Len(recs) THEN recs[i - off + 1]
                   ELSE f[i]]

\* A synced snapshot that is newer than the one the regions were last cut for.
CanReclaim == meta # None /\ hdr.iSnapshotId < meta.iId

InRegion(off, r) == off >= r.iStart /\ off <= r.iEnd

\* The first of the regions that holds offset off, or region 2.
RegionOf(aRegion, off) ==
  CHOOSE k \in 1..3 : /\ InRegion(off, aRegion[k]) \/ k = 3
                      /\ \A j \in 1..(k - 1) : ~InRegion(off, aRegion[j])

\* logReclaimSpace(): the regions before the one that holds the log offset of
\* the checkpoint are empty, and that one starts there.
logReclaimSpace(h) ==
  LET off == meta.log.off
      k == RegionOf(h.aRegion, off)
  IN [h EXCEPT
        !.aRegion = [j \in 1..3 |->
                       IF j < k THEN NoRegion
                       ELSE IF j = k THEN [h.aRegion[j] EXCEPT !.iStart = off]
                       ELSE h.aRegion[j]],
        !.iSnapshotId = meta.iId]

\* The three scenarios of lsmLogBegin().
Wraps(h) ==
  /\ h.aRegion[1].iEnd = 0 /\ h.aRegion[2].iEnd = 0
  /\ h.aRegion[3].iStart >= MIN_LOGWRAP
MayJump(h) == h.aRegion[2].iEnd = 0 /\ h.aRegion[3].iEnd < h.aRegion[1].iEnd

NewWriter(h, off, jump, wrapped) ==
  LET round == firstByteOnSector(jump.iStart)
  IN [iOff |-> off, buf |-> <<>>,
      ck |-> IF wrapped THEN Chain(h.ck, <<Jump(0)>>) ELSE h.ck,
      jump |-> IF jump.iStart = 0 THEN jump
               ELSE Region(IF round > off THEN round ELSE jump.iStart,
                           lastByteOnSector(jump.iEnd)),
      iRegion1End |-> 0, iRegion2Start |-> 0, wrapped |-> wrapped]

\* Mutant: region 0 ends before the JUMP.
lsmLogBeginShort(h, f) ==
  LET r == h.aRegion[3]
  IN IF Wraps(h)
     THEN [h |-> [h EXCEPT !.aRegion = <<r, @[2], NoRegion>>],
           w |-> NewWriter(h, 0, r, TRUE), f |-> Put(f, r.iEnd, <<Jump(0)>>)]
     ELSE [h |-> h, f |-> f,
           w |-> NewWriter(h, r.iEnd, IF MayJump(h) THEN h.aRegion[1] ELSE NoRegion,
                           FALSE)]

\* What lsmLogBegin() leaves in the header, the writer and the file.
lsmLogBegin(h, f) ==
  LET r == h.aRegion[3]
      zero == Region(r.iStart, r.iEnd + 1)
  IN IF Wraps(h)
     THEN [h |-> [h EXCEPT !.aRegion = <<zero, @[2], NoRegion>>],
           w |-> NewWriter(h, 0, zero, TRUE), f |-> Put(f, r.iEnd, <<Jump(0)>>)]
     ELSE [h |-> h, f |-> f,
           w |-> NewWriter(h, r.iEnd, IF MayJump(h) THEN h.aRegion[1] ELSE NoRegion,
                           FALSE)]

\* jumpIfRequired(): no room for nReq cells and a JUMP before the jump region.
NeedsJump(w, nReq) ==
  LET pos == w.iOff + Len(w.buf)
  IN w.jump.iStart > pos /\ w.jump.iStart < pos + nReq + 1

jumpIfRequired(w, f, nReq) ==
  LET to == w.jump.iEnd + 1
      recs == Append(w.buf, Jump(to))
  IN IF NeedsJump(w, nReq)
     THEN [w |-> [w EXCEPT !.iOff = to, !.buf = <<>>, !.ck = Chain(@, recs),
                           !.iRegion1End = w.iOff + Len(recs),
                           !.iRegion2Start = to],
           f |-> Put(f, w.iOff, recs), jumped |-> TRUE]
     ELSE [w |-> w, f |-> f, jumped |-> FALSE]

\* logCksumAndFlush(): the buffer goes to the file, with a record at its end
\* (Commit or Cksum) that holds the checksum of all before it.
logCksumAndFlush(w, f, buf, Final(_)) ==
  LET ck == Chain(w.ck, Append(buf, Final(<<>>)))
      recs == Append(buf, Final(ck))
  IN [w |-> [w EXCEPT !.iOff = @ + Len(recs), !.buf = <<>>, !.ck = ck],
      f |-> Put(f, w.iOff, recs)]

\* A write takes at most two cells, the header with a checksum and the data.
WriteReq == 2

\* lsmLogWrite(): a checksum is embedded after a jump or much data (big).
lsmLogWrite(w, f, x, big) ==
  LET j == jumpIfRequired(w, f, WriteReq)
      c == logCksumAndFlush(j.w, j.f, j.w.buf, Cksum)
      l == IF j.jumped \/ big THEN c ELSE [w |-> j.w, f |-> j.f]
  IN [l EXCEPT !.w.buf = Append(@, Write(x))]

CommitReq == IF szSector > 1 THEN 1 + szSector + 1 ELSE 1

\* Mutant: no padding, so that the next transaction writes to the same sector.
lsmLogCommitUnpadded(w, f) ==
  LET j == jumpIfRequired(w, f, CommitReq)
  IN logCksumAndFlush(j.w, j.f, j.w.buf, Commit)

\* lsmLogCommit(): padding, so that the commit record ends a sector.
lsmLogCommit(w, f) ==
  LET j == jumpIfRequired(w, f, CommitReq)
      over == (j.w.iOff + Len(j.w.buf) + 1) % szSector
      nPad == IF over = 0 THEN 0 ELSE szSector - over
      buf == j.w.buf \o [i \in 1..nPad |-> Pad]
  IN logCksumAndFlush(j.w, j.f, buf, Commit)

\* lsmLogEnd(pDb, 1).
lsmLogEnd(h, w) ==
  [h EXCEPT
     !.ck = w.ck,
     !.aRegion = IF w.iRegion1End # 0
                 THEN <<@[1], Region(@[3].iStart, w.iRegion1End),
                        Region(w.iRegion2Start, w.iOff)>>
                 ELSE [@ EXCEPT ![3].iEnd = w.iOff]]

\* lsmLogTell() and lsmLogSeek().
lsmLogTell(w) == [iOff |-> w.iOff + Len(w.buf), ck |-> Chain(w.ck, w.buf)]

lsmLogSeek(w, mark) ==
  LET kept == SubSeq(w.buf, 1, mark.iOff - w.iOff)
  IN [w EXCEPT
        !.buf = IF mark.iOff >= w.iOff THEN kept ELSE <<>>,
        !.iOff = IF mark.iOff >= w.iOff THEN @ ELSE mark.iOff,
        !.ck = IF mark.iOff >= w.iOff THEN @ ELSE mark.ck,
        !.iRegion1End = IF mark.iOff > @ THEN 0 ELSE @,
        !.iRegion2Start = IF mark.iOff > @ THEN 0 ELSE @]

\* The writer stays inside the file: the bound on the size of the log.
InFile(w) == w # None => w.iOff + Len(w.buf) <= NCell

-----------------------------------------------------------------------------
(* The log reader.  Reading stops at the end of the file, at a record that *)
(* is none, at a checksum that differs and at the third jump.              *)

\* The reader's state: position, checksum, the writes of the transaction being
\* read, jumps, and aRegion[] with the start of region 2.
Reader(off, ck, nJump) ==
  [off |-> off, ck |-> ck, cur |-> <<>>, nJump |-> nJump,
   txs |-> <<>>, zero |-> NoRegion, one |-> NoRegion, iStart |-> off]

At(f, off) == IF off \in Cells THEN f[off] ELSE Eof

\* Where the buffered read of region 2 has got to when it meets cell off.
ReadUpTo(iStart, off) == iStart + (((off - iStart) \div ReadSize) + 1) * ReadSize

\* A record other than a JUMP that is read from the log.
Take(r, rec) ==
  [r EXCEPT !.off = @ + 1, !.ck = Chain(@, <<rec>>)]

\* LSM_LOG_JUMP, with the regions as the second pass sets them.
Follow(r, rec) ==
  [r EXCEPT
     !.off = rec.x, !.ck = Chain(@, <<rec>>),
     !.nJump = @ + 1, !.iStart = rec.x,
     !.one = IF r.iStart = 0 THEN Region(0, ReadUpTo(0, r.off)) ELSE @,
     !.zero = IF r.iStart = 0 THEN @ ELSE Region(r.iStart, r.off + 1)]

\* The reader as it was after the last commit record whose checksum is right.
RECURSIVE ReadLog(_, _, _)
ReadLog(f, r, last) ==
  LET rec == At(f, r.off)
      nx == Take(r, rec)
  IN CASE rec.t = "pad" -> ReadLog(f, nx, last)
       [] rec.t = "write" -> ReadLog(f, [nx EXCEPT !.cur = Append(@, rec.x)], last)
       [] rec.t = "cksum" /\ rec.ck = nx.ck -> ReadLog(f, nx, last)
       [] rec.t = "commit" /\ rec.ck = nx.ck ->
            LET c == [nx EXCEPT !.txs = Append(@, r.cur), !.cur = <<>>]
            IN ReadLog(f, c, c)
       [] rec.t = "jump" /\ r.nJump < 2 -> ReadLog(f, Follow(r, rec), last)
       [] OTHER -> [last EXCEPT !.nJump = r.nJump]

\* The snapshot lsmCheckpointRecover() finds.
MetaSnapshot == IF meta = None THEN EmptySnapshot ELSE meta

\* lsmLogRecover(): read from the offset of snapshot s or, if no transaction is
\* found there, from the start of the file.
lsmLogRecover(f, s) ==
  LET r1 == Reader(s.log.off, s.ck, 0)
      p1 == ReadLog(f, r1, r1)
      r2 == Reader(0, s.ck, p1.nJump)
  IN IF p1.txs # <<>> \/ s.log.off = 0 THEN p1 ELSE ReadLog(f, r2, r2)

\* The header after recovery, and the snapshot in shared memory, whose offset
\* lsmCheckpointZeroLogoffset() has cleared if the start had to be tried.
RecoveredHdr(r, s) ==
  TreeInit(<<r.zero, r.one, Region(r.iStart, r.off)>>, r.ck, s.iId, s.from)

RecoveredSnap(f, s) ==
  LET r1 == Reader(s.log.off, s.ck, 0)
  IN IF ReadLog(f, r1, r1).txs = <<>> THEN [s EXCEPT !.log = LogOff(0, 0)] ELSE s

\* The number of transactions of hist that the database then holds.
RecoveredN(r, s) == IF r.txs = <<>> THEN s.n ELSE s.from + Len(r.txs)

-----------------------------------------------------------------------------
(* Write transactions *)

\* What a step writes to the log can be lost until the next sync.
Unsynced == prev' = [i \in Cells |-> IF file'[i] # file[i] THEN file[i] ELSE prev[i]]

\* lsmBeginReadTrans() and lsmFinishReadTrans().
BeginRead ==
  /\ client = None /\ client' = snap.log
  /\ UNCHANGED <<mode, file, prev, hdr, tx, snap, meta, hist, cut, lapse, left>>

FinishRead ==
  /\ client # None /\ tx = None /\ client' = None
  /\ UNCHANGED <<mode, file, prev, hdr, tx, snap, meta, hist, cut, lapse, left>>

\* lsmBeginWriteTrans(), up to the log: read-only clients may forbid that space
\* is reclaimed (skip).
Opened(skip) ==
  LET h == IF CanReclaim /\ ~skip THEN logReclaimSpace(hdr) ELSE hdr
  IN IF mode = "nolog" THEN [h |-> hdr, w |-> None, f |-> file]
     ELSE lsmLogBegin(h, file)

\* lsmTreeDiscardOld(), lsmTreeMakeOld().
DiscardOld(h) == [h EXCEPT !.hasOld = FALSE]

OldBit(c) == 1 - c.bit

MakeOld(h, c, n) ==
  IF h.hasOld THEN h
  ELSE [h EXCEPT !.hasOld = TRUE, !.oldck = h.ck,
                 !.iOldLog = LogOff(h.aRegion[3].iEnd, OldBit(c)),
                 !.oldFrom = h.newFrom, !.oldN = n, !.newFrom = n]

Tell(w) == IF w = None THEN None ELSE lsmLogTell(w)

lsmBeginWriteTrans(skip) ==
  /\ tx = None /\ client # None /\ left.write > 0
  /\ LET b == Opened(skip)
         h == IF b.h.hasOld /\ b.h.iOldLog = client THEN DiscardOld(b.h) ELSE b.h
     IN /\ hdr.aRegion[3].iEnd < NCell /\ InFile(b.w)
        /\ tx' = [h |-> h, w |-> b.w, data |-> <<>>, done |-> FALSE,
                  marks |-> <<[log |-> Tell(b.w), n |-> 0]>>]
        /\ file' = b.f /\ Unsynced
  /\ UNCHANGED <<mode, hdr, client, snap, meta, hist, cut, lapse, left>>

Active == tx # None /\ ~tx.done
Levels == IF tx = None THEN {} ELSE DOMAIN tx.marks

\* lsm_insert() and the like, inside a transaction.
doWriteOp(big) ==
  /\ Active /\ Spend("write")
  /\ LET x == left.write
         l == IF tx.w = None THEN [w |-> None, f |-> file]
              ELSE lsmLogWrite(tx.w, file, x, big)
     IN /\ InFile(l.w)
        /\ tx' = [tx EXCEPT !.w = l.w, !.data = Append(@, x)]
        /\ file' = l.f /\ Unsynced
  /\ UNCHANGED <<mode, hdr, client, snap, meta, hist, cut, lapse>>

\* lsm_begin(), lsm_commit() and lsm_rollback() of an inner level.
BeginLevel ==
  /\ Active /\ Spend("trans")
  /\ tx' = [tx EXCEPT !.marks = Append(@, [log |-> Tell(tx.w), n |-> Len(tx.data)])]
  /\ UNCHANGED <<mode, file, prev, hdr, client, snap, meta, hist, cut, lapse>>

CommitLevel(iLevel) ==
  /\ Active /\ iLevel \in 1..(Len(tx.marks) - 1)
  /\ tx' = [tx EXCEPT !.marks = SubSeq(@, 1, iLevel)]
  /\ UNCHANGED <<mode, file, prev, hdr, client, snap, meta, hist, cut, lapse, left>>

RollbackLevel(iLevel) ==
  /\ Active /\ iLevel \in 1..Len(tx.marks)
  /\ LET m == tx.marks[iLevel]
     IN /\ Len(tx.data) > m.n
        /\ tx' = [tx EXCEPT !.marks = SubSeq(@, 1, iLevel),
                            !.data = SubSeq(@, 1, m.n),
                            !.w = IF @ = None THEN @ ELSE lsmLogSeek(@, m.log)]
        /\ lapse' = IF tx.w # None /\ tx.w.iRegion1End # 0
                    THEN lapse \cup {"seek"} ELSE lapse
  /\ UNCHANGED <<mode, file, prev, hdr, client, snap, meta, hist, cut, left>>

\* lsm_commit(pDb, 0): the commit record is written to the log and, at safety
\* full, synced ...
CommitRecord ==
  /\ Active /\ tx.data # <<>>
  /\ LET l == IF tx.w = None THEN [w |-> None, f |-> file]
              ELSE lsmLogCommit(tx.w, file)
     IN /\ InFile(l.w)
        /\ tx' = [tx EXCEPT !.w = l.w, !.done = TRUE]
        /\ file' = l.f /\ Unsynced
  /\ UNCHANGED <<mode, hdr, client, snap, meta, hist, cut, lapse, left>>

\* ... and lsmFinishWriteTrans(pDb, 1) publishes the header, with the tree made
\* old if it has grown enough.
FinishCommit(bFlush) ==
  /\ tx # None /\ tx.done
  /\ LET h == IF tx.w = None THEN tx.h ELSE lsmLogEnd(tx.h, tx.w)
     IN hdr' = IF bFlush THEN MakeOld(h, client, Len(hist) + 1) ELSE h
  /\ hist' = Append(hist, tx.data)
  /\ prev' = IF mode = "full" THEN file ELSE prev
  /\ tx' = None
  /\ UNCHANGED <<mode, file, client, snap, meta, cut, lapse, left>>

\* lsm_rollback(pDb, 0): the header is published as well.
Rollback ==
  /\ Active
  /\ hdr' = tx.h /\ tx' = None
  /\ lapse' = IF tx.w # None /\ tx.w.wrapped THEN lapse \cup {"wrap"} ELSE lapse
  /\ UNCHANGED <<mode, file, prev, client, snap, meta, hist, cut, left>>

\* The process of the writer dies and other connections go on.
WriterDies ==
  /\ tx # None /\ ~tx.done /\ Spend("crash")
  /\ tx' = None /\ client' = None
  /\ UNCHANGED <<mode, file, prev, hdr, snap, meta, hist, cut, lapse>>

-----------------------------------------------------------------------------
(* Flush, work, checkpoint *)

\* ckptExportLog() with bFlush: the log offset of the old tree.
Exported(h, n) ==
  [iId |-> snap.iId + 1, log |-> h.iOldLog, ck |-> h.oldck, from |-> h.oldN, n |-> n]

\* doLsmSingleWork() writes the old tree to the database file.
FlushOld ==
  /\ hdr.hasOld /\ hdr.iOldLog # snap.log
  /\ snap' = Exported(hdr, hdr.oldN)
  /\ UNCHANGED <<mode, file, prev, hdr, client, tx, meta, hist, cut, lapse, left>>

\* A merge: a new snapshot with the log offset of the last.
Work ==
  /\ Spend("work")
  /\ snap' = [snap EXCEPT !.iId = @ + 1]
  /\ UNCHANGED <<mode, file, prev, hdr, client, tx, meta, hist, cut, lapse>>

\* hist without its first k transactions, and the numbers that refer to it.
Less(n, k) == IF n > k THEN n - k ELSE 0
CutHdr(h, k) == [h EXCEPT !.oldFrom = Less(@, k), !.oldN = Less(@, k),
                          !.newFrom = Less(@, k)]

\* lsmCheckpointWrite().
Checkpoint ==
  /\ MetaSnapshot.iId # snap.iId
  /\ LET k == snap.from
         s == [snap EXCEPT !.from = 0, !.n = @ - k]
     IN /\ snap' = s /\ meta' = s
        /\ hist' = SubSeq(hist, k + 1, Len(hist))
        /\ cut' = {SubSeq(h, k + 1, Len(h)) : h \in cut}
        /\ hdr' = CutHdr(hdr, k)
        /\ tx' = IF tx = None THEN None ELSE [tx EXCEPT !.h = CutHdr(@, k)]
  /\ UNCHANGED <<mode, file, prev, client, lapse, left>>

\* lsm_flush(): a write transaction without writes and without a commit record.
\* What lsmFlushTreeToDisk() returns is not looked at, and it is busy if another
\* connection works.  The log offset it exports is that of the last old tree, if
\* there has been one since the database was opened.
lsm_flush(busy, skip) ==
  /\ tx = None /\ client = None /\ Spend("flush")
  /\ LET b == Opened(skip)
         n == Len(hist)
         h == MakeOld(DiscardOld(b.h), snap.log, n)
         e == IF b.w = None THEN h ELSE lsmLogEnd(h, b.w)
         unwritten == b.h.hasOld \/ b.h.newFrom < n
         badOffset == \/ mode # "nolog" /\ b.h.oldck = ZeroCk
                      \/ mode = "normal" /\ b.h.oldN < n
         rewound == b.w # None /\ b.w.wrapped
     IN /\ hdr.aRegion[3].iEnd < NCell /\ InFile(b.w)
        /\ file' = b.f /\ Unsynced
        /\ snap' = IF busy THEN snap ELSE Exported(b.h, n)
        /\ hdr' = DiscardOld(e)
        /\ lapse' = lapse
             \cup (IF busy /\ unwritten THEN {"busy"} ELSE {})
             \cup (IF (~busy /\ badOffset) \/ rewound THEN {"offset"} ELSE {})
  /\ UNCHANGED <<mode, client, tx, meta, hist, cut>>

-----------------------------------------------------------------------------
(* Closing, crashes, recovery *)

Sector(i) == i \div SectorSize

\* What the file may hold after a power failure: each sector with a write that
\* is not synced has the new content, the old, or none.
PowerFailures ==
  LET dirty == {Sector(i) : i \in {i \in Cells : file[i] # prev[i]}}
      After(lost, junk) ==
        [i \in Cells |-> IF Sector(i) \notin lost THEN file[i]
                         ELSE IF junk THEN Eof ELSE prev[i]]
  IN {After(lost, junk) : lost \in SUBSET dirty, junk \in BOOLEAN}

\* The transactions whose commit records have been written.
Written == IF tx # None /\ tx.done THEN Append(hist, tx.data) ELSE hist

\* The first connection after a crash recovers (doDbConnect()).
Restart(f, s, h) ==
  LET r == lsmLogRecover(f, s)
  IN /\ file' = f /\ prev' = f
     /\ hdr' = RecoveredHdr(r, s)
     /\ snap' = RecoveredSnap(f, s)
     /\ tx' = None /\ client' = None
     /\ hist' = IF r.txs = <<>> THEN SubSeq(h, 1, s.n) ELSE SubSeq(h, 1, s.from) \o r.txs

Crash ==
  /\ Spend("crash")
  /\ \E f \in {file} \cup PowerFailures : Restart(f, MetaSnapshot, hist)
  /\ cut' = cut \cup {Written}
  /\ UNCHANGED <<mode, meta, lapse>>

\* doDbDisconnect() of the last connection, and the next connection.
CloseAndOpen ==
  /\ tx = None /\ client = None /\ Spend("crash")
  /\ LET n == Len(hist)
         s0 == IF hdr.hasOld \/ hdr.newFrom < n THEN Exported(hdr, n) ELSE snap
         s == [s0 EXCEPT !.from = 0, !.n = 0]
     IN /\ Restart([i \in Cells |-> Eof], s, <<>>)
        /\ meta' = IF meta = None /\ s = EmptySnapshot THEN None ELSE s
  /\ cut' = {}
  /\ UNCHANGED <<mode, lapse>>

Next ==
  \/ BeginRead \/ FinishRead
  \/ \E skip \in BOOLEAN : lsmBeginWriteTrans(skip)
  \/ \E big \in BOOLEAN : doWriteOp(big)
  \/ BeginLevel
  \/ \E i \in Levels : CommitLevel(i)
  \/ \E i \in Levels : RollbackLevel(i)
  \/ CommitRecord
  \/ \E bFlush \in BOOLEAN : FinishCommit(bFlush)
  \/ Rollback
  \/ WriterDies
  \/ FlushOld \/ Work \/ Checkpoint
  \/ \E busy, skip \in BOOLEAN : lsm_flush(busy, skip)
  \/ Crash \/ CloseAndOpen

Spec == Init /\ [][Next]_vars

-----------------------------------------------------------------------------
(* Properties *)

\* What recovery from file f brings back is a run of the transactions that were
\* written, with all that the checkpoint holds, and every committed one if all.
\* One whose commit record is written may be there although lsm_commit() has not
\* returned, and one that a power failure took may come back after another.
Recovers(f, all) ==
  LET s == MetaSnapshot
      r == lsmLogRecover(f, s)
      n == RecoveredN(r, s)
      Is(h) == n <= Len(h) /\ r.txs = SubSeq(h, s.from + 1, s.from + Len(r.txs))
  IN /\ n >= s.n
     /\ \E h \in {Written} \cup cut :
          Is(h) /\ (all => n >= Len(hist) /\ hist = SubSeq(h, 1, Len(hist)))

Durable ==
  IF mode = "nolog" THEN Recovers(file, FALSE)
  ELSE /\ Recovers(file, TRUE)
       /\ \A f \in PowerFailures : Recovers(f, mode = "full")

\* Whenever the process or the machine fails, lsmLogRecover() brings back what
\* was committed: after the death of the process, and at safety full after a
\* power failure too, every transaction; at safety normal, after a power failure,
\* a prefix of them that is not behind the checkpoint.  The state while a commit
\* record is written but not synced is included, and the one after a recovery.
CommittedRecovered == lapse = {} => Durable

\* With header h the snapshot, the old tree and the tree leave no gap.
Somewhere(h) ==
  IF h.hasOld THEN h.oldFrom <= snap.n /\ h.newFrom <= h.oldN
  ELSE h.newFrom <= snap.n

\* Every committed transaction is in the snapshot, in the old tree or in the tree:
\* lsmBeginWriteTrans() discards the old tree only once a snapshot holds it, which
\* it knows from nothing but iOldLog.  The low bit of iOldLog makes the test work
\* when two trees end at the same offset, as all do in a database without a log.
NothingVanishes ==
  lapse = {} => Somewhere(hdr) /\ (tx # None => Somewhere(tx.h))

\* The assertions of lsmLogBegin() about the three regions and of
\* logReclaimSpace() that the offset of the checkpoint is in one of them; not of
\* the end of region 1, which recovery puts where the buffered read has got to.
RegionsInOrder ==
  lapse = {} =>
    /\ CanReclaim => \E k \in 1..3 : InRegion(meta.log.off, hdr.aRegion[k])
    /\ \A h \in {hdr} \cup (IF CanReclaim THEN {logReclaimSpace(hdr)} ELSE {}) :
         LET a == h.aRegion
         IN /\ \A k \in 1..2 : a[k].iEnd = 0 \/ a[k].iEnd > a[k].iStart
            /\ MayJump(h) /\ ~Wraps(h) => a[1].iStart > a[3].iEnd
            /\ ~MayJump(h) /\ ~Wraps(h) => a[3].iStart >= a[1].iEnd

\* Trees, snapshot and log regions account for all that was committed, after any
\* sequence of commits, rollbacks, flushes, checkpoints and recoveries.
LogAccountsForAll == NothingVanishes /\ RegionsInOrder

\* All that was committed is recovered, without any exception.
CommittedIsDurable == Durable
=============================================================================

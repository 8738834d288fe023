------------------------------- MODULE BtLog -------------------------------
(***************************************************************************)
(* The log of the b-tree engine: bt_log.c, the locks of bt_lock.c it       *)
(* relies on, and the parts of bt_pager.c that drive it. Connections of    *)
(* different processes read, write, checkpoint, join, leave and die. The   *)
(* database file, the log file and the shared memory are shared.           *)
(*                                                                         *)
(* A page's content is the number of the transaction that wrote it last. A *)
(* frame's checksum is a value no other frame has; a frame is valid after  *)
(* the frame whose checksum it was computed from. One hash table stands    *)
(* for the list of them, and a set for its slots: a search returns the     *)
(* last entry inserted, which is the greatest frame number.                *)
(*                                                                         *)
(* The code departs from what its comments promise in a few places. The    *)
(* variable lapse records the ones a behaviour has met:                    *)
(*   "uncommitted"  recovery found frames but no commit frame, and keeps   *)
(*                  them;                                                  *)
(*   "header"       recovery took the database header from a frame of an   *)
(*                  unfinished transaction;                                *)
(*   "emptied"      recovery found every frame checkpointed, and starts    *)
(*                  the log and the header counters afresh;                *)
(*   "trim"         a writer dropped the frames of a live reader from its  *)
(*                  map, as the log has been checkpointed to its end;      *)
(*   "uncovered"    a writer went on as a reader of frames it has no lock  *)
(*                  on;                                                    *)
(*   "regather"     a checkpoint of a log that has been checkpointed to    *)
(*                  its end took all of its frames once more.              *)
(***************************************************************************)
EXTENDS Integers, Sequences, SequencesExt, FiniteSets, FiniteSetsExt

CONSTANTS
  Conn,      \* connections
  NPage,     \* pages of the database; page 1 holds the database header
  NFrame,    \* frames of the log file
  NWRAPLOG,  \* nWrapLog
  Cases,     \* what the connections of a behaviour do, and how often
  None

Page == 1..NPage
Frame == 1..NFrame

\* There is at least one page and one frame.
ASSUME BtAssumption ==
  NPage \in Nat \ {0} /\ NFrame \in Nat \ {0} /\ NWRAPLOG \in Nat \ {0}

VARIABLES
  case,    \* the case of this behaviour
  left,    \* how many transactions, checkpoints, ... may still happen
  walhdr,  \* the two BtWalHdr of the log file; None: the checksum is wrong
  frame,   \* the frames of the log file
  db,      \* the database file
  durable, \* the files as they were when they were last synced
  hdr,     \* BtShm.hdr1 and hdr2; None: being copied, its checksum is wrong
  ckpt,    \* BtShm.ckpt
  slot,    \* BtShm.aReadlock
  idx,     \* the page numbers and the two sides of the hash table
  st,      \* what each connection is doing
  snap,    \* BtLog.snapshot of each connection
  rlock,   \* the slot each connection has a SHARED lock on; 0: none
  writer, ckpter, dms1,  \* holders of the exclusive locks
  job,     \* the commit or the checkpoint a connection is in the middle of
  hist,    \* history: the committed transactions
  pend,    \* history: a transaction written to the log and not yet committed
  failed,  \* history: the power has failed since the last recovery
  newest,  \* history: which of the two BtWalHdr was written last
  lapse    \* history: the known lapses of the code that have occurred

disk == <<walhdr, frame, db, durable>>
shm == <<hdr, ckpt, slot, idx>>
locks == <<rlock, writer, ckpter, dms1>>
ghosts == <<hist, pend, failed, newest, lapse>>
vars == <<case, left, disk, shm, st, snap, locks, job, ghosts>>

\* The read-lock slots: a case has nReader (BT_NREADER) of them. The slot of those
\* who read the database file only (BT_LOCK_READER_DBONLY) follows them.
Slot == 1..case.nReader
DBONLY == case.nReader + 1
-----------------------------------------------------------------------------
(* The topology of the log: its regions (a), (b) and (c), in that order.   *)

NoRegion == <<0, 0>>
NoLog == <<NoRegion, NoRegion, NoRegion>>

\* Frame f is in region r; a region that starts at 0 is empty.
Holds(r, f) == r[1] # 0 /\ r[1] <= f /\ f <= r[2]
RegionSize(r) == IF r[1] = 0 THEN 0 ELSE r[2] - r[1] + 1
RegionOf(aLog, f) == {i \in 1..3 : Holds(aLog[i], f)}

\* btLogFrameToIdx(): the place of a frame in the logical log, or -1.
FrameToIdx(aLog, f) ==
  IF RegionOf(aLog, f) = {} THEN -1
  ELSE LET i == Min(RegionOf(aLog, f))
       IN  MapThenSumSet(LAMBDA j : RegionSize(aLog[j]), 1..(i - 1))
             + (f - aLog[i][1])

FramesOf(aLog) == {f \in Frame : RegionOf(aLog, f) # {}}

\* btLogSnapshotTrim(): drop what precedes frame f.
SnapshotTrim(aLog, f) ==
  LET in == RegionOf(aLog, f)
  IN  [i \in 1..3 |->
         IF in = {} \/ i < Min(in) THEN NoRegion
         ELSE IF i = Min(in) THEN <<f, aLog[i][2]>>
         ELSE aLog[i]]

\* A header: the topology, the side of the hash table for region (c), the
\* checksum of the last frame, the frame to write next, and the version of the
\* database header. n, the number of transactions it covers, is history.
ZeroSnapshot == [aLog |-> NoLog, side |-> 0, ck |-> 0, next |-> 0, ver |-> 0, n |-> 0]
IsEmpty(s) == s.aLog[3][1] = 0 /\ s.next = 0

\* btLogWriteFrame(): where the frame after this one goes. It follows this one, or
\* wraps around to frame 1, or jumps over the frames in use.
NextFrame(s, nPad) ==
  LET n == s.next + 1
      a == s.aLog[1]
      c == s.aLog[3]
  IN  IF /\ s.next # 1 /\ s.next = c[2] + 1
         /\ a[1] = 0 /\ s.aLog[2][1] = 0
         /\ c[1] # 0 /\ c[1] > NWRAPLOG
      THEN 1
      ELSE IF n + nPad >= a[1] /\ n <= a[2] THEN a[2] + nPad + 1
      ELSE n

\* btLogWriteFrame(): frame f joins region (c), or starts a new one.
AppendFrame(aLog, f) ==
  IF f = 1 THEN <<aLog[3], aLog[2], <<1, 1>>>>
  ELSE IF f # aLog[3][2] + 1 THEN <<aLog[1], aLog[3], <<f, f>>>>
  ELSE <<aLog[1], aLog[2], <<aLog[3][1], f>>>>
-----------------------------------------------------------------------------
(* The hash tables.                                                        *)

\* The page number of each frame, and the frames on each side of the table.
NoIdx == [pgno |-> [f \in Frame |-> 0], hash |-> [i \in {0, 1} |-> {}]]

\* btLogHashInsert(): the first frame of a table clears the side.
HashInsert(x, side, pgno, f) ==
  [pgno |-> [x.pgno EXCEPT ![f] = pgno],
   hash |-> [x.hash EXCEPT ![side] = IF f = 1 THEN {1} ELSE @ \cup {f}]]

\* btLogHashSearch()
HashSearch(x, side, hi, pgno) ==
  Max({0} \cup {f \in x.hash[side] : f <= hi /\ x.pgno[f] = pgno})

\* btLogRead(): search regions (c), (b) and (a), in that order.
LogFind(x, s, pgno) ==
  LET Hit(i) == LET r == s.aLog[i]
                    side == (s.side + (IF i = 1 THEN 1 ELSE 0)) % 2
                    f == HashSearch(x, side, r[2], pgno)
                IN  IF Holds(r, f) THEN f ELSE 0
  IN  IF Hit(3) # 0 THEN Hit(3) ELSE IF Hit(2) # 0 THEN Hit(2) ELSE Hit(1)

\* btLoadPageData(): from the log, or else from the database file.
LoadPageData(x, s, pgno) ==
  LET f == LogFind(x, s, pgno) IN IF f = 0 THEN db[pgno] ELSE frame[f].data
-----------------------------------------------------------------------------
(* Recovery.                                                               *)

\* btLogTraverse(): the frames whose checksums continue the chain from ck.
RECURSIVE Traverse(_, _)
Traverse(f, ck) ==
  IF f \notin Frame \/ frame[f] = None THEN <<>>
  ELSE IF frame[f].prev # ck THEN <<>>
  ELSE <<f>> \o Traverse(frame[f].next, frame[f].ck)

\* btLogRecoverFrame(), with what it accumulates in a.
RecoverFrame(a, f) ==
  LET c == a.aLog[3]
      wrap == c[1] # 0 /\ f <= c[2]
      side == IF wrap THEN (a.side + 1) % 2 ELSE a.side
      h == frame[f]
  IN  [aLog |-> IF c[1] = 0 THEN <<a.aLog[1], a.aLog[2], <<f, f>>>>
                ELSE IF f = c[2] + 1 THEN <<a.aLog[1], a.aLog[2], <<c[1], f>>>>
                ELSE IF wrap THEN <<c, a.aLog[2], <<f, f>>>>
                ELSE <<a.aLog[1], c, <<f, f>>>>,
       side |-> side,
       idx |-> HashInsert(a.idx, side, h.pgno, f),
       last |-> IF h.commit THEN f ELSE a.last,
       next |-> IF h.commit THEN h.next ELSE a.next,
       ck |-> IF h.commit THEN h.ck ELSE a.ck,
       one |-> IF h.pgno = 1 THEN f ELSE a.one]

\* btLogRollbackRecovery(): drop what follows the last commit frame.
RECURSIVE RollbackRecovery(_)
RollbackRecovery(a) ==
  LET l == a.aLog
      c == l[2]
  IN  IF Holds(l[3], a.last)
      THEN [a EXCEPT !.aLog[3][2] = a.last,
                     !.idx.hash[a.side] = {f \in @ : f <= a.last}]
      ELSE IF c[1] # 0
      THEN RollbackRecovery([a EXCEPT !.aLog =
             IF l[1][1] # 0 /\ l[1][1] < c[1] THEN <<NoRegion, l[1], c>>
             ELSE <<l[1], NoRegion, c>>])
      ELSE RollbackRecovery([a EXCEPT !.aLog = <<NoRegion, NoRegion, l[1]>>,
                                      !.side = (@ + 1) % 2])

\* A mutant of RecoverSlot: the first header with a good checksum.
RecoverSlotFirst ==
  IF walhdr[0] # None THEN 0 ELSE IF walhdr[1] # None THEN 1 ELSE None

\* btLogRecover(): the newer of the headers with a good checksum.
RecoverSlot ==
  IF walhdr[0] = None THEN (IF walhdr[1] = None THEN None ELSE 1)
  ELSE IF walhdr[1] = None THEN 0
  ELSE IF walhdr[1].cnt = (walhdr[0].cnt + 1) % 3 THEN 1 ELSE 0

\* BtCkptHdr: iFirstRead, iWalHdr (a slot and a counter) and iFirstRecover.
NoCkpt == [read |-> 1, slot |-> 0, cnt |-> 0, recover |-> 1]

\* btLogRecover() and sqlite4BtLogOpen(): the shared memory recovery makes.
Recovered ==
  IF RecoverSlot = None
  THEN [hdr |-> [ZeroSnapshot EXCEPT !.ver = db[1]], ckpt |-> NoCkpt, idx |-> NoIdx,
        lapse |-> {}]
  ELSE LET h == walhdr[RecoverSlot]
           a0 == [aLog |-> NoLog, side |-> 0, idx |-> NoIdx, last |-> 0, next |-> 0,
                  ck |-> 0, one |-> 0]
           a1 == FoldLeft(RecoverFrame, a0, Traverse(h.first, h.salt))
           a == IF a1.last = 0 THEN a1 ELSE RollbackRecovery(a1)
       IN  [hdr |-> [aLog |-> a.aLog, side |-> a.side, ck |-> a.ck, next |-> a.next,
                     ver |-> IF a.one = 0 THEN db[1] ELSE frame[a.one].data, n |-> 0],
            ckpt |-> IF a.last = 0 THEN NoCkpt
                     ELSE [read |-> h.first, slot |-> RecoverSlot, cnt |-> h.cnt,
                           recover |-> h.first],
            idx |-> a.idx,
            lapse |-> {x \in {"uncommitted", "header", "emptied"} :
                         \/ x = "uncommitted" /\ a.last = 0 /\ a.aLog # NoLog
                         \/ x = "header" /\ a.one # 0 /\ RegionOf(a.aLog, a.one) = {}
                         \/ x = "emptied" /\ a.aLog = NoLog /\ walhdr[1] # None}]
-----------------------------------------------------------------------------
(* History: what committed transactions leave, and what a crash may lose.  *)

\* The content of a page after the transactions of h.
Content(h, pgno) ==
  LET by == {i \in 1..Len(h) : pgno \in h[i].pages}
  IN  IF by = {} THEN 0 ELSE h[Max(by)].tid

\* The transactions a recovery may present: all that committed, and one whose
\* commit frame is written. A power failure may take those that committed after
\* the last sync of the log.
Survivors ==
  {SubSeq(hist, 1, n) : n \in (IF failed THEN durable.n ELSE Len(hist))..Len(hist)}
    \cup (IF pend = None THEN {} ELSE {Append(hist, pend)})

\* Those of them that recovery, if it ran now, would present.
Matching ==
  LET r == Recovered
  IN  {h \in Survivors :
         /\ "header" \in r.lapse \/ r.hdr.ver = Content(h, 1)
         /\ \A p \in Page : LoadPageData(r.idx, r.hdr, p) = Content(h, p)}
-----------------------------------------------------------------------------
(* Joining and dying.                                                      *)

Twice(s) == <<s, s>>

\* btLogSnapshot(): hdr1, or hdr2 while hdr1 is being written.
ShmSnapshot == IF hdr[1] # None THEN hdr[1] ELSE hdr[2]

Live == {c \in Conn : st[c] # "off"}
\* sqlite4BtLogWrite(): FULL pads a commit to a sector, here with one frame.
nPad == IF case.safety = "full" THEN 1 ELSE 0
\* The bounds of a case.
Spend(b) == left[b] > 0 /\ left' = [left EXCEPT ![b] = @ - 1]

Init ==
  /\ case \in Cases
  /\ left = case.left
  /\ walhdr = [i \in {0, 1} |-> None]
  /\ frame = [f \in Frame |-> None]
  /\ db = [p \in Page |-> 0]
  /\ durable = [walhdr |-> walhdr, frame |-> frame, db |-> db, n |-> 0]
  /\ hdr = Twice(ZeroSnapshot) /\ ckpt = NoCkpt /\ idx = NoIdx
  /\ slot = [i \in Slot |-> <<0, 0>>]
  /\ st = [c \in Conn |-> IF c \in case.conns THEN "idle" ELSE "off"]
  /\ snap = [c \in Conn |-> None]
  /\ rlock = [c \in Conn |-> 0]
  /\ writer = None /\ ckpter = None /\ dms1 = None
  /\ job = [c \in Conn |-> None]
  /\ hist = <<>> /\ pend = None /\ failed = FALSE /\ newest = None /\ lapse = {}

\* sqlite4BtLockConnect(): the first connection runs recovery. What it presents
\* becomes the history.
Connect(c) ==
  LET r == Recovered
      m == Matching
  IN  /\ st[c] = "off" /\ c \in case.conns /\ dms1 = None
      /\ Spend("connect")
      /\ st' = [st EXCEPT ![c] = "idle"]
      /\ \/ Live # {} /\ UNCHANGED <<shm, ghosts>>
         \/ /\ Live = {}
            /\ hist' = IF m = {} THEN hist
                       ELSE CHOOSE h \in m : \A g \in m : Len(g) <= Len(h)
            /\ pend' = None /\ failed' = FALSE /\ newest' = newest
            /\ lapse' = lapse \cup r.lapse
            /\ hdr' = Twice([r.hdr EXCEPT !.n = Len(hist')])
            /\ ckpt' = r.ckpt /\ idx' = r.idx
            /\ slot' = [i \in Slot |-> <<0, 0>>]
      /\ UNCHANGED <<case, disk, snap, locks, job>>

\* With the last connection the shared memory goes.
ForgetShm ==
  /\ hdr' = Twice(ZeroSnapshot) /\ ckpt' = NoCkpt /\ idx' = NoIdx
  /\ slot' = [i \in Slot |-> <<0, 0>>]

\* The process of a connection dies: its locks are dropped, and the frame it is
\* writing may be torn.
Die(c) ==
  /\ st[c] # "off"
  /\ Spend("die")
  /\ st' = [st EXCEPT ![c] = "off"]
  /\ snap' = [snap EXCEPT ![c] = None]
  /\ rlock' = [rlock EXCEPT ![c] = 0]
  /\ job' = [job EXCEPT ![c] = None]
  /\ writer' = IF writer = c THEN None ELSE writer
  /\ ckpter' = IF ckpter = c THEN None ELSE ckpter
  /\ dms1' = IF dms1 = c THEN None ELSE dms1
  /\ IF Live = {c} THEN ForgetShm ELSE UNCHANGED shm
  /\ \/ UNCHANGED frame
     \/ /\ st[c] = "log" /\ job[c].todo # <<>>
        /\ frame' = [frame EXCEPT ![IF IsEmpty(snap[c]) THEN 1 ELSE snap[c].next] = None]
  /\ UNCHANGED <<case, walhdr, db, durable, ghosts>>

\* What was written since the last sync is there, is not, or is torn.
Mixed(new, old, torn) ==
  LET at == {x \in DOMAIN new : new[x] # old[x]}
  IN  {[x \in DOMAIN new |->
          IF x \in lost THEN old[x] ELSE IF x \in bad THEN torn ELSE new[x]] :
         <<lost, bad>> \in {p \in (SUBSET at) \X (SUBSET at) : p[1] \cap p[2] = {}}}

\* The power fails: every process dies, and what was not synced may be lost.
PowerFail ==
  /\ Spend("power")
  /\ frame' \in Mixed(frame, durable.frame, None)
  /\ walhdr' \in Mixed(walhdr, durable.walhdr, None)
  /\ db' \in Mixed(db, durable.db, -1)
  /\ st' = [c \in Conn |-> "off"]
  /\ snap' = [c \in Conn |-> None] /\ rlock' = [c \in Conn |-> 0]
  /\ writer' = None /\ ckpter' = None /\ dms1' = None
  /\ job' = [c \in Conn |-> None]
  /\ ForgetShm
  /\ failed' = TRUE
  /\ UNCHANGED <<case, durable, hist, pend, newest, lapse>>
-----------------------------------------------------------------------------
(* Reading.                                                                *)

\* sqlite4BtLogSnapshotOpen(), the loop's first half: load the header.
LoadHdr(c) ==
  /\ st[c] = "idle" \/ st[c] = "open"
  /\ c \in case.readers
  /\ st' = [st EXCEPT ![c] = "loaded"]
  /\ snap' = [snap EXCEPT ![c] = ShmSnapshot]
  /\ UNCHANGED <<case, left, disk, shm, locks, job, ghosts>>

\* Connection c can lock slot i EXCLUSIVE: no other connection has it.
Free(c, i) == \A d \in Conn \ {c} : rlock[d] # i

\* sqlite4BtLockReader()
LockReader(c) ==
  LET aLog == snap[c].aLog
      first == ckpt.read
      last == aLog[3][2]
      match == {i \in Slot : slot[i] = <<first, last>>}
      free == {i \in Slot : Free(c, i)}
      Earlier(i) == LET f == FrameToIdx(aLog, slot[i][1])
                        l == FrameToIdx(aLog, slot[i][2])
                    IN  /\ f >= 0 /\ l >= 0
                        /\ f <= FrameToIdx(aLog, first) /\ l <= FrameToIdx(aLog, last)
      usable == {i \in Slot : Earlier(i)}
      Take(i) == /\ rlock' = [rlock EXCEPT ![c] = i]
                 /\ st' = [st EXCEPT ![c] = "locked"]
                 /\ snap' = snap
  IN  /\ st[c] = "loaded"
      /\ job' = [job EXCEPT ![c] = [first |-> first]]
      /\ IF RegionOf(aLog, first) = {} THEN Take(DBONLY) /\ UNCHANGED slot
         ELSE IF match # {} THEN Take(Min(match)) /\ UNCHANGED slot
         ELSE IF free # {}
         THEN Take(Min(free)) /\ slot' = [slot EXCEPT ![Min(free)] = <<first, last>>]
         ELSE IF usable # {} THEN Take(Min(usable)) /\ UNCHANGED slot
         ELSE /\ st' = [st EXCEPT ![c] = "idle"]
              /\ snap' = [snap EXCEPT ![c] = None]
              /\ UNCHANGED <<rlock, slot>>
      /\ UNCHANGED <<case, left, disk, hdr, ckpt, idx, writer, ckpter, dms1, ghosts>>

\* The loop's second half: start again if the header or iFirstRead has changed,
\* else leave out what has been checkpointed.
Recheck(c) ==
  /\ st[c] = "locked"
  /\ job' = [job EXCEPT ![c] = None]
  /\ IF ckpt.read = job[c].first /\ ShmSnapshot = snap[c]
     THEN /\ st' = [st EXCEPT ![c] = "read"]
          /\ snap' = [snap EXCEPT ![c].aLog = SnapshotTrim(@, job[c].first)]
          /\ UNCHANGED rlock
     ELSE /\ st' = [st EXCEPT ![c] = "open"]
          /\ snap' = [snap EXCEPT ![c] = None]
          /\ rlock' = [rlock EXCEPT ![c] = 0]
  /\ UNCHANGED <<case, left, disk, shm, writer, ckpter, dms1, ghosts>>

\* btCloseReadTransaction(), of a transaction that has not written.
EndRead(c) ==
  /\ st[c] = "read"
  /\ st' = [st EXCEPT ![c] = "idle"]
  /\ snap' = [snap EXCEPT ![c] = None]
  /\ rlock' = [rlock EXCEPT ![c] = 0]
  /\ UNCHANGED <<case, left, disk, shm, writer, ckpter, dms1, job, ghosts>>
-----------------------------------------------------------------------------
(* Writing.                                                                *)

\* A mutant of QueryOut: the latest frame.
QueryOutLatest(c, aLog, which) ==
  LET at == {FrameToIdx(aLog, slot[i][which]) : i \in {j \in Slot : ~Free(c, j)}} \ {-1}
  IN  IF at = {} THEN 0
      ELSE CHOOSE f \in FramesOf(aLog) : FrameToIdx(aLog, f) = Max(at)

\* sqlite4BtLockReaderQuery(): the earliest frame of the slots others have locked.
\* A writer (which = 1) asks for first frames, a checkpointer (2) for last ones.
QueryOut(c, aLog, which) ==
  LET at == {FrameToIdx(aLog, slot[i][which]) : i \in {j \in Slot : ~Free(c, j)}} \ {-1}
  IN  IF at = {} THEN 0
      ELSE CHOOSE f \in FramesOf(aLog) : FrameToIdx(aLog, f) = Min(at)

\* The slots no other connection has are cleared, and a lock the caller has on one
\* of them is dropped.
QuerySlots(c, which) ==
  [i \in Slot |-> IF slot[i][which] # 0 /\ Free(c, i) THEN <<0, 0>> ELSE slot[i]]

Zeroed(c, which) ==
  rlock[c] \in Slot /\ slot[rlock[c]][which] # 0 /\ Free(c, rlock[c])

\* A mutant of Stale.
NeverStale(c, shmhdr) == FALSE

\* sqlite4BtLogSnapshotWrite(): the log has grown since the reader's snapshot.
Stale(c, shmhdr) == snap[c].next # shmhdr.next

\* sqlite4BtLogSnapshotWrite(). A stale reader is turned away and keeps the WRITER
\* lock. A writer's map is what recovery or a reader may need.
SnapshotWrite(c) ==
  LET shmhdr == ShmSnapshot
      aLog == shmhdr.aLog
      read == QueryOut(c, aLog, 1)
      trim == IF read # 0 /\ FrameToIdx(aLog, ckpt.recover) > FrameToIdx(aLog, read)
              THEN read ELSE ckpt.recover
  IN  /\ st[c] = "read" /\ writer \in {None, c} /\ c \in case.writers
      /\ writer' = c
      /\ hdr' = Twice(shmhdr)
      /\ IF Stale(c, shmhdr)
         THEN UNCHANGED <<st, snap, slot, rlock, lapse>>
         ELSE /\ st' = [st EXCEPT ![c] = "write"]
              /\ snap' = [snap EXCEPT ![c].aLog =
                            IF trim = shmhdr.next \/ IsEmpty(snap[c]) THEN NoLog
                            ELSE SnapshotTrim(aLog, trim)]
              /\ slot' = QuerySlots(c, 1)
              /\ rlock' = IF Zeroed(c, 1) THEN [rlock EXCEPT ![c] = 0] ELSE rlock
              /\ lapse' = IF read # 0 /\ RegionOf(aLog, ckpt.recover) = {}
                          THEN lapse \cup {"trim"} ELSE lapse
      /\ UNCHANGED <<case, left, disk, ckpt, idx, ckpter, dms1, job, hist, pend, failed,
                     newest>>

\* A writer that goes on reading has the frames of its map locked.
Covered(c, aLog) ==
  /\ rlock[c] # 0
  /\ \/ aLog = NoLog
     \/ FrameToIdx(aLog, IF rlock[c] \in Slot THEN slot[rlock[c]][1] ELSE ckpt.read) = 0

\* Not code: history of the reader a writer becomes.
KeepReading(c, aLog) ==
  lapse' = IF Covered(c, aLog) THEN lapse ELSE lapse \cup {"uncovered"}

\* btRollbackTransaction(), down to level iLevel.
RollbackTransaction(c, iLevel) ==
  /\ st[c] = "write"
  /\ writer' = IF iLevel < 2 THEN None ELSE writer
  /\ st' = [st EXCEPT ![c] = <<"idle", "read", "write">>[iLevel + 1]]
  /\ snap' = [snap EXCEPT ![c] = IF iLevel = 0 THEN None ELSE hdr[1]]
  /\ rlock' = IF iLevel = 0 THEN [rlock EXCEPT ![c] = 0] ELSE rlock
  /\ IF iLevel = 1 THEN KeepReading(c, hdr[1].aLog) ELSE UNCHANGED lapse
  /\ UNCHANGED <<case, left, disk, shm, ckpter, dms1, job, hist, pend, failed, newest>>

\* btCommitTransaction() without a dirty page.
CommitNothing(c, iLevel) ==
  /\ st[c] = "write"
  /\ writer' = None
  /\ st' = [st EXCEPT ![c] = IF iLevel = 0 THEN "idle" ELSE "read"]
  /\ snap' = [snap EXCEPT ![c] = IF iLevel = 0 THEN None ELSE @]
  /\ rlock' = IF iLevel = 0 THEN [rlock EXCEPT ![c] = 0] ELSE rlock
  /\ IF iLevel = 1 THEN KeepReading(c, snap[c].aLog) ELSE UNCHANGED lapse
  /\ UNCHANGED <<case, left, disk, shm, ckpter, dms1, job, hist, pend, failed, newest>>

\* btCommitTransaction(): the frames to write. The dirty pages in order, page 1
\* before the last of them, which carries the commit flag and is repeated as padding.
Commit(c, dirty, iLevel) ==
  LET n == Len(dirty)
      plain == [i \in 1..n |-> [pgno |-> IF i = n THEN 1 ELSE dirty[i], commit |-> FALSE]]
      last == [i \in 1..(nPad + 1) |-> [pgno |-> dirty[n], commit |-> TRUE]]
  IN  /\ st[c] = "write"
      /\ Spend("txn")
      /\ st' = [st EXCEPT ![c] = "log"]
      /\ job' = [job EXCEPT ![c] = [todo |-> plain \o last, pages |-> Range(dirty),
                                    tid |-> case.left.txn - left.txn + 1, k |-> 1,
                                    level |-> iLevel]]
      /\ UNCHANGED <<case, disk, shm, snap, locks, ghosts>>

\* sqlite4BtLogWrite() and btLogWriteFrame(): one frame, after the log's header if
\* the log is empty.
WriteFrame(c) ==
  LET j == job[c]
      w == Head(j.todo)
      s == IF IsEmpty(snap[c]) THEN [snap[c] EXCEPT !.ck = 0, !.next = 1] ELSE snap[c]
      f == s.next
      side == IF f = 1 THEN (s.side + 1) % 2 ELSE s.side
      ck == 10 * j.tid + j.k
      data == IF w.pgno \in j.pages THEN j.tid ELSE LoadPageData(idx, s, w.pgno)
  IN  /\ st[c] = "log" /\ j.todo # <<>>
      /\ f <= NFrame
      /\ walhdr' = IF IsEmpty(snap[c])
                   THEN [walhdr EXCEPT ![0] = [cnt |-> 0, first |-> 1, salt |-> 0]]
                   ELSE walhdr
      /\ frame' = [frame EXCEPT ![f] =
                     [pgno |-> w.pgno, data |-> data, next |-> NextFrame(s, nPad),
                      commit |-> w.commit, prev |-> s.ck, ck |-> ck]]
      /\ idx' = HashInsert(idx, side, w.pgno, f)
      /\ snap' = [snap EXCEPT ![c] = [s EXCEPT !.aLog = AppendFrame(@, f), !.side = side,
                                               !.next = NextFrame(s, nPad), !.ck = ck]]
      /\ job' = [job EXCEPT ![c].todo = Tail(@), ![c].k = @ + 1]
      /\ pend' = IF w.commit THEN [tid |-> j.tid, pages |-> j.pages] ELSE None
      /\ newest' = IF IsEmpty(snap[c]) THEN 0 ELSE newest
      /\ UNCHANGED <<case, left, db, durable, hdr, ckpt, slot, st, locks, hist,
                     failed, lapse>>

\* The log is synced; it holds the first n transactions.
SyncLog(n) == durable' = [durable EXCEPT !.walhdr = walhdr, !.frame = frame, !.n = n]

\* The end of sqlite4BtLogWrite(): sync the log, then copy the header to hdr1 ...
CommitSync(c) ==
  /\ st[c] = "log" /\ job[c].todo = <<>>
  /\ IF case.safety = "full" THEN SyncLog(Len(hist) + 1) ELSE UNCHANGED durable
  /\ hdr' = [hdr EXCEPT ![1] = None]
  /\ st' = [st EXCEPT ![c] = "hdr1"]
  /\ UNCHANGED <<case, left, walhdr, frame, db, ckpt, slot, idx, snap, locks,
                 job, ghosts>>

\* ... which commits the transaction, and to hdr2, ...
CommitHdr1(c) ==
  LET j == job[c]
      s == [snap[c] EXCEPT !.ver = IF 1 \in j.pages THEN j.tid ELSE @,
                           !.n = Len(hist) + 1]
  IN  /\ st[c] = "hdr1"
      /\ hdr' = <<s, None>>
      /\ snap' = [snap EXCEPT ![c] = s]
      /\ hist' = Append(hist, [tid |-> j.tid, pages |-> j.pages])
      /\ pend' = None
      /\ st' = [st EXCEPT ![c] = "hdr2"]
      /\ UNCHANGED <<case, left, disk, ckpt, slot, idx, locks, job, failed, newest,
                     lapse>>

\* ... and the end of btCommitTransaction().
CommitHdr2(c) ==
  LET level == job[c].level
  IN  /\ st[c] = "hdr2"
      /\ hdr' = Twice(snap[c])
      /\ writer' = None
      /\ job' = [job EXCEPT ![c] = None]
      /\ st' = [st EXCEPT ![c] = IF level = 0 THEN "idle" ELSE "read"]
      /\ snap' = [snap EXCEPT ![c] = IF level = 0 THEN None ELSE @]
      /\ rlock' = IF level = 0 THEN [rlock EXCEPT ![c] = 0] ELSE rlock
      /\ IF level = 1 THEN KeepReading(c, snap[c].aLog) ELSE UNCHANGED lapse
      /\ UNCHANGED <<case, left, disk, ckpt, slot, idx, ckpter, dms1, hist, pend, failed,
                     newest>>
-----------------------------------------------------------------------------
(* Checkpoints.                                                            *)

\* sqlite4BtLogCheckpoint(): take the CHECKPOINTER lock and a snapshot.
CkptBegin(c) ==
  /\ st[c] = "idle" /\ c \in case.ckpters
  /\ ckpter = None
  /\ Spend("ckpt")
  /\ ckpter' = c
  /\ snap' = [snap EXCEPT ![c] = ShmSnapshot]
  /\ st' = [st EXCEPT ![c] = "gather"]
  /\ UNCHANGED <<case, disk, shm, rlock, writer, dms1, job, ghosts>>

\* sqlite4BtLockDisconnect(): the last connection checkpoints, then deletes the log.
Disconnect(c) ==
  /\ st[c] = "idle" /\ dms1 = None
  /\ Spend("close")
  /\ writer' = IF writer = c THEN None ELSE writer
  /\ IF Live # {c}
     THEN /\ st' = [st EXCEPT ![c] = "off"]
          /\ UNCHANGED <<snap, dms1, ckpter>>
     ELSE /\ st' = [st EXCEPT ![c] = "gather"]
          /\ snap' = [snap EXCEPT ![c] = ShmSnapshot]
          /\ dms1' = c /\ ckpter' = c
  /\ UNCHANGED <<case, disk, shm, rlock, job, ghosts>>

\* The checkpoint ends.
CkptDone(c) ==
  /\ ckpter' = None
  /\ snap' = [snap EXCEPT ![c] = None]
  /\ job' = [job EXCEPT ![c] = None]
  /\ st' = [st EXCEPT ![c] = IF dms1 = c THEN "delete" ELSE "idle"]

\* btLogGatherPgno(): the pages of the frames from iFirstRecover to the last one
\* that is safe, leaving nBuf frames.
GatherPgno(c, nBuf) ==
  LET aLog == snap[c].aLog
      firstIdx == FrameToIdx(aLog, ckpt.recover)
      safe == FrameToIdx(aLog, QueryOut(c, aLog, 2))
      buf == FrameToIdx(aLog, aLog[3][2]) - nBuf
      safeIdx == IF safe < 0 \/ buf < safe THEN buf ELSE safe
      some == safeIdx >= 0 /\ (firstIdx < 0 \/ safeIdx >= firstIdx)
      gathered == {f \in FramesOf(aLog) : FrameToIdx(aLog, f) \in firstIdx..safeIdx}
  IN  /\ st[c] = "gather"
      /\ nBuf = 0 \/ dms1 # c
      /\ IF \E d \in Conn \ {c} : rlock[d] = DBONLY
         THEN UNCHANGED slot
         ELSE slot' = QuerySlots(c, 2)
      /\ IF (\E d \in Conn \ {c} : rlock[d] = DBONLY) \/ ~some
         THEN CkptDone(c) /\ UNCHANGED lapse
         ELSE /\ job' = [job EXCEPT ![c] =
                           [pages |-> {idx.pgno[f] : f \in gathered} \ {0},
                            last |-> CHOOSE f \in gathered :
                                      FrameToIdx(aLog, f) = safeIdx]]
              /\ st' = [st EXCEPT ![c] = "sync"]
              /\ lapse' = IF firstIdx < 0 THEN lapse \cup {"regather"} ELSE lapse
              /\ UNCHANGED <<ckpter, snap>>
      /\ UNCHANGED <<case, left, disk, hdr, ckpt, idx, rlock, writer, dms1, hist, pend,
                     failed, newest>>

\* A mutant of CkptSyncLog: the log is not synced.
CkptNoSync(c) ==
  /\ st[c] = "sync"
  /\ job' = [job EXCEPT ![c] = [pages |-> job[c].pages, last |-> job[c].last,
                                first |-> frame[job[c].last].next,
                                salt |-> frame[job[c].last].ck]]
  /\ st' = [st EXCEPT ![c] = "copy"]
  /\ UNCHANGED <<case, left, disk, shm, snap, locks, ghosts>>

\* sqlite4BtLogCheckpoint(): sync the log and read the last frame's header.
CkptSyncLog(c) ==
  /\ st[c] = "sync"
  /\ SyncLog(Len(hist))
  /\ job' = [job EXCEPT ![c] = [pages |-> job[c].pages, last |-> job[c].last,
                                first |-> frame[job[c].last].next,
                                salt |-> frame[job[c].last].ck]]
  /\ st' = [st EXCEPT ![c] = "copy"]
  /\ UNCHANGED <<case, left, walhdr, frame, db, shm, snap, locks, ghosts>>

\* Copy a page, unless a later version of it follows the last frame. Page 1 gets
\* the database header of the snapshot.
CkptCopy(c) ==
  LET j == job[c]
      p == Min(j.pages)
      f == LogFind(idx, snap[c], p)
      aLog == snap[c].aLog
  IN  /\ st[c] = "copy" /\ j.pages # {}
      /\ db' = IF f = 0 \/ FrameToIdx(aLog, f) > FrameToIdx(aLog, j.last) THEN db
               ELSE [db EXCEPT ![p] = IF p = 1 THEN snap[c].ver ELSE frame[f].data]
      /\ job' = [job EXCEPT ![c].pages = @ \ {p}]
      /\ UNCHANGED <<case, left, walhdr, frame, durable, shm, st, snap, locks, ghosts>>

\* Sync the database file, and tell readers.
CkptFirstRead(c) ==
  /\ st[c] = "copy" /\ job[c].pages = {}
  /\ durable' = [durable EXCEPT !.db = db]
  /\ ckpt' = [ckpt EXCEPT !.read = job[c].first]
  /\ st' = [st EXCEPT ![c] = "header"]
  /\ UNCHANGED <<case, left, walhdr, frame, db, hdr, slot, idx, snap, locks,
                 job, ghosts>>

\* Write the log header that is not in use.
CkptHeader(c) ==
  LET i == (ckpt.slot + 1) % 2
      cnt == (ckpt.cnt + 1) % 3
  IN  /\ st[c] = "header"
      /\ walhdr' = [walhdr EXCEPT ![i] = [cnt |-> cnt, first |-> job[c].first,
                                          salt |-> job[c].salt]]
      /\ newest' = i
      /\ st' = [st EXCEPT ![c] = "recover"]
      /\ UNCHANGED <<case, left, frame, db, durable, shm, snap, locks, job, hist,
                     pend, failed, lapse>>

\* Sync it, and tell writers.
CkptFirstRecover(c) ==
  /\ st[c] = "recover"
  /\ SyncLog(Len(hist))
  /\ ckpt' = [ckpt EXCEPT !.slot = (@ + 1) % 2, !.cnt = (@ + 1) % 3,
                          !.recover = job[c].first]
  /\ CkptDone(c)
  /\ UNCHANGED <<case, left, walhdr, frame, db, hdr, slot, idx, rlock,
                 writer, dms1, ghosts>>

\* btCleanup(): the log file is unlinked.
DeleteLog(c) ==
  /\ st[c] = "delete"
  /\ walhdr' = [i \in {0, 1} |-> None]
  /\ frame' = [f \in Frame |-> None]
  /\ durable' = [durable EXCEPT !.walhdr = walhdr', !.frame = frame']
  /\ dms1' = None
  /\ st' = [st EXCEPT ![c] = "off"]
  /\ ForgetShm
  /\ UNCHANGED <<case, left, db, snap, rlock, writer, ckpter, job, ghosts>>
-----------------------------------------------------------------------------
Next ==
  \/ PowerFail
  \/ \E c \in Conn :
       \/ Connect(c) \/ Die(c) \/ Disconnect(c) \/ DeleteLog(c)
       \/ LoadHdr(c) \/ LockReader(c) \/ Recheck(c) \/ EndRead(c)
       \/ SnapshotWrite(c) \/ WriteFrame(c)
       \/ CommitSync(c) \/ CommitHdr1(c) \/ CommitHdr2(c)
       \/ \E l \in 0..2 : RollbackTransaction(c, l)
       \/ \E l \in 0..1 : CommitNothing(c, l)
       \/ \E d \in case.dirty, l \in 0..1 : Commit(c, d, l)
       \/ CkptBegin(c) \/ CkptSyncLog(c) \/ CkptCopy(c) \/ CkptFirstRead(c)
       \/ \E n \in case.nBuf : GatherPgno(c, n)
       \/ CkptHeader(c) \/ CkptFirstRecover(c)

Spec == Init /\ [][Next]_vars
-----------------------------------------------------------------------------
\* Every reader sees the transactions its snapshot covers and nothing else, whatever
\* writers put into the log and checkpointers into the database file while it reads
\* (sqlite4BtLogSnapshotOpen(), sqlite4BtLockReader(), sqlite4BtLockReaderQuery()).
Isolation ==
  \A c \in Conn : st[c] = "read" =>
    \A p \in Page :
      LoadPageData(idx, snap[c], p) = Content(SubSeq(hist, 1, snap[c].n), p)

\* A connection that sqlite4BtLogSnapshotWrite() let write sees every committed
\* transaction: no update is lost.
WriterCurrent ==
  \A c \in Conn : st[c] = "write" =>
    /\ snap[c].n = Len(hist)
    /\ \A p \in Page : LoadPageData(idx, snap[c], p) = Content(hist, p)

\* Whenever the processes die or the power fails, btLogRecover() presents the
\* committed transactions, wholly and in order, save those that a power failure may
\* take: the ones since the last checkpoint's sync, and none at all under FULL.
Recoverable == "uncommitted" \notin Recovered.lapse => Matching # {}

\* A checkpoint puts nothing into the database file that the log does not have on
\* disk: what the file holds of a page was committed, and was synced in the log
\* first (sqlite4BtLogCheckpoint()).
WriteAhead ==
  \A p \in Page : db[p] # -1 =>
    \E n \in 0..durable.n : db[p] = Content(SubSeq(hist, 1, n), p)

\* The behaviours of the passing run end where the code departs from its comments.
NoLapse == lapse = {}
=============================================================================

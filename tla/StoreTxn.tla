------------------------------ MODULE StoreTxn ------------------------------
(***************************************************************************)
(* The transaction half of a key/value store as the virtual machine sees   *)
(* it: the level kept in KVStore.iTransLevel, what reading the store       *)
(* returns, and what each open level would roll back to.  One operator per *)
(* xBegin, xCommit and xRollback of the engines "lsm" (kvlsm.c over        *)
(* lsm_main.c), "mem" (kvmem.c) and "ldb" (kvldb.c), and the wrappers of   *)
(* kv.c that choose between them.                                          *)
(*                                                                         *)
(* A store is a record:                                                    *)
(*   lvl   KVStore.iTransLevel: 0 none, 1 read, 2 write, more for nested   *)
(*   cont  what this connection reads                                      *)
(*   snap  for each level in 2..lvl, the content its rollback restores     *)
(*   dur   what every other connection reads                               *)
(***************************************************************************)
EXTENDS Integers

CONSTANTS Content,   \* what a database can hold, compared only for equality
          NoSnap,    \* stands for the snapshot of a level that is not open
          MaxLevel   \* bound on transaction levels

ASSUME NoSnapAssumption == NoSnap \notin Content
ASSUME MaxLevelAssumption == MaxLevel \in Nat /\ MaxLevel >= 2

Engines == {"lsm", "mem", "ldb"}

Levels == 2..MaxLevel

Snaps == [Levels -> Content \cup {NoSnap}]

Store == [lvl  : 0..MaxLevel,
          cont : Content,
          snap : Snaps,
          dur  : Content]

NewStore(c) == [lvl |-> 0, cont |-> c, snap |-> [i \in Levels |-> NoSnap],
                dur |-> c]

SnapUpTo(s, l) == [i \in Levels |-> IF i <= l THEN s.snap[i] ELSE NoSnap]

-----------------------------------------------------------------------------
(* lsm: lsm_begin() marks every level it opens, so a jump of several levels *)
(* leaves several marks at the same place.                                  *)

LsmBegin(s, l) ==
  [s EXCEPT !.lvl = l,
            !.snap = [i \in Levels |-> IF s.lvl < i /\ i <= l THEN s.cont
                                       ELSE s.snap[i]]]

LsmCommit(s, l) ==
  [s EXCEPT !.lvl = l,
            !.snap = SnapUpTo(s, l),
            !.dur = IF s.lvl >= 2 /\ l < 2 THEN s.cont ELSE s.dur]

(* lsmLogCommit() or the sync fails.  lsm_commit() still ends the write     *)
(* transaction, and lsmTreeEndTransaction() copies the uncommitted tree     *)
(* header to shared memory; nTransOpen becomes 0 but iTransLevel stays, so  *)
(* a later lsm_rollback() changes nothing: what it goes back to is what is  *)
(* there now.                                                               *)
LsmCommitFails(s) ==
  [s EXCEPT !.dur = s.cont,
            !.snap = [i \in Levels |-> IF i <= s.lvl THEN s.cont ELSE NoSnap]]

LsmRollback(s, l) ==
  [s EXCEPT !.lvl = l,
            !.snap = SnapUpTo(s, l),
            !.cont = IF s.lvl >= 2 THEN s.snap[IF l < 2 THEN 2 ELSE l]
                     ELSE s.cont]

(* A write outside a transaction is one of its own (doWriteOp).             *)
LsmWrite(s, c) ==
  [s EXCEPT !.cont = c, !.dur = IF s.lvl < 2 THEN c ELSE s.dur]

-----------------------------------------------------------------------------
(* mem: one change log per level from 2 up.  kvmemBegin() sets only the log *)
(* of the level asked for; a level it skips keeps whatever realloc() left,  *)
(* here the empty list (the other outcome is a wild pointer, which ends the *)
(* process and the behaviour with it).                                      *)

MemBegin(s, l) == LsmBegin(s, l)

MemCommit(s, l) == LsmCommit(s, l)

(* The logs above level l are undone, the log of level l is kept.           *)
MemRollback(s, l) ==
  [s EXCEPT !.lvl = l,
            !.snap = SnapUpTo(s, l),
            !.cont = IF s.lvl >= 2 /\ s.lvl > l
                     THEN s.snap[IF l + 1 < 2 THEN 2 ELSE l + 1]
                     ELSE s.cont]

-----------------------------------------------------------------------------
(* ldb: xBegin, xCommitPhaseOne, xCommitPhaseTwo and xRollback return       *)
(* SQLITE4_OK and do nothing; leveldb_put() and leveldb_delete() take       *)
(* effect at once.                                                          *)

LdbBegin(s, l) == s
LdbCommit(s, l) == s
LdbRollback(s, l) == s
LdbWrite(s, c) == [s EXCEPT !.cont = c, !.dur = c]

-----------------------------------------------------------------------------
(* The wrappers of kv.c.                                                    *)

KVStoreBegin(k, s, l) ==
  CASE k = "lsm" -> LsmBegin(s, l)
    [] k = "mem" -> MemBegin(s, l)
    [] k = "ldb" -> LdbBegin(s, l)

KVStoreCommit(k, s, l) ==
  CASE s.lvl = l -> s
    [] s.lvl # l /\ k = "lsm" -> LsmCommit(s, l)
    [] s.lvl # l /\ k = "mem" -> MemCommit(s, l)
    [] s.lvl # l /\ k = "ldb" -> LdbCommit(s, l)

KVStoreRollback(k, s, l) ==
  CASE k = "lsm" -> LsmRollback(s, l)
    [] k = "mem" -> MemRollback(s, l)
    [] k = "ldb" -> LdbRollback(s, l)

KVStoreWrite(k, s, c) ==
  CASE k = "ldb" -> LdbWrite(s, c)
    [] k # "ldb" -> LsmWrite(s, c)

(* What rolling a store back to level l would leave it with.                *)
RollsBackTo(s, l) == IF s.lvl >= l THEN s.snap[l] ELSE s.cont

(* Only an lsm commit that ends the write transaction reaches the disk.     *)
CommitMayFail(k, s, l) == k = "lsm" /\ s.lvl >= 2 /\ l < 2
=============================================================================

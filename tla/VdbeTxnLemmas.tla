--------------------------- MODULE VdbeTxnLemmas ----------------------------
(***************************************************************************)
(* The inductive invariant of VdbeTxn, and the facts about its stores,     *)
(* its statements and its savepoints that the steps of the proof share.    *)
(***************************************************************************)
EXTENDS VdbeTxn, TLAPS

USE ZenonT(40)

-----------------------------------------------------------------------------
(* Counting.                                                                *)

(* What is used of counting, for every set: nothing counts to zero, one      *)
(* member more or less counts one more or less, and a proper part of a       *)
(* finite set counts less. VdbeTxnProofs shows it with the theorems on finite sets;  *)
(* here it is an assumption, so that those theorems are needed only there.   *)
Counting ==
  /\ IsFiniteSet({}) /\ Cardinality({}) = 0
  /\ \A S : IsFiniteSet(S) => (Cardinality(S) = 0 <=> S = {})
  /\ \A S, x : IsFiniteSet(S) =>
       /\ IsFiniteSet(S \cup {x})
       /\ Cardinality(S \cup {x}) =
            IF x \in S THEN Cardinality(S) ELSE Cardinality(S) + 1
       /\ IsFiniteSet(S \ {x})
       /\ Cardinality(S \ {x}) =
            IF x \in S THEN Cardinality(S) - 1 ELSE Cardinality(S)
  /\ \A S : IsFiniteSet(S) =>
       \A T \in SUBSET S :
         /\ IsFiniteSet(T) /\ Cardinality(T) \in Nat
         /\ Cardinality(T) <= Cardinality(S)
         /\ Cardinality(S) = Cardinality(T) => S = T

(* The empty set is the one with no members to count.                       *)
LEMMA CountNone ==
  ASSUME Counting
  PROVE  /\ IsFiniteSet({}) /\ Cardinality({}) = 0
         /\ \A S : IsFiniteSet(S) => (Cardinality(S) = 0 <=> S = {})
BY DEF Counting

(* One member more.                                                         *)
LEMMA CountAdded ==
  ASSUME Counting, NEW S, NEW x, IsFiniteSet(S)
  PROVE  /\ IsFiniteSet(S \cup {x})
         /\ Cardinality(S \cup {x}) =
              IF x \in S THEN Cardinality(S) ELSE Cardinality(S) + 1
BY DEF Counting

(* One member less.                                                         *)
LEMMA CountRemoved ==
  ASSUME Counting, NEW S, NEW x, IsFiniteSet(S)
  PROVE  /\ IsFiniteSet(S \ {x})
         /\ Cardinality(S \ {x}) =
              IF x \in S THEN Cardinality(S) - 1 ELSE Cardinality(S)
BY DEF Counting

(* A part of a finite set.                                                  *)
LEMMA CountPart ==
  ASSUME Counting, NEW S, IsFiniteSet(S), NEW T \in SUBSET S
  PROVE  /\ IsFiniteSet(T) /\ Cardinality(T) \in Nat
         /\ Cardinality(T) <= Cardinality(S)
         /\ Cardinality(S) = Cardinality(T) => S = T
BY DEF Counting

-----------------------------------------------------------------------------
(* One store: what each operation does to its level, to its content and to  *)
(* what every open level would roll back to.                                *)

(* The stores in which every open level has a content to go back to.        *)
GoodStore == {s \in Store : \A i \in Levels : i <= s.lvl => s.snap[i] \in Content}

(* Dropping the targets above a level keeps the others.                     *)
LEMMA SnapUpToType ==
  ASSUME NEW s \in Store, NEW l \in Int
  PROVE  /\ SnapUpTo(s, l) \in Snaps
         /\ \A i \in Levels : i <= l => SnapUpTo(s, l)[i] = s.snap[i]
BY DEF SnapUpTo, Store, Snaps

(* xBegin of any engine: the level becomes the one asked for (except behind *)
(* kvldbBegin, which ignores it), and nothing is read differently.          *)
LEMMA BeginGood ==
  ASSUME NEW k \in Engines, NEW s \in GoodStore, NEW l \in 1..MaxLevel,
         s.lvl < l
  PROVE  /\ KVStoreBegin(k, s, l) \in GoodStore
         /\ KVStoreBegin(k, s, l).lvl = IF k = "ldb" THEN s.lvl ELSE l
         /\ KVStoreBegin(k, s, l).cont = s.cont
         /\ KVStoreBegin(k, s, l).dur = s.dur
<1>1. CASE k = "ldb"
  BY <1>1 DEF KVStoreBegin, LdbBegin
<1>2. CASE k = "lsm" \/ k = "mem"
  <2>1. KVStoreBegin(k, s, l) = LsmBegin(s, l)
    BY <1>2 DEF KVStoreBegin, MemBegin
  <2> DEFINE sn == [i \in Levels |-> IF s.lvl < i /\ i <= l THEN s.cont
                                     ELSE s.snap[i]]
  <2>a. sn \in Snaps
    BY DEF GoodStore, Store, Snaps
  <2> HIDE DEF sn
  <2>2. LsmBegin(s, l) \in Store
    <3>1. LsmBegin(s, l) = [s EXCEPT !.lvl = l, !.snap = sn]
      BY DEF LsmBegin, sn
    <3>2. l \in 0..MaxLevel
      BY SMTT(40), MaxLevelAssumption
    <3> QED
      BY <2>a, <3>1, <3>2 DEF GoodStore, Store
  <2>3. \A i \in Levels : i <= l => LsmBegin(s, l).snap[i] \in Content
    BY SMTT(40), MaxLevelAssumption DEF LsmBegin, GoodStore, Store, Snaps, Levels
  <2>4. /\ LsmBegin(s, l).lvl = l
        /\ LsmBegin(s, l).cont = s.cont
        /\ LsmBegin(s, l).dur = s.dur
    BY DEF LsmBegin, GoodStore, Store
  <2> QED
    BY <1>2, <2>1, <2>2, <2>3, <2>4 DEF GoodStore
<1> QED
  BY <1>1, <1>2 DEF Engines

(* lsm_begin() moves no rollback target, neither of the levels it opens nor *)
(* of those already open.                                                   *)
LEMMA BeginKeepsTargets ==
  ASSUME NEW s \in GoodStore, NEW l \in 1..MaxLevel, s.lvl < l,
         NEW m \in Levels, m <= l
  PROVE  RollsBackTo(KVStoreBegin("lsm", s, l), m) = RollsBackTo(s, m)
<1>1. KVStoreBegin("lsm", s, l) = LsmBegin(s, l)
  BY DEF KVStoreBegin
<1>2. /\ LsmBegin(s, l).lvl = l
      /\ LsmBegin(s, l).snap[m] = IF s.lvl < m /\ m <= l THEN s.cont
                                  ELSE s.snap[m]
  BY DEF LsmBegin, GoodStore, Store
<1> QED
  BY SMTT(40), <1>1, <1>2, MaxLevelAssumption DEF RollsBackTo, GoodStore, Store, Snaps, Levels

(* xCommitPhaseTwo down to level l.                                         *)
LEMMA CommitGood ==
  ASSUME NEW k \in Engines, NEW s \in GoodStore, NEW l \in Int,
         k # "ldb" => l \in 0..s.lvl
  PROVE  /\ KVStoreCommit(k, s, l) \in GoodStore
         /\ KVStoreCommit(k, s, l).lvl = IF k = "ldb" THEN s.lvl ELSE l
         /\ KVStoreCommit(k, s, l).cont = s.cont
<1>1. CASE s.lvl = l \/ k = "ldb"
  BY <1>1 DEF KVStoreCommit, LdbCommit, Engines
<1>2. CASE s.lvl # l /\ k # "ldb"
  <2>1. KVStoreCommit(k, s, l) = LsmCommit(s, l)
    BY <1>2 DEF KVStoreCommit, MemCommit, Engines
  <2>2. LsmCommit(s, l) \in Store
    <3>1. SnapUpTo(s, l) \in Snaps
      BY SnapUpToType DEF GoodStore
    <3>2. l \in 0..MaxLevel
      BY SMTT(40), <1>2, MaxLevelAssumption DEF GoodStore, Store
    <3> QED
      BY <3>1, <3>2 DEF LsmCommit, GoodStore, Store
  <2>3. \A i \in Levels : i <= l => LsmCommit(s, l).snap[i] \in Content
    BY SMTT(40), <1>2, MaxLevelAssumption DEF LsmCommit, SnapUpTo, GoodStore, Store, Snaps, Levels
  <2>4. LsmCommit(s, l).lvl = l /\ LsmCommit(s, l).cont = s.cont
    BY DEF LsmCommit, GoodStore, Store
  <2> QED
    BY <1>2, <2>1, <2>2, <2>3, <2>4 DEF GoodStore
<1> QED
  BY <1>1, <1>2

(* A commit to level l moves no rollback target of level l or below.        *)
LEMMA CommitKeepsTargets ==
  ASSUME NEW s \in GoodStore, NEW l \in 0..MaxLevel, l <= s.lvl,
         NEW m \in Levels, m <= l
  PROVE  RollsBackTo(KVStoreCommit("lsm", s, l), m) = RollsBackTo(s, m)
<1>1. CASE s.lvl = l
  BY <1>1 DEF KVStoreCommit
<1>2. CASE s.lvl # l
  <2>1. KVStoreCommit("lsm", s, l) = LsmCommit(s, l)
    BY <1>2 DEF KVStoreCommit
  <2>2. LsmCommit(s, l).lvl = l /\ LsmCommit(s, l).snap[m] = s.snap[m]
    BY DEF LsmCommit, SnapUpTo, GoodStore, Store
  <2> QED
    BY SMTT(40), <1>2, <2>1, <2>2, MaxLevelAssumption DEF RollsBackTo, GoodStore, Store, Snaps, Levels
<1> QED
  BY <1>1, <1>2

(* xRollback to level l.                                                    *)
LEMMA RollbackGood ==
  ASSUME NEW k \in Engines, NEW s \in GoodStore, NEW l \in 0..MaxLevel,
         l <= s.lvl
  PROVE  /\ KVStoreRollback(k, s, l) \in GoodStore
         /\ KVStoreRollback(k, s, l).lvl = IF k = "ldb" THEN s.lvl ELSE l
         /\ KVStoreRollback(k, s, l).dur = s.dur
<1>1. CASE k = "ldb"
  BY <1>1 DEF KVStoreRollback, LdbRollback
<1>2. CASE k = "lsm"
  <2>1. KVStoreRollback(k, s, l) = LsmRollback(s, l)
    BY <1>2 DEF KVStoreRollback
  <2>2. LsmRollback(s, l) \in Store
    <3> DEFINE c == IF s.lvl >= 2 THEN s.snap[IF l < 2 THEN 2 ELSE l]
                     ELSE s.cont
    <3>1. SnapUpTo(s, l) \in Snaps
      BY SMTT(40), SnapUpToType DEF GoodStore
    <3>2. c \in Content
      BY SMTT(40), MaxLevelAssumption DEF GoodStore, Store, Levels
    <3>3. LsmRollback(s, l) = [s EXCEPT !.lvl = l, !.snap = SnapUpTo(s, l),
                                      !.cont = c]
      BY DEF LsmRollback
    <3> HIDE DEF c
    <3> QED
      BY <3>1, <3>2, <3>3 DEF GoodStore, Store
  <2>3. \A i \in Levels : i <= l => LsmRollback(s, l).snap[i] \in Content
    BY SMTT(40), MaxLevelAssumption DEF LsmRollback, SnapUpTo, GoodStore, Store, Snaps, Levels
  <2>4. LsmRollback(s, l).lvl = l /\ LsmRollback(s, l).dur = s.dur
    BY DEF LsmRollback, GoodStore, Store
  <2> QED
    BY <1>2, <2>1, <2>2, <2>3, <2>4 DEF GoodStore
<1>3. CASE k = "mem"
  <2>1. KVStoreRollback(k, s, l) = MemRollback(s, l)
    BY <1>3 DEF KVStoreRollback
  <2>2. MemRollback(s, l) \in Store
    <3> DEFINE c == IF s.lvl >= 2 /\ s.lvl > l
                     THEN s.snap[IF l + 1 < 2 THEN 2 ELSE l + 1]
                     ELSE s.cont
    <3>1. SnapUpTo(s, l) \in Snaps
      BY SMTT(40), SnapUpToType DEF GoodStore
    <3>2. c \in Content
      BY SMTT(40), MaxLevelAssumption DEF GoodStore, Store, Levels
    <3>3. MemRollback(s, l) = [s EXCEPT !.lvl = l, !.snap = SnapUpTo(s, l),
                                      !.cont = c]
      BY DEF MemRollback
    <3> HIDE DEF c
    <3> QED
      BY <3>1, <3>2, <3>3 DEF GoodStore, Store
  <2>3. \A i \in Levels : i <= l => MemRollback(s, l).snap[i] \in Content
    BY SMTT(40), MaxLevelAssumption DEF MemRollback, SnapUpTo, GoodStore, Store, Snaps, Levels
  <2>4. MemRollback(s, l).lvl = l /\ MemRollback(s, l).dur = s.dur
    BY DEF MemRollback, GoodStore, Store
  <2> QED
    BY <1>3, <2>1, <2>2, <2>3, <2>4 DEF GoodStore
<1> QED
  BY <1>1, <1>2, <1>3 DEF Engines

(* lsm_rollback() to level l leaves what level l rolls back to, and moves   *)
(* no rollback target of level l or below.                                  *)
LEMMA RollbackKeepsTargets ==
  ASSUME NEW s \in GoodStore, NEW l \in Levels, l <= s.lvl
  PROVE  /\ KVStoreRollback("lsm", s, l).cont = RollsBackTo(s, l)
         /\ \A m \in Levels : m <= l =>
              RollsBackTo(KVStoreRollback("lsm", s, l), m) = RollsBackTo(s, m)
<1>1. KVStoreRollback("lsm", s, l) = LsmRollback(s, l)
  BY DEF KVStoreRollback
<1>2. /\ LsmRollback(s, l).lvl = l
      /\ \A m \in Levels : m <= l => LsmRollback(s, l).snap[m] = s.snap[m]
      /\ LsmRollback(s, l).cont = s.snap[l]
  BY SMTT(40), MaxLevelAssumption DEF LsmRollback, SnapUpTo, GoodStore, Store, Snaps, Levels
<1> QED
  BY SMTT(40), <1>1, <1>2, MaxLevelAssumption DEF RollsBackTo, GoodStore, Store, Snaps, Levels

(* A write changes no level, and no rollback target of a level that is open. *)
LEMMA WriteGood ==
  ASSUME NEW k \in Engines, NEW s \in GoodStore, NEW c \in Content
  PROVE  /\ KVStoreWrite(k, s, c) \in GoodStore
         /\ KVStoreWrite(k, s, c).lvl = s.lvl
         /\ \A m \in Levels : m <= s.lvl =>
              RollsBackTo(KVStoreWrite(k, s, c), m) = RollsBackTo(s, m)
<1>1. /\ KVStoreWrite(k, s, c).lvl = s.lvl
      /\ KVStoreWrite(k, s, c).snap = s.snap
      /\ KVStoreWrite(k, s, c) \in Store
  BY DEF KVStoreWrite, LsmWrite, LdbWrite, GoodStore, Store
<1> QED
  BY <1>1 DEF RollsBackTo, GoodStore

(* A commit that failed keeps the level it had.                             *)
LEMMA CommitFailsGood ==
  ASSUME NEW s \in GoodStore
  PROVE  /\ LsmCommitFails(s) \in GoodStore
         /\ LsmCommitFails(s).lvl = s.lvl
<1>1. LsmCommitFails(s).lvl = s.lvl /\ LsmCommitFails(s) \in Store
  BY DEF LsmCommitFails, GoodStore, Store, Snaps
<1>2. \A i \in Levels : i <= s.lvl => LsmCommitFails(s).snap[i] \in Content
  BY DEF LsmCommitFails, GoodStore, Store
<1> QED
  BY <1>1, <1>2 DEF GoodStore

-----------------------------------------------------------------------------
(* The connection.                                                          *)

Stores == [Dbs -> GoodStore]

(* Who may be running: no statement is on the stack twice, one that is not  *)
(* running holds nothing, only writing statements have statement            *)
(* transactions, and a program around OP_Savepoint runs alone.              *)
Control ==
  /\ \A i, j \in 1..Len(stk) : stk[i] = stk[j] => i = j
  /\ \A v \in Vdbes : vm[v].mask # {} => v \in Writers
  /\ \A v \in Vdbes : vm[v].mask \subseteq vm[v].txn
  /\ \A v \in Vdbes : vm[v].todo \cap vm[v].txn = {}
  /\ \A v \in Running : vm[v].kind = "txn" => OnTop(v) /\ Writers = {}

(* The stores behind kvldb never leave level 0.                             *)
LdbFlat == \A d \in Dbs \ Leveled : st[d].lvl = 0

IInv ==
  /\ TypeOK
  /\ st \in Stores
  /\ Control
  /\ LdbFlat
  /\ LevelsAccounted
  /\ SavepointsRestorable

-----------------------------------------------------------------------------
(* The stores, all at once.                                                 *)

(* sqlite4VdbeRollback(): no store is left above level l, and the targets   *)
(* of the levels up to l stay.                                              *)
LEMMA RollbackStoresGood ==
  ASSUME NEW s \in Stores, NEW l \in Nat
  PROVE  /\ RollbackStores(s, l) \in Stores
         /\ \A d \in Leveled : RollbackStores(s, l)[d].lvl =
                                 IF s[d].lvl >= l THEN l ELSE s[d].lvl
         /\ \A d \in Dbs \ Leveled : RollbackStores(s, l)[d].lvl = s[d].lvl
         /\ \A d \in Lsm, m \in 2..l :
              RollsBackTo(RollbackStores(s, l)[d], m) = RollsBackTo(s[d], m)
         /\ \A d \in Lsm : l >= 2 =>
              RollbackStores(s, l)[d].cont = RollsBackTo(s[d], l)
<1>1. ASSUME NEW d \in Dbs, s[d].lvl >= l
      PROVE  /\ RollbackStores(s, l)[d] = KVStoreRollback(Kind[d], s[d], l)
             /\ Kind[d] \in Engines
             /\ s[d] \in GoodStore
             /\ s[d].lvl \in 0..MaxLevel
             /\ l \in 0..MaxLevel
  BY SMTT(40), <1>1, KindAssumption, MaxLevelAssumption
  DEF RollbackStores, Stores, GoodStore, Store
<1>2. ASSUME NEW d \in Dbs, ~(s[d].lvl >= l)
      PROVE  RollbackStores(s, l)[d] = s[d]
  BY <1>2 DEF RollbackStores
<1>3. ASSUME NEW d \in Dbs
      PROVE  /\ RollbackStores(s, l)[d] \in GoodStore
             /\ d \in Leveled => RollbackStores(s, l)[d].lvl =
                                   IF s[d].lvl >= l THEN l ELSE s[d].lvl
             /\ d \notin Leveled => RollbackStores(s, l)[d].lvl = s[d].lvl
  <2>1. CASE s[d].lvl >= l
    BY SMTT(40), <1>1, <2>1, RollbackGood DEF Leveled
  <2>2. CASE ~(s[d].lvl >= l)
    BY <1>2, <2>2 DEF Stores
  <2> QED
    BY <2>1, <2>2
<1>4. ASSUME NEW d \in Lsm
      PROVE  /\ \A m \in 2..l : RollsBackTo(RollbackStores(s, l)[d], m) =
                                  RollsBackTo(s[d], m)
             /\ l >= 2 => RollbackStores(s, l)[d].cont = RollsBackTo(s[d], l)
  <2>0. d \in Dbs /\ Kind[d] = "lsm"
    BY DEF Lsm
  <2>1. CASE s[d].lvl >= l
    <3>1. l >= 2 => l \in Levels
      BY SMTT(40), <1>1, <2>0, <2>1, MaxLevelAssumption DEF Levels
    <3>2. \A m \in 2..l : m \in Levels
      BY SMTT(40), <1>1, <2>0, <2>1, MaxLevelAssumption DEF Levels
    <3> QED
      BY SMTT(40), <1>1, <2>0, <2>1, <3>1, <3>2, RollbackKeepsTargets
  <2>2. CASE ~(s[d].lvl >= l)
    BY <1>2, <2>0, <2>2 DEF RollsBackTo
  <2> QED
    BY <2>1, <2>2
<1>5. RollbackStores(s, l) = [d \in Dbs |-> RollbackStores(s, l)[d]]
  BY DEF RollbackStores
<1> QED
  BY <1>3, <1>4, <1>5 DEF Stores, Leveled

(* sqlite4VdbeCommit(): no store is left above level l, and the targets of  *)
(* the levels up to l stay.                                                 *)
LEMMA CommitStoresGood ==
  ASSUME NEW s \in Stores, NEW l \in Nat
  PROVE  /\ CommitStores(s, l) \in Stores
         /\ \A d \in Leveled : CommitStores(s, l)[d].lvl =
                                 IF s[d].lvl > l THEN l ELSE s[d].lvl
         /\ \A d \in Dbs \ Leveled : CommitStores(s, l)[d].lvl = s[d].lvl
         /\ \A d \in Lsm, m \in 2..l :
              RollsBackTo(CommitStores(s, l)[d], m) = RollsBackTo(s[d], m)
<1>1. ASSUME NEW d \in Dbs, s[d].lvl > l
      PROVE  /\ CommitStores(s, l)[d] = KVStoreCommit(Kind[d], s[d], l)
             /\ Kind[d] \in Engines
             /\ s[d] \in GoodStore
             /\ l \in 0..s[d].lvl
             /\ l \in 0..MaxLevel
  BY SMTT(40), <1>1, KindAssumption, MaxLevelAssumption
  DEF CommitStores, Stores, GoodStore, Store
<1>2. ASSUME NEW d \in Dbs, ~(s[d].lvl > l)
      PROVE  CommitStores(s, l)[d] = s[d]
  BY <1>2 DEF CommitStores
<1>3. ASSUME NEW d \in Dbs
      PROVE  /\ CommitStores(s, l)[d] \in GoodStore
             /\ d \in Leveled => CommitStores(s, l)[d].lvl =
                                   IF s[d].lvl > l THEN l ELSE s[d].lvl
             /\ d \notin Leveled => CommitStores(s, l)[d].lvl = s[d].lvl
  <2>1. CASE s[d].lvl > l
    BY SMTT(40), <1>1, <2>1, CommitGood DEF Leveled
  <2>2. CASE ~(s[d].lvl > l)
    BY <1>2, <2>2 DEF Stores
  <2> QED
    BY <2>1, <2>2
<1>4. ASSUME NEW d \in Lsm, NEW m \in 2..l
      PROVE  RollsBackTo(CommitStores(s, l)[d], m) = RollsBackTo(s[d], m)
  <2>0. d \in Dbs /\ Kind[d] = "lsm"
    BY DEF Lsm
  <2>1. CASE s[d].lvl > l
    <3>1. m \in Levels /\ m <= l /\ l <= s[d].lvl
      BY SMTT(40), <1>1, <2>0, <2>1, MaxLevelAssumption DEF Levels
    <3> QED
      BY SMTT(40), <1>1, <2>0, <2>1, <3>1, CommitKeepsTargets
  <2>2. CASE ~(s[d].lvl > l)
    BY <1>2, <2>0, <2>2
  <2> QED
    BY <2>1, <2>2
<1>5. CommitStores(s, l) = [d \in Dbs |-> CommitStores(s, l)[d]]
  BY DEF CommitStores
<1> QED
  BY <1>3, <1>4, <1>5 DEF Stores, Leveled

(* A commit that fails on database i leaves no store above level 1.         *)
LEMMA CommitFailsAtGood ==
  ASSUME NEW s \in Stores, NEW l \in Nat \ {0}, NEW i \in Dbs
  PROVE  /\ CommitFailsAt(s, l, i) \in Stores
         /\ \A d \in Leveled : CommitFailsAt(s, l, i)[d].lvl <= 1
         /\ \A d \in Dbs \ Leveled : CommitFailsAt(s, l, i)[d].lvl = s[d].lvl
<1> DEFINE t == [d \in Dbs |->
      CASE d < i -> IF s[d].lvl > l THEN KVStoreCommit(Kind[d], s[d], l)
                    ELSE s[d]
        [] d = i -> LsmCommitFails(s[d])
        [] d > i -> s[d]]
<1>1. ASSUME NEW d \in Dbs
      PROVE  /\ t[d] \in GoodStore
             /\ d \notin Leveled => t[d].lvl = s[d].lvl
  <2>1. d \in Int /\ i \in Int /\ s[d] \in GoodStore
    BY SMTT(40), NDbAssumption DEF Dbs, Stores
  <2>2. CASE d < i
    <3>1. t[d] = CommitStores(s, l)[d]
      BY SMTT(40), <2>1, <2>2 DEF CommitStores
    <3> HIDE DEF t
    <3> QED
      BY SMTT(40), <3>1, CommitStoresGood DEF Stores
  <2>3. CASE d = i
    <3>1. t[d] = LsmCommitFails(s[d])
      BY SMTT(40), <2>1, <2>3
    <3> HIDE DEF t
    <3> QED
      BY <2>1, <3>1, CommitFailsGood
  <2>4. CASE d > i
    <3>1. t[d] = s[d]
      BY SMTT(40), <2>1, <2>4
    <3> HIDE DEF t
    <3> QED
      BY <2>1, <3>1
  <2> QED
    BY SMTT(40), <2>1, <2>2, <2>3, <2>4
<1>2. t \in Stores
  BY <1>1 DEF Stores
<1>3. CommitFailsAt(s, l, i) = RollbackStores(t, 1)
  BY DEF CommitFailsAt
<1> HIDE DEF t
<1>4. \A d \in Leveled : t[d].lvl \in 0..MaxLevel
  BY <1>2 DEF Stores, GoodStore, Store, Leveled
<1>5. /\ RollbackStores(t, 1) \in Stores
      /\ \A d \in Leveled : RollbackStores(t, 1)[d].lvl =
                              IF t[d].lvl >= 1 THEN 1 ELSE t[d].lvl
      /\ \A d \in Dbs \ Leveled : RollbackStores(t, 1)[d].lvl = t[d].lvl
  BY SMTT(40), <1>2, RollbackStoresGood
<1>6. \A d \in Leveled : RollbackStores(t, 1)[d].lvl <= 1
  BY SMTT(40), <1>4, <1>5, MaxLevelAssumption
<1> QED
  BY <1>1, <1>3, <1>5, <1>6

(* vdbeCloseStatement() drops one level of each store in stmtTransMask, and *)
(* moves no target below that level, given that the store has such a level. *)
LEMMA StatementClosedGood ==
  ASSUME NEW s \in Stores, NEW v \in Vdbes, NEW rollback \in BOOLEAN,
         \A d \in Leveled : d \in vm[v].mask => s[d].lvl >= 2
  PROVE  /\ StatementClosed(v, s, rollback) \in Stores
         /\ \A d \in Leveled : StatementClosed(v, s, rollback)[d].lvl =
              IF d \in vm[v].mask THEN s[d].lvl - 1 ELSE s[d].lvl
         /\ \A d \in Dbs \ Leveled :
              StatementClosed(v, s, rollback)[d].lvl = s[d].lvl
         /\ \A d \in Lsm : \A m \in Levels : m < s[d].lvl =>
              RollsBackTo(StatementClosed(v, s, rollback)[d], m) =
                RollsBackTo(s[d], m)
         /\ \A d \in Dbs : d \notin vm[v].mask =>
              StatementClosed(v, s, rollback)[d] = s[d]
<1> DEFINE b(d) == IF rollback THEN KVStoreRollback(Kind[d], s[d], s[d].lvl)
                   ELSE s[d]
<1>1. ASSUME NEW d \in Dbs
      PROVE  /\ Kind[d] \in Engines
             /\ s[d] \in GoodStore
             /\ s[d].lvl \in 0..MaxLevel
  BY KindAssumption DEF Stores, GoodStore, Store
<1>2. ASSUME NEW d \in Dbs
      PROVE  b(d) \in GoodStore /\ b(d).lvl = s[d].lvl
  <2>1. s[d].lvl <= s[d].lvl
    BY SMTT(40), <1>1, MaxLevelAssumption
  <2> QED
    BY <1>1, <2>1, RollbackGood
<1>3. ASSUME NEW d \in Lsm, NEW m \in Levels, m <= s[d].lvl
      PROVE  RollsBackTo(b(d), m) = RollsBackTo(s[d], m)
  <2>1. d \in Dbs /\ Kind[d] = "lsm"
    BY DEF Lsm
  <2>2. s[d].lvl \in Levels /\ s[d].lvl <= s[d].lvl
    BY SMTT(40), <1>1, <1>3, <2>1, MaxLevelAssumption DEF Levels
  <2> QED
    BY SMTT(40), <1>1, <1>3, <2>1, <2>2, RollbackKeepsTargets
<1>4. StatementClosed(v, s, rollback) =
        [d \in Dbs |-> IF d \in vm[v].mask
                       THEN KVStoreCommit(Kind[d], b(d), b(d).lvl - 1)
                       ELSE s[d]]
  BY DEF StatementClosed
<1> HIDE DEF b
<1>5. ASSUME NEW d \in Dbs, d \in vm[v].mask
      PROVE  /\ Kind[d] \in Engines
             /\ b(d) \in GoodStore
             /\ b(d).lvl - 1 \in Int
             /\ Kind[d] # "ldb" => b(d).lvl - 1 \in 0..b(d).lvl
             /\ Kind[d] # "ldb" => b(d).lvl - 1 \in 0..MaxLevel
             /\ b(d).lvl - 1 <= b(d).lvl
  BY SMTT(40), <1>1, <1>2, <1>5, MaxLevelAssumption DEF Leveled
<1>6. ASSUME NEW d \in Dbs
      PROVE  /\ StatementClosed(v, s, rollback)[d] \in GoodStore
             /\ d \in Leveled => StatementClosed(v, s, rollback)[d].lvl =
                  IF d \in vm[v].mask THEN s[d].lvl - 1 ELSE s[d].lvl
             /\ d \notin Leveled =>
                  StatementClosed(v, s, rollback)[d].lvl = s[d].lvl
  <2>1. CASE d \in vm[v].mask
    BY SMTT(40), <1>2, <1>4, <1>5, <2>1, CommitGood DEF Leveled
  <2>2. CASE d \notin vm[v].mask
    BY <1>1, <1>4, <2>2
  <2> QED
    BY <2>1, <2>2
<1>7. ASSUME NEW d \in Lsm, NEW m \in Levels, m < s[d].lvl
      PROVE  RollsBackTo(StatementClosed(v, s, rollback)[d], m) =
               RollsBackTo(s[d], m)
  <2>1. d \in Dbs /\ Kind[d] = "lsm" /\ Kind[d] # "ldb"
    BY DEF Lsm
  <2>2. CASE d \in vm[v].mask
    <3>1. m <= b(d).lvl - 1 /\ m <= s[d].lvl
      BY SMTT(40), <1>1, <1>2, <1>7, <2>1, MaxLevelAssumption DEF Levels
    <3>2. StatementClosed(v, s, rollback)[d] =
            KVStoreCommit("lsm", b(d), b(d).lvl - 1)
      BY <1>4, <2>1, <2>2
    <3>3. RollsBackTo(KVStoreCommit("lsm", b(d), b(d).lvl - 1), m) =
            RollsBackTo(b(d), m)
      BY <1>5, <2>1, <2>2, <3>1, CommitKeepsTargets
    <3> QED
      BY <1>3, <3>1, <3>2, <3>3
  <2>3. CASE d \notin vm[v].mask
    BY <1>4, <2>1, <2>3
  <2> QED
    BY <2>2, <2>3
<1>8. StatementClosed(v, s, rollback) \in Stores
  BY <1>4, <1>6 DEF Stores
<1>9. \A d \in Dbs : d \notin vm[v].mask =>
        StatementClosed(v, s, rollback)[d] = s[d]
  BY <1>4
<1> QED
  BY <1>6, <1>7, <1>8, <1>9 DEF Leveled

-----------------------------------------------------------------------------
(* Who runs.                                                                *)

(* The half of the type invariant that is about the statements.             *)
TypedControl ==
  /\ vm \in [Vdbes -> Statement]
  /\ stk \in Seq(Vdbes)
  /\ \A i \in 1..Len(stk) : vm[stk[i]].run
  /\ Control

(* A statement that has halted holds nothing.                               *)
LEMMA IdleTyped == Idle \in Statement
BY SMTT(40), InitContentAssumption DEF Idle, Statement

(* The head of the stack of sqlite4_step() calls is a running statement.    *)
LEMMA TopRuns ==
  ASSUME TypedControl, NEW v \in Vdbes, OnTop(v)
  PROVE  /\ v \in Running
         /\ Len(stk) >= 1
         /\ stk[1] = v
BY SMTT(40) DEF TypedControl, OnTop, Running

(* A program around OP_Savepoint runs while no statement writes.            *)
LEMMA SavepointRunsAlone ==
  ASSUME TypedControl, NEW v \in Vdbes, CanSavepoint(v)
  PROVE  Writers = {}
BY TopRuns DEF CanSavepoint, TypedControl, Control

(* Returning from OP_Savepoint changes nobody's transactions.               *)
LEMMA ReturnsControl ==
  ASSUME TypedControl, NEW v \in Vdbes, NEW rc \in {"ok", "error"},
         Returns(v, rc)
  PROVE  /\ TypedControl'
         /\ Running' = Running
         /\ Writers' = Writers
         /\ \A d : StatementTxns(d)' = StatementTxns(d)
<1>1. /\ vm' \in [Vdbes -> Statement]
      /\ \A w \in Vdbes : /\ vm'[w].run = vm[w].run
                           /\ vm'[w].kind = vm[w].kind
                           /\ vm'[w].mask = vm[w].mask
                           /\ vm'[w].txn = vm[w].txn
                           /\ vm'[w].todo = vm[w].todo
  <2>1. vm \in [Vdbes -> Statement] /\ vm[v] \in Statement
    BY DEF TypedControl
  <2>2. vm' = [vm EXCEPT ![v] = [vm[v] EXCEPT !.rc = rc]]
    BY <2>1 DEF Returns
  <2>3. [vm[v] EXCEPT !.rc = rc] \in Statement
    BY <2>1 DEF Statement
  <2> QED
    BY SMTT(20), <2>1, <2>2, <2>3 DEF Statement
<1>2. Running' = Running
  BY <1>1 DEF Running
<1>3. Writers' = Writers
  BY <1>1, <1>2 DEF Writers, Running
<1>4. \A d : StatementTxns(d)' = StatementTxns(d)
  BY <1>1 DEF StatementTxns
<1>5. TypedControl'
  BY SMTT(40), <1>1, <1>2, <1>3 DEF TypedControl, Control, Returns, OnTop, Running
<1> QED
  BY <1>2, <1>3, <1>4, <1>5

-----------------------------------------------------------------------------
(* The invariant, action by action.                                         *)

(* Good stores are stores.                                                  *)
LEMMA StoresTyped == Stores \subseteq [Dbs -> Store]
BY DEF Stores, GoodStore

(* Levels are numbers.                                                      *)
LEMMA LevelsTyped ==
  ASSUME Counting, sp \in Seq(Savepoint), NEW d
  PROVE  /\ WriteLevel \in Nat /\ WriteLevel >= 2 /\ WriteLevel >= Len(sp) + 1
         /\ IsFiniteSet(StatementTxns(d))
         /\ Cardinality(StatementTxns(d)) \in Nat
         /\ LevelBound(d) \in Nat /\ LevelBound(d) >= WriteLevel
<1>1. WriteLevel \in Nat /\ WriteLevel >= 2 /\ WriteLevel >= Len(sp) + 1
  BY SMTT(40) DEF WriteLevel
<1>2. IsFiniteSet(StatementTxns(d)) /\ Cardinality(StatementTxns(d)) \in Nat
  BY VdbesAssumption, CountPart DEF StatementTxns
<1> QED
  BY SMTT(40), <1>1, <1>2 DEF LevelBound

(* OP_Transaction raises a store to the level of the innermost savepoint,   *)
(* which moves no target, and then the store is exactly as deep as what is  *)
(* open accounts for.                                                       *)
LEMMA OpenedGood ==
  ASSUME Counting, IInv, NEW d \in Dbs, WriteLevel <= MaxLevel
  PROVE  /\ Opened(d) \in GoodStore
         /\ d \in Leveled => Opened(d).lvl = LevelBound(d)
         /\ d \notin Leveled => Opened(d).lvl = 0
         /\ d \in Lsm => \A m \in Levels : m <= WriteLevel =>
              RollsBackTo(Opened(d), m) = RollsBackTo(st[d], m)
<1>1. /\ st[d] \in GoodStore
      /\ st[d].lvl \in Nat
      /\ Kind[d] \in Engines
  BY SMTT(40), KindAssumption DEF IInv, Stores, GoodStore, Store
<1>2. /\ WriteLevel \in Nat /\ WriteLevel >= 2
      /\ LevelBound(d) \in Nat /\ LevelBound(d) >= WriteLevel
      /\ IsFiniteSet(StatementTxns(d))
  BY LevelsTyped DEF IInv, TypeOK
<1>3. StatementTxns(d) = {} => LevelBound(d) = WriteLevel
  BY SMTT(40), <1>2, CountNone DEF LevelBound
<1>4. d \in Leveled /\ StatementTxns(d) # {} => st[d].lvl = LevelBound(d)
  <2> SUFFICES ASSUME d \in Leveled, NEW w \in StatementTxns(d)
               PROVE  st[d].lvl = LevelBound(d)
    OBVIOUS
  <2>1. w \in Writers /\ d \in vm[w].txn
    BY DEF StatementTxns, IInv, Control
  <2> QED
    BY <2>1 DEF IInv, LevelsAccounted
<1>5. d \in Leveled => st[d].lvl <= LevelBound(d)
  BY DEF IInv, LevelsAccounted
<1>6. CASE st[d].lvl < WriteLevel
  <2>1. Opened(d) = KVStoreBegin(Kind[d], st[d], WriteLevel)
    BY <1>6 DEF Opened
  <2>2. WriteLevel \in 1..MaxLevel
    BY SMTT(40), <1>2, MaxLevelAssumption
  <2>3. d \in Leveled => LevelBound(d) = WriteLevel
    BY SMTT(40), <1>1, <1>2, <1>3, <1>4, <1>6
  <2>4. /\ Opened(d) \in GoodStore
        /\ Opened(d).lvl = IF Kind[d] = "ldb" THEN st[d].lvl ELSE WriteLevel
    BY SMTT(40), <1>1, <1>6, <2>1, <2>2, BeginGood
  <2>5. d \in Lsm => \A m \in Levels : m <= WriteLevel =>
          RollsBackTo(Opened(d), m) = RollsBackTo(st[d], m)
    BY SMTT(40), <1>1, <1>6, <2>1, <2>2, BeginKeepsTargets DEF Lsm
  <2> QED
    BY <2>3, <2>4, <2>5 DEF Leveled, IInv, LdbFlat
<1>7. CASE ~(st[d].lvl < WriteLevel)
  <2>1. Opened(d) = st[d]
    BY <1>7 DEF Opened
  <2>2. d \in Leveled => st[d].lvl = LevelBound(d)
    BY SMTT(40), <1>1, <1>2, <1>3, <1>4, <1>5, <1>7
  <2> QED
    BY <1>1, <2>1, <2>2 DEF IInv, LdbFlat
<1> QED
  BY <1>6, <1>7

(* freeSavepoints() keeps the savepoints below the level.                   *)
LEMMA SavepointsBelowGood ==
  ASSUME sp \in Seq(Savepoint), NEW l \in 1..(Len(sp) + 1)
  PROVE  /\ SavepointsBelow(l) \in Seq(Savepoint)
         /\ Len(SavepointsBelow(l)) = l - 1
         /\ \A i \in 1..(l - 1) : i \in 1..Len(sp) /\ SavepointsBelow(l)[i] = sp[i]
<1>1. Len(sp) \in Nat
  BY SMTT(40)
<1>2. SavepointsBelow(l) = SubSeq(sp, 1, l - 1)
  BY SMTT(40), <1>1 DEF SavepointsBelow
<1> QED
  BY SMTT(40), <1>1, <1>2

(* A statement whose end is the end of the transaction is the only one that *)
(* writes.                                                                  *)
LEMMA OutermostWritesAlone ==
  ASSUME IInv, NestedTxn = FALSE, NEW v \in Vdbes, NEW r \in Results,
         CanEnd(v, r), Outermost(v, r)
  PROVE  Writers \subseteq {v}
<1>1. EAction(v, r) = 2 => r = <<"constraint", "rollback">>
  BY SMTT(40) DEF EAction
<1> QED
  BY <1>1 DEF CanEnd, Outermost
=============================================================================

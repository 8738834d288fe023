------------------------- MODULE VdbeTxnUndoLemmas --------------------------
(***************************************************************************)
(* What a failing statement undoes, what other connections see and what is *)
(* left open, action by action: the stores, the stack of sqlite4_step()    *)
(* calls, the statement transactions and the counter of deferred           *)
(* constraints.                                                            *)
(*                                                                         *)
(* NestedTxn = FALSE as in VdbeTxnSteps. What is said of the counter is    *)
(* about one database: with two, a statement undone on one of them takes   *)
(* back the counter that a statement inside it raised for the other.       *)
(***************************************************************************)
EXTENDS VdbeTxnLemmas

USE ZenonT(40)

(* Rolling the whole transaction back leaves what other connections read.   *)
Durable(s) == RollsBackTo(s, 2) = s.dur

-----------------------------------------------------------------------------
(* One store.                                                               *)

(* lsm_begin() changes neither what is read nor what others read.           *)
LEMMA BeginDurable ==
  ASSUME NEW s \in GoodStore, NEW l \in 1..MaxLevel, s.lvl < l, Durable(s)
  PROVE  Durable(KVStoreBegin("lsm", s, l))
<1>1. 2 \in Levels
  BY SMTT(40), MaxLevelAssumption DEF Levels
<1>2. /\ KVStoreBegin("lsm", s, l).dur = s.dur
      /\ KVStoreBegin("lsm", s, l).cont = s.cont
      /\ KVStoreBegin("lsm", s, l).lvl = l
  BY BeginGood DEF Engines
<1>3. CASE l >= 2
  BY <1>1, <1>2, <1>3, BeginKeepsTargets DEF Durable
<1>4. CASE ~(l >= 2)
  BY SMTT(40), <1>2, <1>4, MaxLevelAssumption DEF Durable, RollsBackTo, GoodStore, Store
<1> QED
  BY <1>3, <1>4

(* lsm_commit() shows others what is read now when it ends the write        *)
(* transaction, and nothing when it does not.                               *)
LEMMA CommitDurable ==
  ASSUME NEW s \in GoodStore, NEW l \in 0..MaxLevel, l <= s.lvl, Durable(s),
         NEW t, t = KVStoreCommit("lsm", s, l)
  PROVE  /\ Durable(t)
         /\ l >= 2 => t.dur = s.dur
         /\ l < 2 => t.dur = s.cont
<1>0. s.lvl \in 0..MaxLevel /\ 2 \in Levels
  BY SMTT(40), MaxLevelAssumption DEF GoodStore, Store, Levels
<1>1. CASE s.lvl = l
  <2>1. t = s
    BY <1>1 DEF KVStoreCommit
  <2> QED
    BY SMTT(40), <1>0, <1>1, <2>1, MaxLevelAssumption DEF Durable, RollsBackTo
<1>2. CASE s.lvl # l
  <2>1. t = LsmCommit(s, l)
    BY <1>2 DEF KVStoreCommit
  <2>2. /\ t.lvl = l /\ t.cont = s.cont
        /\ t.snap = SnapUpTo(s, l)
        /\ t.dur = IF s.lvl >= 2 /\ l < 2 THEN s.cont ELSE s.dur
    BY <1>0, <2>1 DEF LsmCommit, GoodStore, Store
  <2>3. SnapUpTo(s, l)[2] = IF 2 <= l THEN s.snap[2] ELSE NoSnap
    BY <1>0 DEF SnapUpTo
  <2> QED
    BY SMTT(40), <1>0, <1>2, <2>2, <2>3, MaxLevelAssumption DEF Durable, RollsBackTo
<1> QED
  BY <1>1, <1>2

(* lsm_rollback() changes nothing others read, and out of the write         *)
(* transaction it leaves exactly that.                                      *)
LEMMA RollbackDurable ==
  ASSUME NEW s \in GoodStore, NEW l \in 0..MaxLevel, l <= s.lvl, Durable(s),
         NEW t, t = KVStoreRollback("lsm", s, l)
  PROVE  /\ Durable(t)
         /\ t.dur = s.dur
         /\ l < 2 => t.cont = s.dur
<1>0. s.lvl \in 0..MaxLevel /\ 2 \in Levels
  BY SMTT(40), MaxLevelAssumption DEF GoodStore, Store, Levels
<1>1. t = LsmRollback(s, l)
  BY DEF KVStoreRollback
<1>2. /\ t.lvl = l /\ t.dur = s.dur
      /\ t.snap = SnapUpTo(s, l)
      /\ t.cont = IF s.lvl >= 2 THEN s.snap[IF l < 2 THEN 2 ELSE l] ELSE s.cont
  BY <1>0, <1>1 DEF LsmRollback, GoodStore, Store
<1>3. SnapUpTo(s, l)[2] = IF 2 <= l THEN s.snap[2] ELSE NoSnap
  BY <1>0 DEF SnapUpTo
<1> QED
  BY SMTT(40), <1>0, <1>2, <1>3, MaxLevelAssumption DEF Durable, RollsBackTo

(* A write inside a write transaction is seen by nobody else.               *)
LEMMA WriteDurable ==
  ASSUME NEW s \in GoodStore, NEW c \in Content, Durable(s),
         NEW t, t = KVStoreWrite("lsm", s, c)
  PROVE  /\ Durable(t)
         /\ t.cont = c
         /\ s.lvl >= 2 => t.dur = s.dur
<1>0. s.lvl \in 0..MaxLevel
  BY DEF GoodStore, Store
<1>1. t = LsmWrite(s, c)
  BY DEF KVStoreWrite
<1>2. /\ t.lvl = s.lvl /\ t.snap = s.snap /\ t.cont = c
      /\ t.dur = IF s.lvl < 2 THEN c ELSE s.dur
  BY <1>1 DEF LsmWrite, GoodStore, Store
<1> QED
  BY SMTT(40), <1>0, <1>2, MaxLevelAssumption DEF Durable, RollsBackTo

(* After an lsm_commit() that failed a rollback keeps what was not          *)
(* committed, and others read it.                                           *)
LEMMA CommitFailsDurable ==
  ASSUME NEW s \in GoodStore,
         NEW t, t = LsmCommitFails(s)
  PROVE  /\ Durable(t)
         /\ t.cont = s.cont /\ t.dur = s.cont
<1>0. s.lvl \in 0..MaxLevel /\ 2 \in Levels
  BY SMTT(40), MaxLevelAssumption DEF GoodStore, Store, Levels
<1>1. /\ t.lvl = s.lvl /\ t.cont = s.cont /\ t.dur = s.cont
      /\ t.snap[2] = IF 2 <= s.lvl THEN s.cont ELSE NoSnap
  BY <1>0 DEF LsmCommitFails, GoodStore, Store
<1> QED
  BY <1>0, <1>1, MaxLevelAssumption DEF Durable, RollsBackTo

-----------------------------------------------------------------------------
(* The stores, all at once.                                                 *)

(* sqlite4VdbeRollback(): others see nothing of it.                         *)
LEMMA RollbackStoresDurable ==
  ASSUME NEW s \in Stores, NEW l \in Nat, NEW d \in Lsm, Durable(s[d])
  PROVE  LET t == RollbackStores(s, l)[d] IN
         /\ Durable(t)
         /\ t.dur = s[d].dur
         /\ l < 2 => t.cont = s[d].dur
<1> DEFINE t == RollbackStores(s, l)[d]
<1>1. /\ d \in Dbs /\ Kind[d] = "lsm" /\ s[d] \in GoodStore
      /\ s[d].lvl \in 0..MaxLevel
  BY DEF Lsm, Stores, GoodStore, Store
<1>2. CASE s[d].lvl >= l
  <2>1. t = KVStoreRollback("lsm", s[d], l) /\ l \in 0..MaxLevel /\ l <= s[d].lvl
    BY SMTT(40), <1>1, <1>2, MaxLevelAssumption DEF RollbackStores
  <2> QED
    BY <1>1, <2>1, RollbackDurable
<1>3. CASE ~(s[d].lvl >= l)
  <2>1. t = s[d]
    BY <1>1, <1>3 DEF RollbackStores
  <2> QED
    BY SMTT(40), <1>1, <1>3, <2>1, MaxLevelAssumption DEF Durable, RollsBackTo
<1> QED
  BY <1>2, <1>3

(* sqlite4VdbeCommit(): others see what is read now once no write           *)
(* transaction is left, and nothing before.                                 *)
LEMMA CommitStoresDurable ==
  ASSUME NEW s \in Stores, NEW l \in Nat, NEW d \in Lsm, Durable(s[d])
  PROVE  LET t == CommitStores(s, l)[d] IN
         /\ Durable(t)
         /\ t.cont = s[d].cont
         /\ l >= 2 => t.dur = s[d].dur
         /\ l < 2 => t.dur = s[d].cont
<1> DEFINE t == CommitStores(s, l)[d]
<1>1. /\ d \in Dbs /\ Kind[d] = "lsm" /\ s[d] \in GoodStore
      /\ s[d].lvl \in 0..MaxLevel
  BY DEF Lsm, Stores, GoodStore, Store
<1>2. CASE s[d].lvl > l
  <2>1. /\ t = KVStoreCommit("lsm", s[d], l)
        /\ l \in 0..MaxLevel /\ l <= s[d].lvl /\ l \in Int /\ l \in 0..s[d].lvl
    BY SMTT(40), <1>1, <1>2, MaxLevelAssumption DEF CommitStores
  <2>2. t.cont = s[d].cont
    <3>1. "lsm" \in Engines
      BY DEF Engines
    <3> QED
      BY SMTT(40), <1>1, <2>1, <3>1, CommitGood
  <2> QED
    BY SMTT(40), <1>1, <2>1, <2>2, CommitDurable
<1>3. CASE ~(s[d].lvl > l)
  <2>1. t = s[d]
    BY <1>1, <1>3 DEF CommitStores
  <2> QED
    BY SMTT(40), <1>1, <1>3, <2>1, MaxLevelAssumption DEF Durable, RollsBackTo
<1> QED
  BY <1>2, <1>3

(* A commit of the transaction that fails on database i: every store holds  *)
(* what others read, either what was to be committed or what was there      *)
(* before, and keeps the read transaction it had.                           *)
LEMMA CommitFailsAtDurable ==
  ASSUME NEW s \in Stores, NEW i \in Dbs, NEW d \in Lsm, Durable(s[d])
  PROVE  LET t == CommitFailsAt(s, 1, i)[d] IN
         /\ Durable(t)
         /\ t.cont = t.dur
         /\ t.dur \in {s[d].cont, s[d].dur}
         /\ s[d].lvl >= 1 => t.lvl >= 1
<1> DEFINE t == CommitFailsAt(s, 1, i)[d]
           f == [e \in Dbs |->
      CASE e < i -> IF s[e].lvl > 1 THEN KVStoreCommit(Kind[e], s[e], 1)
                    ELSE s[e]
        [] e = i -> LsmCommitFails(s[e])
        [] e > i -> s[e]]
<1>1. /\ d \in Dbs /\ Kind[d] = "lsm" /\ s[d] \in GoodStore
      /\ s[d].lvl \in 0..MaxLevel /\ d \in Int /\ i \in Int /\ d \in Leveled
  BY SMTT(40), NDbAssumption DEF Lsm, Leveled, Stores, GoodStore, Store, Dbs
<1>2. CommitFailsAt(s, 1, i) = RollbackStores(f, 1)
  BY DEF CommitFailsAt
<1>3. /\ f[d] \in GoodStore
      /\ Durable(f[d])
      /\ f[d].dur \in {s[d].cont, s[d].dur}
      /\ s[d].lvl >= 1 => f[d].lvl >= 1
  <2>1. CASE d < i
    <3>1. f[d] = CommitStores(s, 1)[d]
      BY SMTT(40), <1>1, <2>1 DEF CommitStores
    <3> HIDE DEF f
    <3>2. /\ CommitStores(s, 1) \in Stores
          /\ CommitStores(s, 1)[d].lvl = IF s[d].lvl > 1 THEN 1 ELSE s[d].lvl
      BY <1>1, CommitStoresGood
    <3>3. CommitStores(s, 1)[d] \in GoodStore
      BY <1>1, <3>2 DEF Stores
    <3>4. Durable(f[d]) /\ f[d].dur = s[d].cont
      BY SMTT(40), <3>1, CommitStoresDurable
    <3> QED
      BY SMTT(40), <1>1, <3>1, <3>2, <3>3, <3>4, MaxLevelAssumption
  <2>2. CASE d = i
    <3>1. f[d] = LsmCommitFails(s[d])
      BY SMTT(40), <1>1, <2>2
    <3> HIDE DEF f
    <3> QED
      BY <1>1, <3>1, CommitFailsDurable, CommitFailsGood
  <2>3. CASE d > i
    <3>1. f[d] = s[d]
      BY SMTT(40), <1>1, <2>3
    <3> HIDE DEF f
    <3> QED
      BY <1>1, <3>1
  <2> QED
    BY SMTT(40), <1>1, <2>1, <2>2, <2>3
<1>4. RollbackStores(f, 1)[d] = IF f[d].lvl >= 1 THEN KVStoreRollback("lsm", f[d], 1)
                                ELSE f[d]
  BY SMTT(40), <1>1 DEF RollbackStores
<1> HIDE DEF f
<1>5. f[d].lvl \in 0..MaxLevel /\ 1 \in 0..MaxLevel
  BY SMTT(40), <1>3, MaxLevelAssumption DEF GoodStore, Store
<1>6. CASE f[d].lvl >= 1
  <2>1. /\ t = KVStoreRollback("lsm", f[d], 1) /\ 1 <= f[d].lvl
        /\ "lsm" \in Engines
    BY <1>2, <1>4, <1>6 DEF Engines
  <2>2. t.lvl = 1
    BY SMTT(40), <1>3, <1>5, <2>1, RollbackGood
  <2>3. Durable(t) /\ t.dur = f[d].dur /\ (1 < 2 => t.cont = f[d].dur)
    BY SMTT(40), <1>3, <1>5, <2>1, RollbackDurable
  <2> QED
    BY SMTT(40), <1>3, <2>2, <2>3
<1>7. CASE ~(f[d].lvl >= 1)
  <2>1. t = f[d]
    BY <1>2, <1>4, <1>7
  <2> QED
    BY SMTT(40), <1>3, <1>5, <1>7, <2>1, MaxLevelAssumption DEF Durable, RollsBackTo
<1> QED
  BY <1>6, <1>7

(* vdbeCloseStatement(): others see nothing of it, and a rollback leaves    *)
(* what the innermost level goes back to.                                   *)
LEMMA StatementClosedDurable ==
  ASSUME NEW s \in Stores, NEW v \in Vdbes, NEW rollback \in BOOLEAN,
         NEW d \in Lsm, Durable(s[d]), d \in vm[v].mask => s[d].lvl >= 3
  PROVE  LET t == StatementClosed(v, s, rollback)[d] IN
         /\ Durable(t)
         /\ t.dur = s[d].dur
         /\ ~rollback => t.cont = s[d].cont
         /\ rollback /\ d \in vm[v].mask => t.cont = RollsBackTo(s[d], s[d].lvl)
<1> DEFINE t == StatementClosed(v, s, rollback)[d]
           b == IF rollback THEN KVStoreRollback("lsm", s[d], s[d].lvl) ELSE s[d]
<1>1. /\ d \in Dbs /\ Kind[d] = "lsm" /\ s[d] \in GoodStore
      /\ s[d].lvl \in 0..MaxLevel /\ s[d].lvl <= s[d].lvl
      /\ "lsm" \in Engines
  BY SMTT(40), MaxLevelAssumption DEF Lsm, Stores, GoodStore, Store, Engines
<1>2. t = IF d \in vm[v].mask THEN KVStoreCommit("lsm", b, b.lvl - 1) ELSE s[d]
  BY <1>1 DEF StatementClosed
<1>3. CASE d \notin vm[v].mask
  BY <1>2, <1>3
<1>4. CASE d \in vm[v].mask
  <2>1. s[d].lvl \in Levels /\ s[d].lvl >= 3
    BY SMTT(40), <1>1, <1>4, MaxLevelAssumption DEF Levels
  <2>2. /\ b \in GoodStore /\ b.lvl = s[d].lvl /\ Durable(b) /\ b.dur = s[d].dur
        /\ ~rollback => b.cont = s[d].cont
        /\ rollback => b.cont = RollsBackTo(s[d], s[d].lvl)
    <3>1. CASE rollback
      <4>1. b = KVStoreRollback("lsm", s[d], s[d].lvl)
        BY <3>1
      <4> HIDE DEF b
      <4>2. b \in GoodStore /\ b.lvl = s[d].lvl
        BY <1>1, <4>1, RollbackGood
      <4>3. Durable(b) /\ b.dur = s[d].dur
        BY <1>1, <4>1, RollbackDurable
      <4>4. b.cont = RollsBackTo(s[d], s[d].lvl)
        BY <1>1, <2>1, <4>1, RollbackKeepsTargets
      <4> QED
        BY <3>1, <4>2, <4>3, <4>4
    <3>2. CASE ~rollback
      BY <1>1, <3>2
    <3> QED
      BY <3>1, <3>2
  <2>3. t = KVStoreCommit("lsm", b, b.lvl - 1)
    BY <1>2, <1>4
  <2> HIDE DEF b
  <2> DEFINE l == b.lvl - 1
  <2>4. /\ l \in 0..MaxLevel /\ l <= b.lvl /\ l >= 2 /\ l \in Int /\ l \in 0..b.lvl
        /\ t = KVStoreCommit("lsm", b, l)
    BY SMTT(40), <1>1, <2>1, <2>2, <2>3, MaxLevelAssumption
  <2> HIDE DEF l
  <2>5. t.cont = b.cont
    BY SMTT(40), <1>1, <2>2, <2>4, CommitGood
  <2>6. Durable(t) /\ t.dur = b.dur
    BY <2>2, <2>4, CommitDurable
  <2> QED
    BY <1>4, <2>2, <2>5, <2>6
<1> QED
  BY <1>3, <1>4

(* vdbeCloseStatement() with bRollback puts back what the innermost level   *)
(* goes back to.                                                            *)
LEMMA StatementClosedRestores ==
  ASSUME NEW s \in Stores, NEW v \in Vdbes, NEW d \in Lsm, Durable(s[d]),
         d \in vm[v].mask, s[d].lvl >= 3
  PROVE  StatementClosed(v, s, TRUE)[d].cont = RollsBackTo(s[d], s[d].lvl)
<1> DEFINE b == KVStoreRollback("lsm", s[d], s[d].lvl)
           t == KVStoreCommit("lsm", b, b.lvl - 1)
<1>1. /\ d \in Dbs /\ Kind[d] = "lsm" /\ s[d] \in GoodStore
      /\ s[d].lvl \in 0..MaxLevel /\ s[d].lvl <= s[d].lvl
      /\ "lsm" \in Engines /\ s[d].lvl \in Levels
  BY SMTT(40), MaxLevelAssumption DEF Lsm, Stores, GoodStore, Store, Engines, Levels
<1>2. StatementClosed(v, s, TRUE)[d] = t
  BY <1>1 DEF StatementClosed
<1>3. b \in GoodStore /\ b.lvl = s[d].lvl
  BY <1>1, RollbackGood
<1>4. b.cont = RollsBackTo(s[d], s[d].lvl)
  BY <1>1, RollbackKeepsTargets
<1> HIDE DEF b
<1>5. b.lvl - 1 \in 0..MaxLevel /\ b.lvl - 1 <= b.lvl /\ b.lvl - 1 \in Int
  BY SMTT(40), <1>1, <1>3, MaxLevelAssumption
<1>6. t.cont = b.cont
  BY SMTT(40), <1>1, <1>3, <1>5, CommitGood
<1> HIDE DEF t
<1> QED
  BY <1>2, <1>4, <1>6

-----------------------------------------------------------------------------
(* What each step does to the statements.                                   *)

(* sqlite4_step() starts a statement that held nothing.                     *)
LEMMA StepFrame ==
  ASSUME IInv, NEW v \in Vdbes, NEW kind \in {"read", "write", "txn"},
         NEW need \in BOOLEAN, NEW ds \in SUBSET Dbs, Step(v, kind, need, ds)
  PROVE  /\ \A w \in Vdbes : w # v => vm'[w] = vm[w]
         /\ vm'[v].run /\ vm'[v].kind = kind /\ vm'[v].todo = ds
         /\ vm'[v].txn = {} /\ vm'[v].mask = {}
         /\ kind = "write" => vm'[v].pre = Conts
         /\ ~vm[v].run /\ vm[v].mask = {}
         /\ \A i \in 1..Len(stk) : stk[i] # v
<1>1. vm \in [Vdbes -> Statement]
  BY DEF IInv, TypeOK
<1>2. vm' = [vm EXCEPT ![v] = [Idle EXCEPT !.run = TRUE, !.kind = kind,
                                 !.need = need, !.todo = ds,
                                 !.pre = IF kind = "write" THEN Conts
                                         ELSE Idle.pre]]
  BY DEF Step
<1>3. vm[v].mask = {} /\ ~vm[v].run
  BY DEF IInv, Control, Writers, Running, Step
<1>4. \A i \in 1..Len(stk) : stk[i] # v
  BY <1>3 DEF IInv, TypeOK
<1> QED
  BY <1>1, <1>2, <1>3, <1>4 DEF Idle

(* OP_Savepoint returns.                                                    *)
LEMMA ReturnsFrame ==
  ASSUME IInv, NEW v \in Vdbes, NEW rc, Returns(v, rc)
  PROVE  /\ \A w \in Vdbes : /\ vm'[w].run = vm[w].run
                             /\ vm'[w].kind = vm[w].kind
                             /\ vm'[w].todo = vm[w].todo
                             /\ vm'[w].txn = vm[w].txn
                             /\ vm'[w].mask = vm[w].mask
                             /\ vm'[w].def = vm[w].def
                             /\ vm'[w].pre = vm[w].pre
         /\ stk' = stk
<1>1. vm \in [Vdbes -> Statement] /\ vm[v] \in Statement
  BY DEF IInv, TypeOK
<1>2. vm' = [vm EXCEPT ![v] = [vm[v] EXCEPT !.rc = rc]] /\ stk' = stk
  BY <1>1 DEF Returns
<1>3. LET x == [vm[v] EXCEPT !.rc = rc] IN
        /\ x.run = vm[v].run /\ x.kind = vm[v].kind /\ x.todo = vm[v].todo
        /\ x.txn = vm[v].txn /\ x.mask = vm[v].mask /\ x.def = vm[v].def
        /\ x.pre = vm[v].pre
  BY <1>1 DEF Statement
<1> QED
  BY <1>1, <1>2, <1>3

(* OP_Transaction for reading.                                              *)
LEMMA ReadFrame ==
  ASSUME IInv, NEW v \in Vdbes, NEW d \in Dbs, TransactionRead(v, d)
  PROVE  /\ \A w \in Vdbes : w # v => vm'[w] = vm[w]
         /\ \A w \in Vdbes : /\ vm'[w].run = vm[w].run
                             /\ vm'[w].kind = vm[w].kind
                             /\ vm'[w].mask = vm[w].mask
                             /\ vm'[w].def = vm[w].def
                             /\ vm'[w].pre = vm[w].pre
         /\ vm'[v].todo = vm[v].todo \ {d}
         /\ vm'[v].txn = vm[v].txn \cup {d}
<1> DEFINE x == [vm[v] EXCEPT !.todo = vm[v].todo \ {d},
                              !.txn = vm[v].txn \cup {d}]
<1>1. vm \in [Vdbes -> Statement] /\ vm[v] \in Statement
  BY DEF IInv, TypeOK
<1>2. vm' = [vm EXCEPT ![v] = x]
  BY DEF TransactionRead
<1>3. /\ x.run = vm[v].run /\ x.kind = vm[v].kind /\ x.mask = vm[v].mask
      /\ x.def = vm[v].def /\ x.pre = vm[v].pre
      /\ x.todo = vm[v].todo \ {d} /\ x.txn = vm[v].txn \cup {d}
  BY <1>1 DEF Statement
<1> HIDE DEF x
<1> QED
  BY <1>1, <1>2, <1>3

(* OP_Transaction for writing.                                              *)
LEMMA WriteFrame ==
  ASSUME IInv, NEW v \in Vdbes, NEW d \in Dbs, TransactionWrite(v, d)
  PROVE  /\ \A w \in Vdbes : w # v => vm'[w] = vm[w]
         /\ \A w \in Vdbes : /\ vm'[w].run = vm[w].run
                             /\ vm'[w].kind = vm[w].kind
                             /\ vm'[w].pre = vm[w].pre
         /\ vm'[v].todo = vm[v].todo \ {d}
         /\ vm'[v].txn = vm[v].txn \cup {d}
         /\ vm'[v].mask = IF WantStmt(v) THEN vm[v].mask \cup {d} ELSE vm[v].mask
         /\ vm'[v].def = IF WantStmt(v) THEN nDef ELSE vm[v].def
<1> DEFINE y == IF WantStmt(v) THEN vm[v].mask \cup {d} ELSE vm[v].mask
           n == IF WantStmt(v) THEN nDef ELSE vm[v].def
           x == [vm[v] EXCEPT !.todo = vm[v].todo \ {d},
                              !.txn = vm[v].txn \cup {d}, !.mask = y, !.def = n]
<1>1. vm \in [Vdbes -> Statement] /\ vm[v] \in Statement
  BY DEF IInv, TypeOK
<1>2. vm' = [vm EXCEPT ![v] = x]
  BY DEF TransactionWrite
<1> HIDE DEF y, n
<1>3. /\ x.run = vm[v].run /\ x.kind = vm[v].kind /\ x.pre = vm[v].pre
      /\ x.todo = vm[v].todo \ {d} /\ x.txn = vm[v].txn \cup {d}
      /\ x.mask = y /\ x.def = n
  BY <1>1 DEF Statement
<1> HIDE DEF x
<1>4. /\ \A w \in Vdbes : w # v => vm'[w] = vm[w]
      /\ vm'[v] = x
  BY <1>1, <1>2
<1> QED
  BY <1>3, <1>4 DEF y, n

(* OP_Transaction fails.                                                    *)
LEMMA FailsFrame ==
  ASSUME IInv, NEW v \in Vdbes, NEW d \in Dbs, TransactionFails(v, d)
  PROVE  /\ \A w \in Vdbes : w # v => vm'[w] = vm[w]
         /\ \A w \in Vdbes : /\ vm'[w].run = vm[w].run
                             /\ vm'[w].kind = vm[w].kind
                             /\ vm'[w].todo = vm[w].todo
                             /\ vm'[w].txn = vm[w].txn
                             /\ vm'[w].mask = vm[w].mask
                             /\ vm'[w].pre = vm[w].pre
         /\ vm'[v].def = nDef
<1> DEFINE x == [vm[v] EXCEPT !.rc = "error", !.def = nDef]
<1>1. vm \in [Vdbes -> Statement] /\ vm[v] \in Statement
  BY DEF IInv, TypeOK
<1>2. vm' = [vm EXCEPT ![v] = x]
  BY DEF TransactionFails
<1>3. /\ x.run = vm[v].run /\ x.kind = vm[v].kind /\ x.mask = vm[v].mask
      /\ x.def = nDef /\ x.pre = vm[v].pre
      /\ x.todo = vm[v].todo /\ x.txn = vm[v].txn
  BY <1>1 DEF Statement
<1> HIDE DEF x
<1> QED
  BY <1>1, <1>2, <1>3

(* A row is written.                                                        *)
LEMMA RowWriteFrame ==
  ASSUME IInv, NEW v \in Vdbes, NEW d \in Dbs, NEW c \in Content,
         NEW fk \in BOOLEAN, Write(v, d, c, fk)
  PROVE  \A w \in Vdbes : /\ vm'[w].run = vm[w].run
                          /\ vm'[w].kind = vm[w].kind
                          /\ vm'[w].todo = vm[w].todo
                          /\ vm'[w].txn = vm[w].txn
                          /\ vm'[w].mask = vm[w].mask
                          /\ vm'[w].def = vm[w].def
                          /\ vm'[w].pre = vm[w].pre
<1> DEFINE x == [vm[v] EXCEPT !.wrote = TRUE, !.fk = fk]
<1>1. vm \in [Vdbes -> Statement] /\ vm[v] \in Statement
  BY DEF IInv, TypeOK
<1>2. vm' = [vm EXCEPT ![v] = x]
  BY DEF Write
<1>3. /\ x.run = vm[v].run /\ x.kind = vm[v].kind /\ x.mask = vm[v].mask
      /\ x.def = vm[v].def /\ x.pre = vm[v].pre
      /\ x.todo = vm[v].todo /\ x.txn = vm[v].txn
  BY <1>1 DEF Statement
<1> HIDE DEF x
<1> QED
  BY <1>1, <1>2, <1>3

(* A statement halts.                                                       *)
LEMMA HaltFrame ==
  ASSUME IInv, NEW v \in Vdbes, vm' = [vm EXCEPT ![v] = Idle]
  PROVE  /\ \A w \in Vdbes : w # v => vm'[w] = vm[w]
         /\ ~vm'[v].run /\ vm'[v].todo = {} /\ vm'[v].txn = {}
         /\ vm'[v].mask = {}
         /\ Running' = Running \ {v}
<1>1. vm \in [Vdbes -> Statement]
  BY DEF IInv, TypeOK
<1>2. /\ \A w \in Vdbes : w # v => vm'[w] = vm[w]
      /\ ~vm'[v].run /\ vm'[v].todo = {} /\ vm'[v].txn = {}
      /\ vm'[v].mask = {}
  BY <1>1 DEF Idle
<1> QED
  BY <1>2 DEF Running

-----------------------------------------------------------------------------
(* What is read, what others read and which read transactions are open.     *)

DurableStores == \A d \in Lsm : Durable(st[d])

ReadersOpen ==
  \A v \in Running, d \in Lsm : d \in vm[v].txn => st[d].lvl >= 1

(* What every step owes: the two invariants, and that nothing is shown to   *)
(* others while a transaction stays open.                                   *)
StoresKept ==
  /\ DurableStores'
  /\ ReadersOpen'
  /\ sp # <<>> /\ sp' # <<>> => \A d \in Lsm : st'[d].dur = st[d].dur

(* A store that a running statement writes is as deep as what is open       *)
(* accounts for, and one deeper than that for each statement transaction.   *)
LEMMA WriterLevel ==
  ASSUME Counting, IInv, NEW v \in Writers, NEW d \in Leveled, d \in vm[v].txn
  PROVE  /\ st[d].lvl = LevelBound(d)
         /\ LevelBound(d) \in Nat /\ LevelBound(d) >= 2
         /\ WriteLevel \in Nat /\ WriteLevel >= 2 /\ WriteLevel >= Len(sp) + 1
         /\ IsFiniteSet(StatementTxns(d))
         /\ Cardinality(StatementTxns(d)) \in Nat
         /\ d \in vm[v].mask => LevelBound(d) >= WriteLevel + 1
<1>1. st[d].lvl = LevelBound(d)
  BY DEF IInv, LevelsAccounted
<1>2. /\ WriteLevel \in Nat /\ WriteLevel >= 2 /\ WriteLevel >= Len(sp) + 1
      /\ IsFiniteSet(StatementTxns(d))
      /\ Cardinality(StatementTxns(d)) \in Nat
      /\ LevelBound(d) \in Nat /\ LevelBound(d) >= WriteLevel
  BY LevelsTyped DEF IInv, TypeOK
<1>3. ASSUME d \in vm[v].mask PROVE LevelBound(d) >= WriteLevel + 1
  <2>1. v \in StatementTxns(d)
    BY <1>3 DEF StatementTxns, Writers, Running
  <2>2. Cardinality(StatementTxns(d)) # 0
    BY <1>2, <2>1, CountNone
  <2> QED
    BY SMTT(40), <1>2, <2>2 DEF LevelBound
<1> QED
  BY SMTT(40), <1>1, <1>2, <1>3

(* A statement transaction is at level 3 or above.                          *)
LEMMA MaskLevel ==
  ASSUME Counting, IInv, NEW v \in Vdbes, NEW d \in Leveled, d \in vm[v].mask
  PROVE  /\ v \in Writers /\ d \in vm[v].txn
         /\ st[d].lvl = LevelBound(d) /\ st[d].lvl >= 3
<1>1. v \in Writers /\ d \in vm[v].txn
  BY DEF IInv, Control
<1> QED
  BY SMTT(40), <1>1, WriterLevel

(* A step that changes no store and opens none for a statement.             *)
LEMMA QuietStores ==
  ASSUME DurableStores, ReadersOpen, st' = st,
         \A w \in Running' : vm'[w].txn # {} =>
                              w \in Running /\ vm'[w].txn = vm[w].txn
  PROVE  StoresKept
BY DEF DurableStores, ReadersOpen, StoresKept

(* A step of a statement that changes one store, down from no level.        *)
LEMMA OneStore ==
  ASSUME IInv, DurableStores, ReadersOpen, NEW v \in Vdbes, NEW d \in Dbs, NEW b,
         st' = [st EXCEPT ![d] = b], Running' = Running,
         \A w \in Running : w # v => vm'[w].txn = vm[w].txn,
         vm'[v].txn \subseteq vm[v].txn \cup {d},
         d \in Lsm => /\ Durable(b) /\ b.dur = st[d].dur
                      /\ b.lvl \in Nat /\ b.lvl >= st[d].lvl
                      /\ d \in vm'[v].txn => b.lvl >= 1
  PROVE  StoresKept
<1>1. \A e \in Lsm : st'[e] = IF e = d THEN b ELSE st[e]
  BY DEF IInv, Stores, Lsm
<1>2. DurableStores'
  BY <1>1 DEF DurableStores
<1>3. \A e \in Lsm : st'[e].dur = st[e].dur
  BY <1>1
<1>4. ReadersOpen'
  <2> SUFFICES ASSUME NEW w \in Running, NEW e \in Lsm, e \in vm'[w].txn
               PROVE  st'[e].lvl >= 1
    BY DEF ReadersOpen
  <2>1. st[e].lvl \in Nat
    BY SMTT(40) DEF IInv, Stores, GoodStore, Store, Lsm
  <2>2. CASE e \in vm[w].txn
    BY SMTT(40), <1>1, <2>1, <2>2 DEF ReadersOpen
  <2>3. CASE e \notin vm[w].txn
    BY <1>1, <2>3
  <2> QED
    BY <2>2, <2>3
<1> QED
  BY <1>2, <1>3, <1>4 DEF StoresKept

(* sqlite4_step(), a row and the OP_Savepoint steps that touch no store.    *)
LEMMA QuietStepsStores ==
  ASSUME IInv, DurableStores, ReadersOpen, NEW v \in Vdbes,
         \/ \E kind \in {"read", "write", "txn"}, need \in BOOLEAN,
               ds \in SUBSET Dbs : Step(v, kind, need, ds)
         \/ Row(v) \/ Resume(v)
         \/ \E name \in Names \cup {NoName} :
              SavepointBegin(v, name) \/ SavepointError(v, name)
  PROVE  StoresKept
<1>1. ASSUME NEW kind \in {"read", "write", "txn"}, NEW need \in BOOLEAN,
             NEW ds \in SUBSET Dbs, Step(v, kind, need, ds)
      PROVE  StoresKept
  <2>1. st' = st
    BY <1>1 DEF Step
  <2>2. (\A w \in Vdbes : w # v => vm'[w] = vm[w]) /\ vm'[v].txn = {}
    BY SMTT(40), <1>1, StepFrame
  <2> QED
    BY <2>1, <2>2, QuietStores DEF Running
<1>2. CASE Row(v) \/ Resume(v)
  <2>1. st' = st /\ vm' = vm
    BY <1>2 DEF Row, Resume
  <2> QED
    BY <2>1, QuietStores DEF Running
<1>3. ASSUME NEW name, SavepointBegin(v, name) \/ SavepointError(v, name)
      PROVE  StoresKept
  <2>1. st' = st /\ \E rc : Returns(v, rc)
    BY <1>3 DEF SavepointBegin, SavepointError
  <2>2. \A w \in Vdbes : vm'[w].txn = vm[w].txn /\ vm'[w].run = vm[w].run
    BY <2>1, ReturnsFrame
  <2> QED
    BY <2>1, <2>2, QuietStores DEF Running
<1> QED
  BY <1>1, <1>2, <1>3

(* OP_Transaction opens a level for savepoints and nobody sees it.          *)
LEMMA OpenedDurable ==
  ASSUME Counting, IInv, NEW d \in Lsm, Durable(st[d]), WriteLevel <= MaxLevel
  PROVE  /\ Opened(d) \in GoodStore
         /\ Durable(Opened(d)) /\ Opened(d).dur = st[d].dur
         /\ Opened(d).cont = st[d].cont
         /\ Opened(d).lvl \in Nat /\ Opened(d).lvl >= st[d].lvl
         /\ Opened(d).lvl >= 2
<1>1. /\ d \in Dbs /\ Kind[d] = "lsm" /\ st[d] \in GoodStore
      /\ st[d].lvl \in 0..MaxLevel /\ "lsm" \in Engines
  BY DEF IInv, Lsm, Stores, GoodStore, Store, Engines
<1>2. WriteLevel \in Nat /\ WriteLevel >= 2 /\ WriteLevel \in 1..MaxLevel
  BY SMTT(40), LevelsTyped, MaxLevelAssumption DEF IInv, TypeOK
<1>3. CASE st[d].lvl < WriteLevel
  <2>1. Opened(d) = KVStoreBegin("lsm", st[d], WriteLevel)
    BY <1>1, <1>3 DEF Opened
  <2>2. /\ Opened(d) \in GoodStore /\ Opened(d).lvl = WriteLevel
        /\ Opened(d).cont = st[d].cont /\ Opened(d).dur = st[d].dur
    BY SMTT(40), <1>1, <1>2, <1>3, <2>1, BeginGood
  <2>3. Durable(Opened(d))
    BY <1>1, <1>2, <1>3, <2>1, BeginDurable
  <2> QED
    BY SMTT(40), <1>1, <1>2, <1>3, <2>2, <2>3
<1>4. CASE ~(st[d].lvl < WriteLevel)
  <2>1. Opened(d) = st[d]
    BY <1>4 DEF Opened
  <2> QED
    BY SMTT(40), <1>1, <1>2, <1>4, <2>1
<1> QED
  BY <1>3, <1>4

(* OP_Transaction, whichever way.                                           *)
LEMMA TransactionStores ==
  ASSUME Counting, IInv, DurableStores, ReadersOpen, NEW v \in Vdbes, NEW d \in Dbs,
         TransactionRead(v, d) \/ TransactionWrite(v, d) \/ TransactionFails(v, d)
  PROVE  StoresKept
<1>0. d \in Lsm => /\ Kind[d] = "lsm" /\ st[d] \in GoodStore
                   /\ st[d].lvl \in 0..MaxLevel /\ st[d].lvl \in Nat
                   /\ Durable(st[d])
  BY SMTT(40), MaxLevelAssumption DEF IInv, Lsm, Stores, GoodStore, Store, DurableStores
<1>a. 1 \in 1..MaxLevel /\ "lsm" \in Engines
  BY SMTT(40), MaxLevelAssumption DEF Engines
<1>1. CASE TransactionRead(v, d)
  <2> DEFINE b == IF st[d].lvl = 0 THEN KVStoreBegin(Kind[d], st[d], 1) ELSE st[d]
  <2>1. st' = [st EXCEPT ![d] = b]
    BY <1>1 DEF TransactionRead
  <2>2. d \in Lsm => /\ Durable(b) /\ b.dur = st[d].dur
                     /\ b.lvl \in Nat /\ b.lvl >= st[d].lvl /\ b.lvl >= 1
    <3>1. CASE d \in Lsm /\ st[d].lvl = 0
      <4>1. b = KVStoreBegin("lsm", st[d], 1) /\ st[d].lvl < 1
        BY SMTT(40), <1>0, <3>1
      <4> HIDE DEF b
      <4> QED
        BY SMTT(40), <1>0, <1>a, <3>1, <4>1, BeginGood, BeginDurable
    <3>2. CASE d \in Lsm /\ st[d].lvl # 0
      BY SMTT(40), <1>0, <3>2, MaxLevelAssumption
    <3> QED
      BY <3>1, <3>2
  <2> HIDE DEF b
  <2>3. /\ \A w \in Vdbes : w # v => vm'[w] = vm[w]
        /\ \A w \in Vdbes : vm'[w].run = vm[w].run
        /\ vm'[v].txn = vm[v].txn \cup {d}
    BY <1>1, ReadFrame
  <2> QED
    BY <2>1, <2>2, <2>3, OneStore DEF Running
<1>2. CASE TransactionWrite(v, d)
  <2> DEFINE s == Opened(d)
             b == IF WantStmt(v) THEN KVStoreBegin(Kind[d], s, s.lvl + 1) ELSE s
  <2>1. /\ st' = [st EXCEPT ![d] = b]
        /\ WriteLevel <= MaxLevel /\ (WantStmt(v) => s.lvl < MaxLevel)
    BY <1>2 DEF TransactionWrite
  <2>2. d \in Lsm => /\ s \in GoodStore /\ Durable(s) /\ s.dur = st[d].dur
                     /\ s.lvl \in Nat /\ s.lvl >= st[d].lvl /\ s.lvl >= 2
    BY <1>0, <2>1, OpenedDurable
  <2> HIDE DEF s
  <2>3. d \in Lsm => /\ Durable(b) /\ b.dur = st[d].dur
                     /\ b.lvl \in Nat /\ b.lvl >= st[d].lvl /\ b.lvl >= 1
    <3>1. CASE d \in Lsm /\ WantStmt(v)
      <4>1. /\ b = KVStoreBegin("lsm", s, s.lvl + 1)
            /\ s.lvl + 1 \in 1..MaxLevel /\ s.lvl < s.lvl + 1
        BY SMTT(40), <1>0, <2>1, <2>2, <3>1, MaxLevelAssumption
      <4> HIDE DEF b
      <4>2. b.lvl = s.lvl + 1 /\ b.dur = s.dur /\ Durable(b)
        BY SMTT(40), <1>a, <2>2, <3>1, <4>1, BeginGood, BeginDurable
      <4> QED
        BY SMTT(40), <1>0, <2>2, <3>1, <4>2
    <3>2. CASE d \in Lsm /\ ~WantStmt(v)
      BY SMTT(40), <1>0, <2>2, <3>2
    <3> QED
      BY <3>1, <3>2
  <2> HIDE DEF b
  <2>4. /\ \A w \in Vdbes : w # v => vm'[w] = vm[w]
        /\ \A w \in Vdbes : vm'[w].run = vm[w].run
        /\ vm'[v].txn = vm[v].txn \cup {d}
    BY <1>2, WriteFrame
  <2> QED
    BY <2>1, <2>3, <2>4, OneStore DEF Running
<1>3. CASE TransactionFails(v, d)
  <2> DEFINE b == Opened(d)
  <2>1. st' = [st EXCEPT ![d] = b] /\ WriteLevel <= MaxLevel
    BY <1>3 DEF TransactionFails
  <2>2. d \in Lsm => /\ Durable(b) /\ b.dur = st[d].dur
                     /\ b.lvl \in Nat /\ b.lvl >= st[d].lvl /\ b.lvl >= 1
    BY SMTT(40), <1>0, <2>1, OpenedDurable
  <2> HIDE DEF b
  <2>3. \A w \in Vdbes : vm'[w].run = vm[w].run /\ vm'[w].txn = vm[w].txn
    BY <1>3, FailsFrame
  <2> QED
    BY <2>1, <2>2, <2>3, OneStore DEF Running
<1> QED
  BY <1>1, <1>2, <1>3

(* A row is written inside the write transaction of its statement.          *)
LEMMA WriteStores ==
  ASSUME Counting, IInv, DurableStores, ReadersOpen, NEW v \in Vdbes, NEW d \in Dbs,
         NEW c \in Content, NEW fk \in BOOLEAN, Write(v, d, c, fk)
  PROVE  StoresKept
<1> DEFINE b == KVStoreWrite(Kind[d], st[d], c)
<1>1. /\ st' = [st EXCEPT ![d] = b]
      /\ OnTop(v) /\ vm[v].kind = "write" /\ d \in vm[v].txn
  BY DEF Write, InBody
<1>2. v \in Writers
  BY <1>1, TopRuns DEF IInv, TypeOK, TypedControl, Writers
<1>3. d \in Lsm => /\ Durable(b) /\ b.dur = st[d].dur
                   /\ b.lvl \in Nat /\ b.lvl >= st[d].lvl /\ b.lvl >= 1
  <2> SUFFICES ASSUME d \in Lsm
               PROVE  /\ Durable(b) /\ b.dur = st[d].dur
                      /\ b.lvl = st[d].lvl /\ b.lvl \in Nat /\ b.lvl >= 2
    BY SMTT(40)
  <2>1. /\ Kind[d] = "lsm" /\ st[d] \in GoodStore /\ Durable(st[d])
        /\ d \in Leveled /\ "lsm" \in Engines
    BY DEF IInv, Lsm, Leveled, Stores, DurableStores, Engines
  <2>2. st[d].lvl \in Nat /\ st[d].lvl >= 2
    BY <1>1, <1>2, <2>1, WriterLevel
  <2>3. b = KVStoreWrite("lsm", st[d], c)
    BY <2>1
  <2> HIDE DEF b
  <2> QED
    BY SMTT(40), <2>1, <2>2, <2>3, WriteGood, WriteDurable
<1> HIDE DEF b
<1>4. \A w \in Vdbes : vm'[w].run = vm[w].run /\ vm'[w].txn = vm[w].txn
  BY RowWriteFrame
<1> QED
  BY <1>1, <1>3, <1>4, OneStore DEF Running

(* RELEASE, COMMIT, ROLLBACK TO and ROLLBACK keep the read transactions,    *)
(* and show others something only when the outermost savepoint is released. *)
LEMMA SavepointStores ==
  ASSUME IInv, DurableStores, ReadersOpen, NEW v \in Vdbes,
         NEW name \in Names \cup {NoName}, NEW j \in 1..Len(sp),
         \/ SavepointRelease(v, name, j)
         \/ \E i \in Dbs : SavepointReleaseFails(v, name, j, i)
         \/ SavepointRollback(v, name, j)
  PROVE  StoresKept
<1>0. /\ st \in Stores /\ sp \in Seq(Savepoint) /\ j \in Nat \ {0}
      /\ Len(sp) \in Nat /\ j <= Len(sp)
      /\ \A d \in Lsm : d \in Leveled /\ st[d].lvl \in Nat
  BY SMTT(40) DEF IInv, TypeOK, Stores, GoodStore, Store, Lsm, Leveled
<1>1. \A w \in Vdbes : vm'[w].run = vm[w].run /\ vm'[w].txn = vm[w].txn
  BY ReturnsFrame
  DEF SavepointRelease, SavepointReleaseFails, SavepointRollback
<1> SUFFICES /\ \A d \in Lsm : /\ Durable(st'[d])
                               /\ st[d].lvl >= 1 => st'[d].lvl >= 1
             /\ sp' # <<>> => \A d \in Lsm : st'[d].dur = st[d].dur
  BY <1>1 DEF StoresKept, DurableStores, ReadersOpen, Running
<1>2. CASE SavepointRelease(v, name, j)
  <2>1. st' = CommitStores(st, j) /\ sp' = SavepointsBelow(j)
    BY <1>2 DEF SavepointRelease
  <2>2. ASSUME NEW d \in Lsm
        PROVE  /\ Durable(st'[d])
               /\ st[d].lvl >= 1 => st'[d].lvl >= 1
               /\ j >= 2 => st'[d].dur = st[d].dur
    <3>1. st'[d].lvl = IF st[d].lvl > j THEN j ELSE st[d].lvl
      BY <1>0, <2>1, CommitStoresGood
    <3>2. Durable(st'[d]) /\ (j >= 2 => st'[d].dur = st[d].dur)
      BY <1>0, <2>1, CommitStoresDurable DEF DurableStores
    <3> QED
      BY SMTT(40), <1>0, <3>1, <3>2
  <2>3. ~(j >= 2) => sp' = <<>>
    <3>1. 1 \in 1..(Len(sp) + 1)
      BY SMTT(40), <1>0
    <3>2. SavepointsBelow(1) \in Seq(Savepoint) /\ Len(SavepointsBelow(1)) = 0
      BY SMTT(40), <1>0, <3>1, SavepointsBelowGood
    <3> QED
      BY SMTT(40), <1>0, <2>1, <3>2
  <2> QED
    BY <2>2, <2>3
<1>3. ASSUME NEW i \in Dbs, SavepointReleaseFails(v, name, j, i)
      PROVE  /\ \A d \in Lsm : /\ Durable(st'[d])
                               /\ st[d].lvl >= 1 => st'[d].lvl >= 1
             /\ sp' # <<>> => \A d \in Lsm : st'[d].dur = st[d].dur
  <2>1. sp' = <<>> /\ st' = CommitFailsAt(st, j, i) /\ j < 2
    BY <1>3 DEF SavepointReleaseFails, CanFailAt, CommitMayFail
  <2>2. st' = CommitFailsAt(st, 1, i)
    BY SMTT(40), <1>0, <2>1
  <2> QED
    BY <1>0, <2>1, <2>2, CommitFailsAtDurable DEF DurableStores
<1>4. CASE SavepointRollback(v, name, j)
  <2> DEFINE l == IF name = NoName THEN j ELSE j + 1
  <2>1. st' = RollbackStores(st, l) /\ l \in Nat /\ l >= 1
    BY SMTT(40), <1>0, <1>4 DEF SavepointRollback
  <2> HIDE DEF l
  <2>2. ASSUME NEW d \in Lsm
        PROVE  /\ Durable(st'[d])
               /\ st[d].lvl >= 1 => st'[d].lvl >= 1
               /\ st'[d].dur = st[d].dur
    <3>1. st'[d].lvl = IF st[d].lvl >= l THEN l ELSE st[d].lvl
      BY <1>0, <2>1, RollbackStoresGood
    <3>2. Durable(st'[d]) /\ st'[d].dur = st[d].dur
      BY <1>0, <2>1, RollbackStoresDurable DEF DurableStores
    <3> QED
      BY <1>0, <2>1, <3>1, <3>2
  <2> QED
    BY <2>2
<1> QED
  BY <1>2, <1>3, <1>4

(* The last lines of sqlite4VdbeHalt() close read transactions only when no *)
(* statement is left to need them.                                          *)
LEMMA FinishStores ==
  ASSUME IInv, DurableStores, ReadersOpen, NEW v \in Vdbes, NEW s \in Stores,
         NEW p, NEW n, Finish(v, s, p, n),
         \A d \in Lsm : Durable(s[d]) /\ (st[d].lvl >= 1 => s[d].lvl >= 1),
         p = <<>> \/ \A d \in Lsm : s[d].dur = st[d].dur
  PROVE  StoresKept
<1>1. vm' = [vm EXCEPT ![v] = Idle] /\ sp' = p
  BY DEF Finish
<1>2. (\A w \in Vdbes : w # v => vm'[w] = vm[w]) /\ Running' = Running \ {v}
  BY <1>1, HaltFrame
<1>3. CASE p = <<>> /\ Running = {v}
  <2>1. st' = RollbackStores(s, 0) /\ Running' = {}
    BY <1>2, <1>3 DEF Finish
  <2>2. \A d \in Lsm : Durable(st'[d])
    BY <2>1, RollbackStoresDurable
  <2> QED
    BY <1>1, <1>3, <2>1, <2>2 DEF StoresKept, DurableStores, ReadersOpen
<1>4. CASE ~(p = <<>> /\ Running = {v})
  <2>1. st' = s
    BY <1>4 DEF Finish
  <2> QED
    BY <1>1, <1>2, <2>1 DEF StoresKept, DurableStores, ReadersOpen, Running
<1> QED
  BY <1>3, <1>4

(* sqlite4VdbeHalt(), whichever way.                                        *)
LEMMA HaltStores ==
  ASSUME Counting, IInv, DurableStores, ReadersOpen, NEW v \in Vdbes, NEW r \in Results,
         \/ HaltCommit(v, r)
         \/ \E i \in Dbs : HaltCommitFails(v, r, i)
         \/ HaltRollback(v, r)
         \/ HaltStatement(v, r)
  PROVE  StoresKept
<1>0. /\ st \in Stores
      /\ \A d \in Lsm : /\ d \in Dbs /\ d \in Leveled /\ st[d].lvl \in Nat
                        /\ Durable(st[d])
  BY SMTT(40) DEF IInv, Stores, GoodStore, Store, Lsm, Leveled, DurableStores
<1>1. CASE HaltCommit(v, r)
  <2>1. Finish(v, CommitStores(st, 1), <<>>, 0)
    BY <1>1 DEF HaltCommit
  <2>2. CommitStores(st, 1) \in Stores
    BY <1>0, CommitStoresGood
  <2>3. ASSUME NEW d \in Lsm
        PROVE  /\ Durable(CommitStores(st, 1)[d])
               /\ st[d].lvl >= 1 => CommitStores(st, 1)[d].lvl >= 1
    <3>1. CommitStores(st, 1)[d].lvl = IF st[d].lvl > 1 THEN 1 ELSE st[d].lvl
      BY SMTT(40), <1>0, CommitStoresGood
    <3>2. Durable(CommitStores(st, 1)[d])
      BY <1>0, CommitStoresDurable
    <3> QED
      BY SMTT(40), <1>0, <3>1, <3>2
  <2> QED
    BY <2>1, <2>2, <2>3, FinishStores
<1>2. ASSUME NEW i \in Dbs, HaltCommitFails(v, r, i) PROVE StoresKept
  <2>1. Finish(v, CommitFailsAt(st, 1, i), <<>>, 0)
    BY <1>2 DEF HaltCommitFails
  <2>2. CommitFailsAt(st, 1, i) \in Stores
    BY SMTT(40), <1>0, CommitFailsAtGood
  <2>3. \A d \in Lsm : /\ Durable(CommitFailsAt(st, 1, i)[d])
                       /\ st[d].lvl >= 1 => CommitFailsAt(st, 1, i)[d].lvl >= 1
    BY <1>0, CommitFailsAtDurable
  <2> QED
    BY <2>1, <2>2, <2>3, FinishStores
<1>3. CASE HaltRollback(v, r)
  <2>1. Finish(v, RollbackStores(st, 1), <<>>, 0)
    BY <1>3 DEF HaltRollback
  <2>2. RollbackStores(st, 1) \in Stores
    BY <1>0, RollbackStoresGood
  <2>3. ASSUME NEW d \in Lsm
        PROVE  /\ Durable(RollbackStores(st, 1)[d])
               /\ st[d].lvl >= 1 => RollbackStores(st, 1)[d].lvl >= 1
    <3>1. RollbackStores(st, 1)[d].lvl = IF st[d].lvl >= 1 THEN 1 ELSE st[d].lvl
      BY SMTT(40), <1>0, RollbackStoresGood
    <3>2. Durable(RollbackStores(st, 1)[d])
      BY <1>0, RollbackStoresDurable
    <3> QED
      BY SMTT(40), <1>0, <3>1, <3>2
  <2> QED
    BY <2>1, <2>2, <2>3, FinishStores
<1>4. CASE HaltStatement(v, r)
  <2> DEFINE rollback == EAction(v, r) # 0
             s == StatementClosed(v, st, rollback)
             n == IF rollback /\ vm[v].mask # {} THEN vm[v].def ELSE nDef
  <2>1. Finish(v, s, sp, n)
    BY <1>4 DEF HaltStatement
  <2>2. rollback \in BOOLEAN /\ \A d \in Leveled : d \in vm[v].mask => st[d].lvl >= 3
    BY MaskLevel
  <2> HIDE DEF rollback, n
  <2>3. /\ s \in Stores
        /\ \A d \in Leveled : s[d].lvl = IF d \in vm[v].mask THEN st[d].lvl - 1
                                          ELSE st[d].lvl
    <3>1. \A d \in Leveled : d \in vm[v].mask => st[d].lvl >= 2
      <4>1. \A d \in Leveled : st[d].lvl \in Int
        BY SMTT(40), <1>0 DEF Stores, GoodStore, Store, Leveled
      <4> QED
        BY SMTT(40), <2>2, <4>1
    <3> QED
      BY <1>0, <2>2, <3>1, StatementClosedGood
  <2>4. \A d \in Lsm : Durable(s[d]) /\ s[d].dur = st[d].dur
    BY <1>0, <2>2, StatementClosedDurable
  <2>5. \A d \in Lsm : st[d].lvl >= 1 => s[d].lvl >= 1
    BY SMTT(40), <1>0, <2>2, <2>3
  <2> HIDE DEF s
  <2> QED
    BY <2>1, <2>3, <2>4, <2>5, FinishStores
<1> QED
  BY <1>1, <1>2, <1>3, <1>4

-----------------------------------------------------------------------------
(* Once nothing runs.                                                       *)

AtRest == Running = {} /\ sp = <<>> =>
            nDef = 0 /\ \A d \in Leveled : st[d].lvl = 0

(* The statement of a step that is not the end of one is still running      *)
(* after it.                                                                *)
LEMMA StillRuns ==
  ASSUME IInv, NEW v \in Vdbes,
         \/ \E kind \in {"read", "write", "txn"}, need \in BOOLEAN,
               ds \in SUBSET Dbs : Step(v, kind, need, ds)
         \/ Row(v) \/ Resume(v)
         \/ \E d \in Dbs : \/ TransactionRead(v, d) \/ TransactionWrite(v, d)
                           \/ TransactionFails(v, d)
         \/ \E d \in Dbs, c \in Content, fk \in BOOLEAN : Write(v, d, c, fk)
         \/ CanSavepoint(v) /\ \E rc : Returns(v, rc)
  PROVE  v \in Running'
<1>0. OnTop(v) => vm[v].run
  BY TopRuns DEF IInv, TypeOK, TypedControl, Running
<1>1. CASE \E kind \in {"read", "write", "txn"}, need \in BOOLEAN,
             ds \in SUBSET Dbs : Step(v, kind, need, ds)
  BY SMTT(40), <1>1, StepFrame DEF Running
<1>2. CASE Row(v) \/ Resume(v)
  BY <1>0, <1>2 DEF Row, Resume, InBody, Running
<1>3. CASE \E d \in Dbs : \/ TransactionRead(v, d) \/ TransactionWrite(v, d)
                          \/ TransactionFails(v, d)
  <2>1. OnTop(v)
    BY <1>3 DEF TransactionRead, TransactionWrite, TransactionFails
  <2>2. vm'[v].run = vm[v].run
    BY <1>3, ReadFrame, WriteFrame, FailsFrame
  <2> QED
    BY <1>0, <2>1, <2>2 DEF Running
<1>4. CASE \E d \in Dbs, c \in Content, fk \in BOOLEAN : Write(v, d, c, fk)
  BY <1>0, <1>4, RowWriteFrame DEF Write, InBody, Running
<1>5. CASE CanSavepoint(v) /\ \E rc : Returns(v, rc)
  BY <1>0, <1>5, ReturnsFrame DEF CanSavepoint, Running
<1> QED
  BY <1>1, <1>2, <1>3, <1>4, <1>5

(* The last lines of sqlite4VdbeHalt().                                     *)
LEMMA FinishAtRest ==
  ASSUME IInv, NEW v \in Vdbes, OnTop(v), NEW s \in Stores, NEW p, NEW n,
         Finish(v, s, p, n)
  PROVE  AtRest'
<1> SUFFICES ASSUME Running' = {}, sp' = <<>>
             PROVE  nDef' = 0 /\ \A d \in Leveled : st'[d].lvl = 0
  BY DEF AtRest
<1>1. v \in Running /\ Running' = Running \ {v}
  BY TopRuns, HaltFrame DEF IInv, TypeOK, TypedControl, Finish
<1>2. p = <<>> /\ Running = {v}
  BY <1>1 DEF Finish
<1>3. st' = RollbackStores(s, 0) /\ nDef' = 0
  BY <1>2 DEF Finish
<1>4. \A d \in Leveled : s[d].lvl \in Nat
  BY SMTT(40) DEF Stores, GoodStore, Store, Leveled
<1>5. \A d \in Leveled : st'[d].lvl = IF s[d].lvl >= 0 THEN 0 ELSE s[d].lvl
  BY <1>3, RollbackStoresGood
<1> QED
  BY SMTT(40), <1>3, <1>4, <1>5

(* sqlite4VdbeHalt(), whichever way, leaves good stores to its last lines.  *)
LEMMA HaltAtRest ==
  ASSUME Counting, IInv, NEW v \in Vdbes, NEW r \in Results,
         \/ HaltCommit(v, r)
         \/ \E i \in Dbs : HaltCommitFails(v, r, i)
         \/ HaltRollback(v, r)
         \/ HaltStatement(v, r)
  PROVE  AtRest'
<1>0. st \in Stores /\ OnTop(v)
  BY DEF IInv, HaltCommit, HaltCommitFails, HaltRollback, HaltStatement, CanEnd
<1>1. CASE HaltCommit(v, r)
  BY <1>0, <1>1, CommitStoresGood, FinishAtRest DEF HaltCommit
<1>2. ASSUME NEW i \in Dbs, HaltCommitFails(v, r, i) PROVE AtRest'
  <2>1. CommitFailsAt(st, 1, i) \in Stores
    BY SMTT(40), <1>0, CommitFailsAtGood
  <2> QED
    BY <1>0, <1>2, <2>1, FinishAtRest DEF HaltCommitFails
<1>3. CASE HaltRollback(v, r)
  BY <1>0, <1>3, RollbackStoresGood, FinishAtRest DEF HaltRollback
<1>4. CASE HaltStatement(v, r)
  <2> DEFINE rollback == EAction(v, r) # 0
             n == IF rollback /\ vm[v].mask # {} THEN vm[v].def ELSE nDef
  <2>1. Finish(v, StatementClosed(v, st, rollback), sp, n)
    BY <1>4 DEF HaltStatement
  <2>2. rollback \in BOOLEAN
    OBVIOUS
  <2> HIDE DEF rollback, n
  <2>3. \A d \in Leveled : d \in vm[v].mask => st[d].lvl >= 2
    <3>1. \A d \in Leveled : st[d].lvl \in Int
      BY SMTT(40), <1>0 DEF Stores, GoodStore, Store, Leveled
    <3>2. \A d \in Leveled : d \in vm[v].mask => st[d].lvl >= 3
      BY MaskLevel
    <3> QED
      BY SMTT(40), <3>1, <3>2
  <2>4. StatementClosed(v, st, rollback) \in Stores
    BY <1>0, <2>2, <2>3, StatementClosedGood
  <2> QED
    BY <1>0, <2>1, <2>4, FinishAtRest
<1> QED
  BY <1>1, <1>2, <1>3, <1>4

-----------------------------------------------------------------------------
(* Which statements are on the stack of sqlite4_step() calls.               *)

(* w is on the stack s at or beneath v.                                     *)
Under(s, v, w) == \E i, j \in 1..Len(s) : i <= j /\ s[i] = v /\ s[j] = w

(* A call on top changes who is beneath whom for nobody else.               *)
LEMMA PushUnder ==
  ASSUME NEW s \in Seq(Vdbes), NEW x \in Vdbes, NEW v, NEW w, v # x, w # x
  PROVE  Under(<<x>> \o s, v, w) <=> Under(s, v, w)
<1> DEFINE t == <<x>> \o s
<1>1. /\ Len(t) = Len(s) + 1 /\ Len(s) \in Nat
      /\ t[1] = x
      /\ \A i \in 1..Len(s) : t[i + 1] = s[i]
      /\ \A i \in 2..Len(t) : i - 1 \in 1..Len(s) /\ t[i] = s[i - 1]
  BY SMTT(40)
<1> HIDE DEF t
<1>2. ASSUME NEW i \in 1..Len(t), NEW j \in 1..Len(t), i <= j, t[i] = v, t[j] = w
      PROVE  Under(s, v, w)
  <2>1. i \in 2..Len(t) /\ j \in 2..Len(t)
    BY SMTT(40), <1>1, <1>2
  <2>2. /\ i - 1 \in 1..Len(s) /\ j - 1 \in 1..Len(s) /\ i - 1 <= j - 1
        /\ s[i - 1] = v /\ s[j - 1] = w
    BY SMTT(40), <1>1, <1>2, <2>1
  <2> QED
    BY <2>2 DEF Under
<1>3. ASSUME NEW i \in 1..Len(s), NEW j \in 1..Len(s), i <= j, s[i] = v, s[j] = w
      PROVE  Under(t, v, w)
  <2>1. /\ i + 1 \in 1..Len(t) /\ j + 1 \in 1..Len(t) /\ i + 1 <= j + 1
        /\ t[i + 1] = v /\ t[j + 1] = w
    BY SMTT(40), <1>1, <1>3
  <2> QED
    BY <2>1 DEF Under
<1> QED
  BY <1>2, <1>3 DEF Under, t

(* Nor does a call that returns.                                            *)
LEMMA PopUnder ==
  ASSUME NEW s \in Seq(Vdbes), s # <<>>, NEW v, NEW w, v # Head(s), w # Head(s)
  PROVE  Under(Tail(s), v, w) <=> Under(s, v, w)
<1>1. s = <<Head(s)>> \o Tail(s) /\ Head(s) \in Vdbes /\ Tail(s) \in Seq(Vdbes)
  BY SMTT(40)
<1> QED
  BY <1>1, PushUnder

(* Everybody on the stack is beneath the call on top, which is beneath      *)
(* nobody else.                                                             *)
LEMMA TopUnder ==
  ASSUME NEW s \in Seq(Vdbes), s # <<>>, NEW v,
         \A i, j \in 1..Len(s) : s[i] = s[j] => i = j
  PROVE  /\ (\E i \in 1..Len(s) : s[i] = v) => Under(s, Head(s), v)
         /\ v # Head(s) => ~Under(s, v, Head(s))
<1>1. 1 \in 1..Len(s) /\ s[1] = Head(s) /\ Len(s) \in Nat
  BY SMTT(40)
<1>2. ASSUME NEW i \in 1..Len(s), s[i] = v PROVE Under(s, Head(s), v)
  BY SMTT(40), <1>1, <1>2 DEF Under
<1>3. ASSUME v # Head(s), NEW i \in 1..Len(s), NEW j \in 1..Len(s),
             i <= j, s[i] = v, s[j] = Head(s)
      PROVE  FALSE
  <2>1. j = 1
    BY <1>1, <1>3
  <2> QED
    BY SMTT(40), <1>1, <1>3, <2>1
<1> QED
  BY <1>2, <1>3 DEF Under

OnStack(v) == \E i \in 1..Len(stk) : stk[i] = v

(* A statement that writes stays on the stack, one that has not run all its *)
(* OP_Transaction opcodes is on top of it, and until a writing statement    *)
(* has run them nothing is written.                                         *)
StackOrder ==
  /\ \A v \in Writers : OnStack(v)
  /\ \A v \in Running : vm[v].todo # {} => OnTop(v)
  /\ \A v \in Writers : vm[v].todo # {} => vm[v].pre = Conts

(* When sqlite4_step() can be called, every running statement is past its   *)
(* OP_Transaction opcodes.                                                  *)
LEMMA CallerPastOpening ==
  ASSUME StackOrder, CanCallStep, NEW w \in Running
  PROVE  vm[w].todo = {}
BY DEF StackOrder, CanCallStep, InBody, OnTop

(* A call is pushed on the stack.                                           *)
LEMMA PushOrder ==
  ASSUME IInv, StackOrder, NEW v \in Vdbes,
         Row(v) \/ Resume(v) \/
         \E kind \in {"read", "write", "txn"}, need \in BOOLEAN,
            ds \in SUBSET Dbs : Step(v, kind, need, ds)
  PROVE  StackOrder'
<1>0. stk \in Seq(Vdbes) /\ st' = st /\ Conts' = Conts
  BY DEF IInv, TypeOK, Row, Resume, Step, Conts
<1>1. ASSUME stk' = <<v>> \o stk
      PROVE  /\ Head(stk') = v /\ stk' # <<>>
             /\ \E i \in 1..Len(stk') : stk'[i] = v
             /\ \A w \in Vdbes : OnStack(w) => OnStack(w)'
  <2>1. /\ Head(stk') = v /\ stk' # <<>> /\ 1 \in 1..Len(stk') /\ stk'[1] = v
        /\ \A i \in 1..Len(stk) : i + 1 \in 1..Len(stk') /\ stk'[i + 1] = stk[i]
    BY SMTT(40), <1>0, <1>1
  <2>2. \A w \in Vdbes : OnStack(w) => OnStack(w)'
    BY <2>1 DEF OnStack
  <2> QED
    BY <2>1, <2>2
<1>2. ASSUME NEW kind \in {"read", "write", "txn"}, NEW need \in BOOLEAN,
             NEW ds \in SUBSET Dbs, Step(v, kind, need, ds)
      PROVE  StackOrder'
  <2>1. CanCallStep /\ stk' = <<v>> \o stk
    BY <1>2 DEF Step
  <2>2. /\ \A w \in Vdbes : w # v => vm'[w] = vm[w]
        /\ vm'[v].run /\ vm'[v].kind = kind
        /\ kind = "write" => vm'[v].pre = Conts
    BY SMTT(40), <1>2, StepFrame
  <2>3. \A w \in Running' : w # v => w \in Running /\ vm'[w].todo = {}
    BY <2>1, <2>2, CallerPastOpening DEF Running
  <2>4. \A w \in Writers' : w # v => w \in Writers
    BY <2>2 DEF Writers, Running
  <2>5. \A w \in Writers' : OnStack(w)'
    BY SMTT(40), <1>1, <2>1, <2>4 DEF StackOrder, OnStack, Writers, Running
  <2>6. \A w \in Running' : vm'[w].todo # {} => OnTop(w)'
    BY <1>1, <2>1, <2>3 DEF OnTop
  <2>7. \A w \in Writers' : vm'[w].todo # {} => vm'[w].pre = Conts'
    BY <1>0, <2>2, <2>3 DEF Writers
  <2> QED
    BY <2>5, <2>6, <2>7 DEF StackOrder
<1>3. CASE Resume(v)
  <2>1. CanCallStep /\ stk' = <<v>> \o stk /\ vm' = vm
    BY <1>3 DEF Resume
  <2>2. Running' = Running /\ Writers' = Writers
    BY <2>1 DEF Running, Writers
  <2>3. \A w \in Running' : vm'[w].todo = {}
    BY <2>1, <2>2, CallerPastOpening
  <2>4. \A w \in Writers' : OnStack(w)'
    BY <1>1, <2>1, <2>2 DEF StackOrder, Writers, Running
  <2> QED
    BY <2>2, <2>3, <2>4 DEF StackOrder, Writers
<1>4. CASE Row(v)
  <2>1. /\ OnTop(v) /\ vm[v].todo = {} /\ vm[v].kind = "read"
        /\ stk' = Tail(stk) /\ vm' = vm
    BY <1>4 DEF Row, InBody
  <2>2. Running' = Running /\ Writers' = Writers /\ v \notin Writers
    BY <2>1 DEF Running, Writers
  <2>3. \A w \in Running' : vm'[w].todo = {}
    BY <2>1, <2>2 DEF StackOrder, OnTop
  <2>4. \A i \in 2..Len(stk) : i - 1 \in 1..Len(stk') /\ stk'[i - 1] = stk[i]
    BY SMTT(40), <1>0, <2>1 DEF OnTop
  <2>5. ASSUME NEW w \in Writers PROVE OnStack(w)'
    <3>1. PICK i \in 1..Len(stk) : stk[i] = w
      BY DEF StackOrder, OnStack
    <3>2. i # 1
      BY SMTT(40), <1>0, <2>1, <2>2, <3>1 DEF OnTop
    <3>3. i \in 2..Len(stk)
      BY SMTT(40), <1>0, <3>2
    <3> QED
      BY <2>4, <3>1, <3>3 DEF OnStack
  <2> QED
    BY <2>2, <2>3, <2>5 DEF StackOrder, Writers
<1> QED
  BY <1>2, <1>3, <1>4

(* A statement halts and its call returns.                                  *)
LEMMA PopOrder ==
  ASSUME IInv, StackOrder, NEW v \in Vdbes, OnTop(v),
         vm' = [vm EXCEPT ![v] = Idle], stk' = Tail(stk)
  PROVE  StackOrder'
<1>0. stk \in Seq(Vdbes)
  BY DEF IInv, TypeOK
<1>1. /\ \A w \in Vdbes : w # v => vm'[w] = vm[w]
      /\ Running' = Running \ {v}
  BY HaltFrame
<1>2. \A w \in Writers' : w # v /\ w \in Writers
  BY <1>1 DEF Writers, Running
<1>3. \A w \in Running' : vm'[w].todo = {}
  BY <1>1 DEF StackOrder, OnTop, Running
<1>4. \A i \in 2..Len(stk) : i - 1 \in 1..Len(stk') /\ stk'[i - 1] = stk[i]
  BY SMTT(40), <1>0 DEF OnTop
<1>5. ASSUME NEW w \in Writers' PROVE OnStack(w)'
  <2>1. PICK i \in 1..Len(stk) : stk[i] = w
    BY <1>2 DEF StackOrder, OnStack
  <2>2. i # 1
    BY SMTT(40), <1>0, <1>2, <2>1 DEF OnTop
  <2>3. i \in 2..Len(stk)
    BY SMTT(40), <1>0, <2>2
  <2> QED
    BY <1>4, <2>1, <2>3 DEF OnStack
<1> QED
  BY <1>3, <1>5 DEF StackOrder, Writers

(* OP_Transaction of any engine changes no content.                         *)
LEMMA OpenedContent ==
  ASSUME Counting, IInv, NEW d \in Dbs, WriteLevel <= MaxLevel
  PROVE  Opened(d).cont = st[d].cont
<1>1. st[d] \in GoodStore /\ Kind[d] \in Engines /\ st[d].lvl \in 0..MaxLevel
  BY KindAssumption DEF IInv, Stores, GoodStore, Store
<1>2. WriteLevel \in 1..MaxLevel
  BY SMTT(40), LevelsTyped, MaxLevelAssumption DEF IInv, TypeOK
<1> QED
  BY <1>1, <1>2, BeginGood DEF Opened

(* OP_Transaction.                                                          *)
LEMMA TransactionOrder ==
  ASSUME Counting, IInv, StackOrder, NEW v \in Vdbes, NEW d \in Dbs,
         TransactionRead(v, d) \/ TransactionWrite(v, d) \/ TransactionFails(v, d)
  PROVE  StackOrder'
<1>1. /\ \A w \in Vdbes : w # v => vm'[w] = vm[w]
      /\ \A w \in Vdbes : /\ vm'[w].run = vm[w].run
                          /\ vm'[w].kind = vm[w].kind
                          /\ vm'[w].pre = vm[w].pre
      /\ vm'[v].todo \subseteq vm[v].todo
  BY ReadFrame, WriteFrame, FailsFrame
<1>2. OnTop(v) /\ d \in vm[v].todo /\ stk' = stk
  BY DEF TransactionRead, TransactionWrite, TransactionFails, FirstTodo
<1>3. Running' = Running
  BY <1>1 DEF Running
<1>4. Writers' = Writers
  BY <1>1, <1>3 DEF Writers, Running
<1>5. \A w \in Running' : vm'[w].todo # {} => OnTop(w)'
  BY <1>1, <1>2, <1>3 DEF StackOrder, OnTop, Running
<1>6. \A w \in Writers' : OnStack(w)'
  BY <1>2, <1>4 DEF StackOrder, OnStack
<1>7. ASSUME vm[v].kind = "write" PROVE Conts' = Conts
  <2>1. TransactionWrite(v, d) \/ TransactionFails(v, d)
    BY <1>7 DEF TransactionRead
  <2>2. WriteLevel <= MaxLevel
    BY <2>1 DEF TransactionWrite, TransactionFails
  <2>3. Opened(d).cont = st[d].cont
    BY <2>2, OpenedContent
  <2>4. \E b : st' = [st EXCEPT ![d] = b] /\ b.cont = st[d].cont
    <3>1. CASE TransactionFails(v, d)
      BY <2>3, <3>1 DEF TransactionFails
    <3>2. CASE TransactionWrite(v, d)
      <4> DEFINE s == Opened(d)
                 b == IF WantStmt(v) THEN KVStoreBegin(Kind[d], s, s.lvl + 1)
                      ELSE s
      <4>1. st' = [st EXCEPT ![d] = b] /\ (WantStmt(v) => s.lvl < MaxLevel)
        BY <3>2 DEF TransactionWrite
      <4>2. s \in GoodStore /\ Kind[d] \in Engines
        BY <2>2, OpenedGood, KindAssumption
      <4> HIDE DEF s
      <4>3. b.cont = s.cont
        <5>1. CASE WantStmt(v)
          <6>1. s.lvl + 1 \in 1..MaxLevel /\ s.lvl < s.lvl + 1
            BY SMTT(40), <4>1, <4>2, <5>1, MaxLevelAssumption DEF GoodStore, Store
          <6>2. b = KVStoreBegin(Kind[d], s, s.lvl + 1)
            BY <5>1
          <6> HIDE DEF b
          <6> QED
            BY <4>2, <6>1, <6>2, BeginGood
        <5>2. CASE ~WantStmt(v)
          BY <5>2
        <5> QED
          BY <5>1, <5>2
      <4>4. s.cont = st[d].cont
        BY <2>3 DEF s
      <4> HIDE DEF b
      <4> QED
        BY <4>1, <4>3, <4>4
    <3> QED
      BY <2>1, <3>1, <3>2
  <2> QED
    BY <2>4 DEF Conts, IInv, Stores
<1>8. ASSUME NEW w \in Writers', vm'[w].todo # {} PROVE vm'[w].pre = Conts'
  <2>1. OnTop(w)
    BY <1>2, <1>3, <1>5, <1>8 DEF Writers, OnTop
  <2>2. w = v
    BY <1>2, <2>1 DEF OnTop
  <2>3. v \in Writers /\ vm[v].kind = "write"
    BY <1>4, <1>8, <2>2 DEF Writers
  <2>4. vm[v].pre = Conts
    BY <1>2, <2>3 DEF StackOrder
  <2>5. vm'[v].pre = vm[v].pre
    BY <1>1
  <2> QED
    BY <1>7, <2>2, <2>3, <2>4, <2>5
<1> QED
  BY <1>5, <1>6, <1>8 DEF StackOrder

(* A row is written, and OP_Savepoint.                                      *)
LEMMA BodyOrder ==
  ASSUME IInv, StackOrder, NEW v \in Vdbes,
         \/ \E d \in Dbs, c \in Content, fk \in BOOLEAN : Write(v, d, c, fk)
         \/ CanSavepoint(v) /\ \E rc : Returns(v, rc)
  PROVE  StackOrder'
<1>1. /\ \A w \in Vdbes : /\ vm'[w].run = vm[w].run
                          /\ vm'[w].kind = vm[w].kind
                          /\ vm'[w].todo = vm[w].todo
                          /\ vm'[w].pre = vm[w].pre
      /\ stk' = stk /\ OnTop(v)
  BY RowWriteFrame, ReturnsFrame DEF Write, CanSavepoint, InBody
<1>2. Running' = Running
  BY <1>1 DEF Running
<1>3. Writers' = Writers
  BY <1>1, <1>2 DEF Writers, Running
<1>4. \A w \in Writers : vm[w].todo = {}
  <2>1. CASE \E d \in Dbs, c \in Content, fk \in BOOLEAN : Write(v, d, c, fk)
    <3>1. vm[v].todo = {}
      BY <2>1 DEF Write, InBody
    <3> QED
      BY <1>1, <3>1 DEF StackOrder, OnTop, Writers
  <2>2. CASE CanSavepoint(v)
    BY <2>2, SavepointRunsAlone DEF IInv, TypeOK, TypedControl
  <2> QED
    BY <2>1, <2>2
<1> QED
  BY <1>1, <1>2, <1>3, <1>4 DEF StackOrder, OnStack, OnTop, Writers, Running

-----------------------------------------------------------------------------
(* What a failing statement goes back to.                                   *)

(* The statement transactions on d of v and of the statements it was called *)
(* from, whose number gives the level that v opened.                        *)
Beneath(v, d) == {w \in StatementTxns(d) : Under(stk, v, w)}

StatementLevel(v, d) == WriteLevel + Cardinality(Beneath(v, d))

(* Every open statement transaction can be gone back to: its level selects  *)
(* what the store held when the statement started.                          *)
StatementsRestorable ==
  \A v \in Vdbes, d \in Lsm :
    d \in vm[v].mask => RollsBackTo(st[d], StatementLevel(v, d)) = vm[v].pre[d]

(* A statement transaction is one of the levels the store has.              *)
LEMMA StatementLevelTyped ==
  ASSUME Counting, IInv, NEW v \in Vdbes, NEW d \in Lsm, d \in vm[v].mask
  PROVE  /\ StatementLevel(v, d) \in Levels
         /\ StatementLevel(v, d) >= WriteLevel
         /\ StatementLevel(v, d) <= st[d].lvl
         /\ st[d].lvl = LevelBound(d) /\ st[d].lvl \in Nat
         /\ WriteLevel \in Nat /\ WriteLevel <= st[d].lvl
         /\ \A w \in StatementTxns(d) :
              w \notin Beneath(v, d) => StatementLevel(v, d) < st[d].lvl
<1>1. d \in Leveled /\ d \in Dbs
  BY DEF Lsm, Leveled
<1>2. v \in Writers /\ d \in vm[v].txn
  BY <1>1, MaskLevel
<1>3. /\ st[d].lvl = LevelBound(d)
      /\ LevelBound(d) \in Nat
      /\ WriteLevel \in Nat /\ WriteLevel >= 2
      /\ IsFiniteSet(StatementTxns(d))
      /\ Cardinality(StatementTxns(d)) \in Nat
  BY <1>1, <1>2, WriterLevel
<1>4. Beneath(v, d) \subseteq StatementTxns(d)
  BY DEF Beneath
<1>5. /\ IsFiniteSet(Beneath(v, d))
      /\ Cardinality(Beneath(v, d)) \in Nat
      /\ Cardinality(Beneath(v, d)) <= Cardinality(StatementTxns(d))
      /\ Cardinality(StatementTxns(d)) = Cardinality(Beneath(v, d)) =>
           StatementTxns(d) = Beneath(v, d)
  BY <1>3, <1>4, CountPart
<1>6. st[d].lvl <= MaxLevel
  BY SMTT(40), <1>1, MaxLevelAssumption DEF IInv, Stores, GoodStore, Store
<1>7. st[d].lvl = WriteLevel + Cardinality(StatementTxns(d))
  BY <1>3 DEF LevelBound
<1>8. StatementLevel(v, d) = WriteLevel + Cardinality(Beneath(v, d))
  BY DEF StatementLevel
<1>9. ASSUME NEW w \in StatementTxns(d), w \notin Beneath(v, d)
      PROVE  Cardinality(Beneath(v, d)) < Cardinality(StatementTxns(d))
  BY SMTT(40), <1>3, <1>5, <1>9
<1>10. \A w \in StatementTxns(d) :
         w \notin Beneath(v, d) => StatementLevel(v, d) < st[d].lvl
  BY SMTT(40), <1>3, <1>5, <1>7, <1>8, <1>9
<1> QED
  BY SMTT(40), <1>3, <1>5, <1>6, <1>7, <1>8, <1>10, MaxLevelAssumption DEF Levels

(* A step that keeps who is beneath whom and, in the stores with statement  *)
(* transactions, the targets of their levels.                               *)
LEMMA KeptRestorable ==
  ASSUME StatementsRestorable, sp' = sp,
         \A w \in Vdbes : vm'[w].mask # {} => vm'[w].pre = vm[w].pre,
         \A w \in Vdbes, d \in Lsm : d \in vm'[w].mask =>
              /\ d \in vm[w].mask
              /\ Beneath(w, d)' = Beneath(w, d)
              /\ RollsBackTo(st'[d], StatementLevel(w, d)) =
                   RollsBackTo(st[d], StatementLevel(w, d))
  PROVE  StatementsRestorable'
<1> SUFFICES ASSUME NEW w \in Vdbes, NEW d \in Lsm, d \in vm'[w].mask
             PROVE  RollsBackTo(st'[d], StatementLevel(w, d)') = vm'[w].pre[d]
  BY DEF StatementsRestorable
<1>1. WriteLevel' = WriteLevel
  BY DEF WriteLevel
<1>2. Beneath(w, d)' = Beneath(w, d)
  OBVIOUS
<1>3. StatementLevel(w, d)' = StatementLevel(w, d)
  BY <1>1, <1>2 DEF StatementLevel
<1> QED
  BY <1>3 DEF StatementsRestorable

(* sqlite4_step() and a row.                                                *)
LEMMA CallRestorable ==
  ASSUME IInv, StackOrder, StatementsRestorable, NEW v \in Vdbes,
         Row(v) \/ Resume(v) \/
         \E kind \in {"read", "write", "txn"}, need \in BOOLEAN,
            ds \in SUBSET Dbs : Step(v, kind, need, ds)
  PROVE  StatementsRestorable'
<1>0. stk \in Seq(Vdbes) /\ st' = st /\ sp' = sp
  BY DEF IInv, TypeOK, Row, Resume, Step
<1>1. /\ \A w \in Vdbes : w # v => vm'[w] = vm[w]
      /\ vm'[v].mask = {} /\ vm[v].mask = {}
      /\ stk' = <<v>> \o stk \/ (OnTop(v) /\ stk' = Tail(stk))
  <2>1. ASSUME NEW kind \in {"read", "write", "txn"}, NEW need \in BOOLEAN,
               NEW ds \in SUBSET Dbs, Step(v, kind, need, ds)
        PROVE  /\ \A w \in Vdbes : w # v => vm'[w] = vm[w]
               /\ vm'[v].mask = {} /\ vm[v].mask = {} /\ stk' = <<v>> \o stk
    <3>1. stk' = <<v>> \o stk
      BY <2>1 DEF Step
    <3> QED
      BY SMTT(40), <2>1, <3>1, StepFrame
  <2>2. CASE Resume(v)
    <3>1. v \notin Writers
      BY <2>2 DEF Resume, StackOrder, OnStack
    <3> QED
      BY <2>2, <3>1 DEF Resume, IInv, Control
  <2>3. CASE Row(v)
    <3>1. v \notin Writers
      BY <2>3 DEF Row, Writers
    <3> QED
      BY <2>3, <3>1 DEF Row, InBody, IInv, Control
  <2> QED
    BY <2>1, <2>2, <2>3
<1>2. \A d : StatementTxns(d)' = StatementTxns(d)
  BY <1>1 DEF StatementTxns
<1>3. ASSUME NEW w \in Vdbes, NEW u \in Vdbes, w # v, u # v
      PROVE  Under(stk', w, u) <=> Under(stk, w, u)
  <2>1. CASE stk' = <<v>> \o stk
    <3>1. Under(<<v>> \o stk, w, u) <=> Under(stk, w, u)
      BY <1>0, <1>3, PushUnder
    <3> QED
      BY <2>1, <3>1
  <2>2. CASE OnTop(v) /\ stk' = Tail(stk)
    <3>1. stk # <<>> /\ w # Head(stk) /\ u # Head(stk)
      BY <1>3, <2>2 DEF OnTop
    <3>2. Under(Tail(stk), w, u) <=> Under(stk, w, u)
      BY <1>0, <3>1, PopUnder
    <3> QED
      BY <2>2, <3>2
  <2> QED
    BY <1>1, <2>1, <2>2
<1>4. ASSUME NEW w \in Vdbes, NEW d, w # v PROVE Beneath(w, d)' = Beneath(w, d)
  <2>1. \A u \in StatementTxns(d) : u \in Vdbes /\ u # v
    BY <1>1 DEF StatementTxns
  <2>2. Beneath(w, d)' = {u \in StatementTxns(d) : Under(stk', w, u)}
    BY <1>2 DEF Beneath
  <2> QED
    BY <1>3, <1>4, <2>1, <2>2 DEF Beneath
<1> QED
  BY <1>0, <1>1, <1>4, KeptRestorable

(* A store with a statement transaction is deep enough already.             *)
LEMMA OpenedSame ==
  ASSUME Counting, IInv, NEW w \in Vdbes, NEW d \in Lsm, d \in vm[w].mask
  PROVE  Opened(d) = st[d]
<1>1. WriteLevel <= st[d].lvl /\ WriteLevel \in Nat /\ st[d].lvl \in Nat
  BY StatementLevelTyped
<1> QED
  BY SMTT(40), <1>1 DEF Opened

(* OP_Transaction: the level it opens for a statement goes back to what the *)
(* statement found, and no other level moves.                               *)
LEMMA TransactionRestorable ==
  ASSUME Counting, IInv, StackOrder, StatementsRestorable, NEW v \in Vdbes, NEW d \in Dbs,
         TransactionRead(v, d) \/ TransactionWrite(v, d) \/ TransactionFails(v, d)
  PROVE  StatementsRestorable'
<1>0. /\ stk \in Seq(Vdbes) /\ stk # <<>> /\ Head(stk) = v
      /\ stk' = stk /\ sp' = sp /\ OnTop(v)
      /\ \A i, j \in 1..Len(stk) : stk[i] = stk[j] => i = j
  BY DEF IInv, TypeOK, Control, OnTop, TransactionRead, TransactionWrite,
         TransactionFails
<1>1. \A w \in Vdbes : vm'[w].pre = vm[w].pre
  BY ReadFrame, WriteFrame, FailsFrame
<1>2. CASE (TransactionRead(v, d) \/ TransactionFails(v, d))
           \/ (TransactionWrite(v, d) /\ ~WantStmt(v))
  <2>1. \A w \in Vdbes : vm'[w].mask = vm[w].mask
    BY <1>2, ReadFrame, WriteFrame, FailsFrame
  <2>2. ASSUME NEW w \in Vdbes, NEW e PROVE Beneath(w, e)' = Beneath(w, e)
    <3>1. StatementTxns(e)' = StatementTxns(e)
      BY <2>1 DEF StatementTxns
    <3> QED
      BY <1>0, <3>1 DEF Beneath
  <2>3. ASSUME NEW w \in Vdbes, NEW e \in Lsm, e \in vm[w].mask
        PROVE  st'[e] = st[e]
    <3>1. e # d => st'[e] = st[e]
      <4>1. \E b : st' = [st EXCEPT ![d] = b]
        BY DEF TransactionRead, TransactionWrite, TransactionFails
      <4> QED
        BY <4>1 DEF IInv, Stores, Lsm
    <3>2. ASSUME e = d PROVE st'[e] = st[e]
      <4>1. Opened(d) = st[d]
        BY <2>3, <3>2, OpenedSame
      <4>2. st[d].lvl # 0
        BY SMTT(40), <2>3, <3>2, StatementLevelTyped DEF Levels
      <4>3. st' = [st EXCEPT ![d] = st[d]]
        <5>1. CASE TransactionRead(v, d)
          BY <4>2, <5>1 DEF TransactionRead
        <5>2. CASE TransactionFails(v, d)
          BY <4>1, <5>2 DEF TransactionFails
        <5>3. CASE TransactionWrite(v, d) /\ ~WantStmt(v)
          BY <4>1, <5>3 DEF TransactionWrite
        <5> QED
          BY <1>2, <5>1, <5>2, <5>3
      <4> QED
        BY <3>2, <4>3 DEF IInv, Stores
    <3> QED
      BY <3>1, <3>2
  <2> QED
    BY <1>0, <1>1, <2>1, <2>2, <2>3, KeptRestorable
<1>3. CASE TransactionWrite(v, d) /\ WantStmt(v)
  <2> DEFINE s == Opened(d)
             b == KVStoreBegin(Kind[d], s, s.lvl + 1)
  <2>1. /\ st' = [st EXCEPT ![d] = b]
        /\ WriteLevel <= MaxLevel /\ s.lvl < MaxLevel
        /\ vm[v].kind = "write" /\ d \in vm[v].todo
    BY <1>3 DEF TransactionWrite, FirstTodo
  <2>2. /\ \A w \in Vdbes : w # v => vm'[w] = vm[w]
        /\ vm'[v].mask = vm[v].mask \cup {d}
    BY <1>3, WriteFrame
  <2>3. v \in Writers /\ vm[v].pre = Conts /\ vm[v].mask \subseteq vm[v].txn
        /\ d \notin vm[v].txn
    BY <1>0, <2>1, TopRuns
    DEF StackOrder, IInv, TypeOK, TypedControl, Control, Writers
  <2>4. \A e : StatementTxns(e)' = IF e = d THEN StatementTxns(e) \cup {v}
                                   ELSE StatementTxns(e)
    BY <2>2 DEF StatementTxns
  <2>5. \A w \in Vdbes : w # v => ~Under(stk, w, v)
    BY <1>0, TopUnder
  <2>6. ASSUME NEW w \in Vdbes, NEW e, w # v \/ e # d
        PROVE  Beneath(w, e)' = Beneath(w, e)
    BY <1>0, <2>4, <2>5, <2>6 DEF Beneath
  <2>7. Beneath(v, d)' = StatementTxns(d) \cup {v}
    <3>1. \A w \in StatementTxns(d) \cup {v} : w \in Writers
      BY <2>3 DEF StatementTxns, IInv, Control
    <3>2. \A w \in StatementTxns(d) \cup {v} : Under(stk, v, w)
      BY <1>0, <3>1, TopUnder DEF StackOrder, OnStack
    <3> QED
      BY <1>0, <2>4, <3>2 DEF Beneath
  <2>8. \A e \in Lsm : e # d => st'[e] = st[e]
    BY SMTT(40), <2>1 DEF IInv, Stores
  <2>9. ASSUME d \in Lsm
        PROVE  /\ st'[d] = KVStoreBegin("lsm", s, s.lvl + 1)
               /\ s \in GoodStore /\ s.lvl = LevelBound(d) /\ s.lvl \in Nat
               /\ s.lvl + 1 \in 1..MaxLevel /\ s.lvl < s.lvl + 1
               /\ s.lvl + 1 \in Levels
               /\ s.cont = st[d].cont
    <3>1. Kind[d] = "lsm" /\ d \in Leveled /\ st'[d] = b
      BY <2>1, <2>9 DEF Lsm, Leveled, IInv, Stores
    <3>2. s \in GoodStore /\ s.lvl = LevelBound(d)
      BY <2>1, <3>1, OpenedGood
    <3>3. LevelBound(d) \in Nat /\ LevelBound(d) >= 2
      BY SMTT(40), LevelsTyped DEF IInv, TypeOK
    <3>4. s.cont = st[d].cont
      BY <2>1, OpenedContent
    <3> HIDE DEF s
    <3> QED
      BY SMTT(40), <2>1, <3>1, <3>2, <3>3, <3>4, MaxLevelAssumption DEF Levels
  <2> SUFFICES ASSUME NEW w \in Vdbes, NEW e \in Lsm, e \in vm'[w].mask
               PROVE  RollsBackTo(st'[e], StatementLevel(w, e)') = vm'[w].pre[e]
    BY DEF StatementsRestorable
  <2>10. WriteLevel' = WriteLevel
    BY <1>0 DEF WriteLevel
  <2>11. CASE w # v \/ e # d
    <3>1. e \in vm[w].mask
      BY <2>2, <2>11
    <3>2. StatementLevel(w, e)' = StatementLevel(w, e)
      BY <2>6, <2>10, <2>11 DEF StatementLevel
    <3>3. RollsBackTo(st[e], StatementLevel(w, e)) = vm[w].pre[e]
      BY <3>1 DEF StatementsRestorable
    <3>4. RollsBackTo(st'[e], StatementLevel(w, e)) =
            RollsBackTo(st[e], StatementLevel(w, e))
      <4>1. CASE e # d
        BY <2>8, <4>1
      <4>2. CASE e = d
        <5>1. s = st[d] /\ d \in Lsm
          BY <3>1, <4>2, OpenedSame
        <5> DEFINE m == StatementLevel(w, d)
        <5>2. m \in Levels /\ m <= s.lvl
          BY <3>1, <4>2, <5>1, StatementLevelTyped
        <5> HIDE DEF m, s
        <5>3. m <= s.lvl + 1
          BY SMTT(40), <2>9, <5>1, <5>2 DEF Levels
        <5>4. RollsBackTo(st'[d], m) = RollsBackTo(s, m)
          BY <2>9, <5>1, <5>2, <5>3, BeginKeepsTargets
        <5> QED
          BY <4>2, <5>1, <5>4 DEF m
      <4> QED
        BY <4>1, <4>2
    <3> QED
      BY <1>1, <3>2, <3>3, <3>4
  <2>12. CASE w = v /\ e = d
    <3>1. d \in Lsm
      BY <2>12
    <3>2. Cardinality(StatementTxns(d) \cup {v}) = Cardinality(StatementTxns(d)) + 1
      <4>1. v \notin StatementTxns(d)
        BY <2>3 DEF StatementTxns
      <4>2. IsFiniteSet(StatementTxns(d))
        BY LevelsTyped DEF IInv, TypeOK
      <4> QED
        BY <4>1, <4>2, CountAdded
    <3>3. StatementLevel(v, d)' = WriteLevel + Cardinality(StatementTxns(d) \cup {v})
      BY <2>7, <2>10 DEF StatementLevel
    <3>4. StatementLevel(v, d)' = s.lvl + 1
      <4>1. WriteLevel \in Nat /\ Cardinality(StatementTxns(d)) \in Nat
        BY LevelsTyped DEF IInv, TypeOK
      <4> HIDE DEF s
      <4> QED
        BY SMTT(40), <2>9, <3>1, <3>2, <3>3, <4>1 DEF LevelBound
    <3> HIDE DEF s
    <3>5. RollsBackTo(st'[d], s.lvl + 1) = RollsBackTo(s, s.lvl + 1)
      <4> DEFINE m == s.lvl + 1
      <4>1. m \in Levels /\ m \in 1..MaxLevel /\ s.lvl < m /\ m <= m
            /\ st'[d] = KVStoreBegin("lsm", s, m)
        BY SMTT(40), <2>9, <3>1 DEF Levels
      <4> HIDE DEF m
      <4>2. RollsBackTo(st'[d], m) = RollsBackTo(s, m)
        BY <2>9, <3>1, <4>1, BeginKeepsTargets
      <4> QED
        BY <4>2 DEF m
    <3>6. RollsBackTo(s, s.lvl + 1) = s.cont
      BY SMTT(40), <2>9, <3>1 DEF RollsBackTo
    <3>7. s.cont = vm[v].pre[d]
      BY <2>3, <2>9, <3>1 DEF Conts
    <3> QED
      BY <1>1, <2>12, <3>4, <3>5, <3>6, <3>7
  <2> QED
    BY <2>11, <2>12
<1> QED
  BY <1>2, <1>3

(* A row is written: no level that is open moves.                           *)
LEMMA WriteRestorable ==
  ASSUME Counting, IInv, StatementsRestorable, NEW v \in Vdbes, NEW d \in Dbs,
         NEW c \in Content, NEW fk \in BOOLEAN, Write(v, d, c, fk)
  PROVE  StatementsRestorable'
<1>0. /\ stk' = stk /\ sp' = sp
      /\ st' = [st EXCEPT ![d] = KVStoreWrite(Kind[d], st[d], c)]
  BY DEF Write
<1>1. \A w \in Vdbes : vm'[w].mask = vm[w].mask /\ vm'[w].pre = vm[w].pre
  BY RowWriteFrame
<1>2. ASSUME NEW w \in Vdbes, NEW e PROVE Beneath(w, e)' = Beneath(w, e)
  <2>1. StatementTxns(e)' = StatementTxns(e)
    BY <1>1 DEF StatementTxns
  <2> QED
    BY <1>0, <2>1 DEF Beneath
<1>3. ASSUME NEW w \in Vdbes, NEW e \in Lsm, e \in vm[w].mask
      PROVE  RollsBackTo(st'[e], StatementLevel(w, e)) =
               RollsBackTo(st[e], StatementLevel(w, e))
  <2> DEFINE m == StatementLevel(w, e)
  <2>1. m \in Levels /\ m <= st[e].lvl
    BY <1>3, StatementLevelTyped
  <2> HIDE DEF m
  <2>2. CASE e = d
    <3>1. st'[d] = KVStoreWrite(Kind[d], st[d], c)
      BY <1>0 DEF IInv, Stores
    <3>2. st[d] \in GoodStore /\ Kind[d] \in Engines
      BY KindAssumption DEF IInv, Stores
    <3>3. RollsBackTo(KVStoreWrite(Kind[d], st[d], c), m) = RollsBackTo(st[d], m)
      BY <2>1, <2>2, <3>2, WriteGood
    <3> QED
      BY <2>2, <3>1, <3>3 DEF m
  <2>3. CASE e # d
    BY <1>0, <2>3 DEF IInv, Stores, Lsm
  <2> QED
    BY <2>2, <2>3
<1> QED
  BY <1>0, <1>1, <1>2, <1>3, KeptRestorable

(* With no statement writing there is nothing to keep.                      *)
LEMMA NoWriterRestorable ==
  ASSUME IInv', Writers' = {}
  PROVE  StatementsRestorable'
BY DEF IInv, Control, StatementsRestorable

(* vdbeCloseStatement() closes the level of the statement on top, which is  *)
(* above those of all other statements.                                     *)
LEMMA HaltStatementRestorable ==
  ASSUME Counting, IInv, DurableStores, StackOrder, StatementsRestorable, NEW v \in Vdbes,
         NEW r \in Results, HaltStatement(v, r)
  PROVE  /\ StatementsRestorable'
         /\ EAction(v, r) # 0 =>
              \A d \in Lsm \cap vm[v].mask : st'[d].cont = vm[v].pre[d]
<1> DEFINE rollback == EAction(v, r) # 0
           s == StatementClosed(v, st, rollback)
           n == IF rollback /\ vm[v].mask # {} THEN vm[v].def ELSE nDef
<1>0. TypedControl /\ st \in Stores /\ rollback \in BOOLEAN
  BY DEF IInv, TypeOK, TypedControl
<1>1. OnTop(v) /\ ~Outermost(v, r) /\ Finish(v, s, sp, n)
  BY DEF HaltStatement, CanEnd
<1>2. v \in Running /\ (vm[v].kind = "write" <=> v \in Writers)
  BY <1>0, <1>1, TopRuns DEF Writers
<1>3. ~(sp = <<>> /\ Running = {v})
  <2>1. ~(sp = <<>> /\ Writers \subseteq {v})
    BY <1>1, <1>2 DEF Outermost
  <2> QED
    BY <2>1 DEF Writers
<1>4. /\ st' = s /\ sp' = sp
      /\ vm' = [vm EXCEPT ![v] = Idle] /\ stk' = Tail(stk)
  BY <1>1, <1>3 DEF Finish
<1> HIDE DEF rollback, n
<1>5. /\ \A w \in Vdbes : w # v => vm'[w] = vm[w]
      /\ vm'[v].mask = {}
  BY <1>4, HaltFrame
<1>6. /\ stk \in Seq(Vdbes) /\ stk # <<>> /\ Head(stk) = v
      /\ \A i, j \in 1..Len(stk) : stk[i] = stk[j] => i = j
  BY <1>1 DEF IInv, TypeOK, Control, OnTop
<1>7. \A d \in Leveled : d \in vm[v].mask => st[d].lvl >= 3 /\ st[d].lvl >= 2
  <2>1. \A d \in Leveled : st[d].lvl \in Int
    BY SMTT(40), <1>0 DEF Stores, GoodStore, Store, Leveled
  <2>2. \A d \in Leveled : d \in vm[v].mask => st[d].lvl >= 3
    BY MaskLevel
  <2> QED
    BY SMTT(40), <2>1, <2>2
<1>8. /\ \A d \in Lsm : \A m \in Levels : m < st[d].lvl =>
           RollsBackTo(s[d], m) = RollsBackTo(st[d], m)
      /\ \A d \in Dbs : d \notin vm[v].mask => s[d] = st[d]
  BY <1>0, <1>7, StatementClosedGood
<1>9. \A w \in Vdbes : w # v => ~Under(stk, w, v)
  BY <1>6, TopUnder
<1>10. ASSUME NEW w \in Vdbes, w # v, NEW d PROVE Beneath(w, d)' = Beneath(w, d)
  <2>1. StatementTxns(d)' = StatementTxns(d) \ {v}
    BY <1>5 DEF StatementTxns
  <2>2. \A u \in StatementTxns(d) \ {v} : Under(stk', w, u) <=> Under(stk, w, u)
    BY <1>4, <1>6, <1>10, PopUnder
  <2>3. Beneath(w, d)' = {u \in StatementTxns(d) \ {v} : Under(stk', w, u)}
    BY <2>1 DEF Beneath
  <2>4. Beneath(w, d)' = {u \in StatementTxns(d) \ {v} : Under(stk, w, u)}
    BY <2>2, <2>3
  <2> QED
    BY <1>9, <1>10, <2>4 DEF Beneath
<1>11. ASSUME NEW w \in Vdbes, NEW d \in Lsm, d \in vm'[w].mask
       PROVE  /\ w # v /\ d \in vm[w].mask
              /\ RollsBackTo(st'[d], StatementLevel(w, d)) =
                   RollsBackTo(st[d], StatementLevel(w, d))
  <2>1. w # v /\ d \in vm[w].mask /\ d \in Dbs
    BY <1>5, <1>11 DEF Lsm
  <2> DEFINE m == StatementLevel(w, d)
  <2>2. CASE d \in vm[v].mask
    <3>1. v \in StatementTxns(d) /\ v \notin Beneath(w, d)
      BY <1>9, <2>1, <2>2 DEF StatementTxns, Beneath
    <3>2. m \in Levels /\ m < st[d].lvl
      BY <2>1, <3>1, StatementLevelTyped
    <3> HIDE DEF m, s
    <3>3. RollsBackTo(s[d], m) = RollsBackTo(st[d], m)
      BY <1>8, <3>2
    <3> QED
      BY <1>4, <2>1, <3>3 DEF m
  <2>3. CASE d \notin vm[v].mask
    <3> HIDE DEF s
    <3> QED
      BY <1>4, <1>8, <2>1, <2>3
  <2> QED
    BY <2>2, <2>3
<1>12. StatementsRestorable'
  <2> HIDE DEF s
  <2>1. \A w \in Vdbes : vm'[w].mask # {} => vm'[w].pre = vm[w].pre
    BY <1>5
  <2> QED
    BY <1>4, <1>10, <1>11, <2>1, KeptRestorable
<1>13. ASSUME EAction(v, r) # 0, NEW d \in Lsm, d \in vm[v].mask
       PROVE  st'[d].cont = vm[v].pre[d]
  <2>1. \A w \in StatementTxns(d) : w \in Writers
    BY DEF StatementTxns, IInv, Control
  <2>2. Beneath(v, d) = StatementTxns(d)
    BY <1>6, <2>1, TopUnder DEF Beneath, StackOrder, OnStack
  <2>3. StatementLevel(v, d) = st[d].lvl
    <3>1. st[d].lvl = LevelBound(d)
      BY <1>13, StatementLevelTyped
    <3> QED
      BY <2>2, <3>1 DEF StatementLevel, LevelBound
  <2>4. RollsBackTo(st[d], st[d].lvl) = vm[v].pre[d]
    BY <1>13, <2>3 DEF StatementsRestorable
  <2>5. rollback
    BY <1>13 DEF rollback
  <2>6. st[d].lvl >= 3
    BY <1>7, <1>13 DEF Lsm, Leveled
  <2>7. s[d].cont = RollsBackTo(st[d], st[d].lvl)
    <3>1. Durable(st[d]) /\ (d \in vm[v].mask => st[d].lvl >= 3)
      BY <2>6 DEF DurableStores
    <3>2. rollback = TRUE
      BY <1>0, <2>5
    <3> QED
      BY <1>0, <1>13, <3>1, <3>2, StatementClosedRestores
  <2> QED
    BY <1>4, <2>4, <2>7
<1> QED
  BY <1>12, <1>13

-----------------------------------------------------------------------------
(* The counter of deferred constraints, with one database.                  *)

(* The counter of deferred constraints, with one database.                  *)

(* db->nDeferredCons, Savepoint.nDeferredCons and Vdbe.nStmtDefCons each    *)
(* count the violations in the content they go with, and other connections  *)
(* see none.                                                                *)
CountersMatch ==
  NDb = 1 /\ Lsm = Dbs =>
    /\ nDef = Viol[st[1].cont]
    /\ Viol[st[1].dur] = 0
    /\ \A j \in 1..Len(sp) : sp[j].def = Viol[sp[j].mark[1]]
    /\ \A v \in Vdbes : vm[v].mask # {} => vm[v].def = Viol[vm[v].pre[1]]

(* The test of the counter, nDeferredCons > 0, leaves only zero.            *)
LEMMA NoneLeft ==
  ASSUME NEW n \in Nat, n <= 0
  PROVE  n = 0
BY SMTT(40)

(* A step of a statement that neither writes nor ends.                      *)
LEMMA QuietCounters ==
  ASSUME CountersMatch, sp' = sp, nDef' = nDef,
         NDb = 1 /\ Lsm = Dbs => /\ st'[1].cont = st[1].cont
                                 /\ st'[1].dur = st[1].dur,
         \A w \in Vdbes : vm'[w].mask # {} =>
           \/ vm[w].mask # {} /\ vm'[w].def = vm[w].def /\ vm'[w].pre = vm[w].pre
           \/ NDb = 1 /\ Lsm = Dbs => vm'[w].def = Viol[vm'[w].pre[1]]
  PROVE  CountersMatch'
BY DEF CountersMatch

LEMMA CallCounters ==
  ASSUME IInv, CountersMatch, NEW v \in Vdbes,
         \/ \E kind \in {"read", "write", "txn"}, need \in BOOLEAN,
               ds \in SUBSET Dbs : Step(v, kind, need, ds)
         \/ Row(v) \/ Resume(v)
         \/ \E name \in Names \cup {NoName} : SavepointError(v, name)
  PROVE  CountersMatch'
<1>1. st' = st /\ sp' = sp /\ nDef' = nDef
  BY DEF Step, Row, Resume, SavepointError
<1>2. \A w \in Vdbes : vm'[w].mask # {} =>
        vm[w].mask # {} /\ vm'[w].def = vm[w].def /\ vm'[w].pre = vm[w].pre
  <2>1. ASSUME NEW kind \in {"read", "write", "txn"}, NEW need \in BOOLEAN,
               NEW ds \in SUBSET Dbs, Step(v, kind, need, ds)
        PROVE  /\ \A w \in Vdbes : w # v => vm'[w] = vm[w]
               /\ vm'[v].mask = {}
    BY SMTT(40), <2>1, StepFrame
  <2>2. CASE Row(v) \/ Resume(v)
    BY <2>2 DEF Row, Resume
  <2>3. CASE \E name \in Names \cup {NoName} : SavepointError(v, name)
    BY <2>3, ReturnsFrame DEF SavepointError
  <2> QED
    BY <2>1, <2>2, <2>3
<1> QED
  BY <1>1, <1>2, QuietCounters

(* OP_Transaction remembers the counter that goes with what the statement   *)
(* found.                                                                   *)
LEMMA TransactionCounters ==
  ASSUME Counting, IInv, DurableStores, StackOrder, CountersMatch, NEW v \in Vdbes,
         NEW d \in Dbs,
         TransactionRead(v, d) \/ TransactionWrite(v, d) \/ TransactionFails(v, d)
  PROVE  CountersMatch'
<1>1. sp' = sp /\ nDef' = nDef /\ OnTop(v) /\ d \in vm[v].todo
  BY DEF TransactionRead, TransactionWrite, TransactionFails, FirstTodo
<1>2. ASSUME NDb = 1, Lsm = Dbs
      PROVE  st'[1].cont = st[1].cont /\ st'[1].dur = st[1].dur
  <2>1. /\ d = 1 /\ 1 \in Dbs /\ 1 \in Lsm /\ Kind[1] = "lsm"
        /\ st[1] \in GoodStore /\ Durable(st[1]) /\ "lsm" \in Engines
        /\ 1 \in 1..MaxLevel
    BY SMTT(40), <1>2, MaxLevelAssumption DEF Dbs, Lsm, IInv, Stores, DurableStores, Engines
  <2>2. CASE TransactionRead(v, d)
    <3>1. st'[1] = IF st[1].lvl = 0 THEN KVStoreBegin("lsm", st[1], 1) ELSE st[1]
      BY <2>1, <2>2 DEF TransactionRead, IInv, Stores
    <3> QED
      BY SMTT(40), <2>1, <3>1, BeginGood
  <2>3. CASE TransactionFails(v, d)
    <3>1. st'[1] = Opened(1) /\ WriteLevel <= MaxLevel
      BY <2>1, <2>3 DEF TransactionFails, IInv, Stores
    <3> QED
      BY <2>1, <3>1, OpenedDurable
  <2>4. CASE TransactionWrite(v, d)
    <3> DEFINE s == Opened(1)
    <3>1. /\ st'[1] = IF WantStmt(v) THEN KVStoreBegin("lsm", s, s.lvl + 1) ELSE s
          /\ WriteLevel <= MaxLevel /\ (WantStmt(v) => s.lvl < MaxLevel)
      BY <2>1, <2>4 DEF TransactionWrite, IInv, Stores
    <3>2. /\ s \in GoodStore /\ s.lvl \in Nat
          /\ s.cont = st[1].cont /\ s.dur = st[1].dur
      BY <2>1, <3>1, OpenedDurable
    <3> HIDE DEF s
    <3>3. WantStmt(v) => s.lvl + 1 \in 1..MaxLevel /\ s.lvl < s.lvl + 1
      BY SMTT(40), <3>1, <3>2, MaxLevelAssumption
    <3> QED
      BY SMTT(40), <2>1, <3>1, <3>2, <3>3, BeginGood
  <2> QED
    BY <2>2, <2>3, <2>4
<1>3. ASSUME NEW w \in Vdbes, vm'[w].mask # {}
      PROVE  \/ vm[w].mask # {} /\ vm'[w].def = vm[w].def /\ vm'[w].pre = vm[w].pre
             \/ NDb = 1 /\ Lsm = Dbs => vm'[w].def = Viol[vm'[w].pre[1]]
  <2>1. CASE TransactionRead(v, d) \/ w # v
               \/ (TransactionWrite(v, d) /\ ~WantStmt(v))
    <3>1. CASE TransactionRead(v, d)
      BY <1>3, <3>1, ReadFrame
    <3>2. CASE w # v
      <4>1. vm'[w] = vm[w]
        BY <3>2, ReadFrame, WriteFrame, FailsFrame
      <4> QED
        BY <1>3, <4>1
    <3>3. CASE TransactionWrite(v, d) /\ ~WantStmt(v) /\ w = v
      BY <1>3, <3>3, WriteFrame
    <3> QED
      BY <2>1, <3>1, <3>2, <3>3
  <2>2. CASE w = v /\ (TransactionFails(v, d)
                         \/ (TransactionWrite(v, d) /\ WantStmt(v)))
    <3>1. vm'[v].def = nDef /\ vm'[v].pre = vm[v].pre
      BY <2>2, WriteFrame, FailsFrame
    <3>2. vm[v].pre = Conts
      <4>1. v \in Writers
        BY <1>1, <2>2, TopRuns
        DEF IInv, TypeOK, TypedControl, Writers, TransactionWrite, TransactionFails
      <4> QED
        BY <1>1, <4>1 DEF StackOrder
    <3>3. NDb = 1 => Conts[1] = st[1].cont
      BY SMTT(40) DEF Conts, Dbs
    <3> QED
      BY <2>2, <3>1, <3>2, <3>3 DEF CountersMatch
  <2> QED
    BY <2>1, <2>2
<1> QED
  BY <1>1, <1>2, <1>3, QuietCounters

(* OP_FkCounter.                                                            *)
LEMMA WriteCounters ==
  ASSUME Counting, IInv, DurableStores, CountersMatch, NEW v \in Vdbes, NEW d \in Dbs,
         NEW c \in Content, NEW fk \in BOOLEAN, Write(v, d, c, fk)
  PROVE  CountersMatch'
<1> SUFFICES ASSUME NDb = 1, Lsm = Dbs PROVE CountersMatch'
  BY DEF CountersMatch
<1>1. /\ st' = [st EXCEPT ![d] = KVStoreWrite(Kind[d], st[d], c)]
      /\ nDef' = nDef + Viol[c] - Viol[st[d].cont]
      /\ sp' = sp /\ OnTop(v) /\ vm[v].kind = "write" /\ d \in vm[v].txn
  BY DEF Write, InBody
<1>2. /\ d = 1 /\ d \in Lsm /\ Kind[d] = "lsm" /\ d \in Leveled
      /\ st[d] \in GoodStore /\ Durable(st[d]) /\ st[d].cont \in Content
  BY SMTT(40) DEF Dbs, Lsm, Leveled, IInv, Stores, GoodStore, Store, DurableStores
<1>3. v \in Writers
  BY <1>1, TopRuns DEF IInv, TypeOK, TypedControl, Writers
<1>4. st[d].lvl >= 2
  BY <1>1, <1>2, <1>3, WriterLevel
<1>5. st'[1] = KVStoreWrite("lsm", st[1], c)
  BY <1>1, <1>2 DEF IInv, Stores
<1>6. st'[1].cont = c /\ st'[1].dur = st[1].dur
  BY SMTT(40), <1>2, <1>4, <1>5, WriteDurable
<1>7. nDef = Viol[st[1].cont] /\ Viol[c] \in Nat /\ Viol[st[1].cont] \in Nat
  BY <1>2, ViolAssumption DEF CountersMatch
<1>8. nDef' = Viol[c]
  BY SMTT(40), <1>1, <1>2, <1>7
<1>9. \A w \in Vdbes : /\ vm'[w].mask = vm[w].mask /\ vm'[w].def = vm[w].def
                       /\ vm'[w].pre = vm[w].pre
  BY RowWriteFrame
<1> QED
  BY <1>1, <1>6, <1>8, <1>9 DEF CountersMatch

(* OP_Savepoint: a savepoint remembers the counter, and the counter goes    *)
(* back with the content.                                                   *)
LEMMA SavepointCounters ==
  ASSUME IInv, DurableStores, CountersMatch, NEW v \in Vdbes,
         NEW name \in Names \cup {NoName},
         \/ SavepointBegin(v, name)
         \/ \E j \in 1..Len(sp) :
              \/ SavepointRelease(v, name, j)
              \/ \E i \in Dbs : SavepointReleaseFails(v, name, j, i)
              \/ SavepointRollback(v, name, j)
  PROVE  CountersMatch'
<1> SUFFICES ASSUME NDb = 1, Lsm = Dbs PROVE CountersMatch'
  BY DEF CountersMatch
<1>0. /\ TypedControl /\ st \in Stores /\ sp \in Seq(Savepoint) /\ Len(sp) \in Nat
      /\ CanSavepoint(v) /\ (Returns(v, "ok") \/ Returns(v, "error"))
  BY SMTT(40) DEF IInv, TypeOK, TypedControl, SavepointBegin, SavepointRelease,
         SavepointReleaseFails, SavepointRollback
<1>1. \A w \in Vdbes : vm'[w].mask = {}
  <2>1. CanSavepoint(v)
    BY DEF SavepointBegin, SavepointRelease, SavepointReleaseFails,
           SavepointRollback
  <2>2. Writers = {}
    BY <1>0, <2>1, SavepointRunsAlone
  <2>3. \A w \in Vdbes : vm'[w].mask = vm[w].mask
    BY <1>0, ReturnsFrame
  <2> QED
    BY <2>2, <2>3 DEF IInv, Control
<1>2. /\ 1 \in Dbs /\ 1 \in Lsm /\ Durable(st[1])
      /\ st[1].cont \in Content /\ st[1].dur \in Content
      /\ Viol[st[1].cont] \in Nat /\ Viol[st[1].dur] \in Nat
  BY SMTT(40), ViolAssumption DEF Dbs, IInv, TypeOK, Store, DurableStores
<1>3. nDef = Viol[st[1].cont] /\ Viol[st[1].dur] = 0
  BY DEF CountersMatch
<1>4. CASE SavepointBegin(v, name)
  <2> DEFINE p == [name |-> name, def |-> nDef, mark |-> Conts]
  <2>1. st' = st /\ nDef' = nDef /\ sp' = Append(sp, p)
    BY <1>4 DEF SavepointBegin
  <2>2. p.def = Viol[p.mark[1]]
    <3>1. p.def = nDef /\ p.mark = Conts
      OBVIOUS
    <3>2. Conts[1] = st[1].cont
      BY <1>2 DEF Conts
    <3> QED
      BY <1>3, <3>1, <3>2
  <2> HIDE DEF p
  <2>3. \A k \in 1..Len(sp') : sp'[k] = p \/ (k \in 1..Len(sp) /\ sp'[k] = sp[k])
    BY SMTT(40), <1>0, <2>1
  <2>4. \A k \in 1..Len(sp') : sp'[k].def = Viol[sp'[k].mark[1]]
    BY <2>2, <2>3 DEF CountersMatch
  <2> QED
    BY <1>1, <1>3, <2>1, <2>4 DEF CountersMatch
<1>5. ASSUME NEW l \in 1..(Len(sp) + 1), sp' = SavepointsBelow(l)
      PROVE  \A k \in 1..Len(sp') : sp'[k].def = Viol[sp'[k].mark[1]]
  <2>1. \A k \in 1..Len(sp') : k \in 1..Len(sp) /\ sp'[k] = sp[k]
    BY <1>0, <1>5, SavepointsBelowGood
  <2> QED
    BY <2>1 DEF CountersMatch
<1>6. ASSUME NEW j \in 1..Len(sp), SavepointRelease(v, name, j)
      PROVE  CountersMatch'
  <2>1. /\ st' = CommitStores(st, j) /\ sp' = SavepointsBelow(j) /\ nDef' = nDef
        /\ j = 1 => nDef <= 0
    BY <1>6 DEF SavepointRelease
  <2>2. /\ j \in Nat /\ j \in 1..(Len(sp) + 1)
        /\ j = 1 \/ j >= 2
        /\ j = 1 => j < 2
    BY SMTT(40), <1>0
  <2>3. /\ st'[1].cont = st[1].cont
        /\ j >= 2 => st'[1].dur = st[1].dur
        /\ j < 2 => st'[1].dur = st[1].cont
    BY <1>0, <1>2, <2>1, <2>2, CommitStoresDurable
  <2>4. Viol[st'[1].dur] = 0
    <3>1. CASE j = 1
      <4>1. Viol[st[1].cont] = 0
        BY <1>2, <1>3, <2>1, <3>1, NoneLeft
      <4> QED
        BY <2>2, <2>3, <3>1, <4>1
    <3>2. CASE j >= 2
      BY <1>3, <2>3, <3>2
    <3> QED
      BY <2>2, <3>1, <3>2
  <2>5. \A k \in 1..Len(sp') : sp'[k].def = Viol[sp'[k].mark[1]]
    BY <1>5, <2>1, <2>2
  <2> QED
    BY <1>1, <1>3, <2>1, <2>3, <2>4, <2>5 DEF CountersMatch
<1>7. ASSUME NEW j \in 1..Len(sp), NEW i \in Dbs, SavepointReleaseFails(v, name, j, i)
      PROVE  CountersMatch'
  <2>1. /\ sp' = <<>> /\ nDef' = 0 /\ st' = CommitFailsAt(st, j, i) /\ j < 2
        /\ j = 1 => nDef <= 0
    BY <1>7 DEF SavepointReleaseFails, CanFailAt, CommitMayFail
  <2>2. j = 1 /\ st' = CommitFailsAt(st, 1, i)
    BY SMTT(40), <1>0, <2>1
  <2>3. st'[1].cont = st'[1].dur /\ st'[1].dur \in {st[1].cont, st[1].dur}
    BY <1>0, <1>2, <2>2, CommitFailsAtDurable
  <2>4. Viol[st'[1].dur] = 0 /\ Viol[st'[1].cont] = 0
    <3>1. Viol[st[1].cont] = 0
      BY <1>2, <1>3, <2>1, <2>2, NoneLeft
    <3> QED
      BY <1>3, <2>3, <3>1
  <2>5. \A k \in 1..Len(sp') : FALSE
    BY SMTT(40), <2>1
  <2> QED
    BY <1>1, <2>1, <2>4, <2>5 DEF CountersMatch
<1>8. ASSUME NEW j \in 1..Len(sp), SavepointRollback(v, name, j)
      PROVE  CountersMatch'
  <2> DEFINE l == IF name = NoName THEN j ELSE j + 1
  <2>1. /\ st' = RollbackStores(st, l) /\ sp' = SavepointsBelow(l)
        /\ nDef' = DefOf(sp')
        /\ name = NoName => j = 1
    BY <1>8 DEF SavepointRollback, Selects
  <2>2. /\ l \in Nat /\ l \in 1..(Len(sp) + 1) /\ j \in Nat
        /\ name = NoName => l = 1
        /\ name # NoName => l = j + 1 /\ l >= 2
    BY SMTT(40), <1>0, <2>1
  <2> HIDE DEF l
  <2>3. st'[1].dur = st[1].dur /\ (l < 2 => st'[1].cont = st[1].dur)
    BY <1>0, <1>2, <2>1, <2>2, RollbackStoresDurable
  <2>4. \A k \in 1..Len(sp') : sp'[k].def = Viol[sp'[k].mark[1]]
    BY <1>5, <2>1, <2>2
  <2>5. sp' \in Seq(Savepoint) /\ Len(sp') = l - 1
    BY <1>0, <2>1, <2>2, SavepointsBelowGood
  <2>6. nDef' = Viol[st'[1].cont]
    <3>1. CASE name = NoName
      <4>1. l = 1 /\ 1 < 2 /\ sp' = <<>>
        BY SMTT(40), <2>2, <2>5, <3>1
      <4> QED
        BY <1>3, <2>1, <2>3, <4>1 DEF DefOf
    <3>2. CASE name # NoName
      <4>1. st'[1].cont = RollsBackTo(st[1], j + 1)
        <5>1. st'[1].cont = RollsBackTo(st[1], l)
          BY <1>0, <1>2, <2>1, <2>2, <3>2, RollbackStoresGood
        <5> QED
          BY <2>2, <3>2, <5>1
      <4>2. RollsBackTo(st[1], j + 1) = sp[j].mark[1]
        BY <1>2 DEF IInv, SavepointsRestorable
      <4>3. sp' # <<>> /\ Len(sp') = j /\ sp'[j] = sp[j]
        <5>1. j \in 1..(l - 1) /\ Len(sp') = j /\ j >= 1
          BY SMTT(40), <2>2, <2>5, <3>2
        <5> QED
          BY SMTT(40), <1>0, <2>1, <2>2, <5>1, SavepointsBelowGood
      <4>4. nDef' = sp[j].def
        BY <2>1, <4>3 DEF DefOf
      <4> QED
        BY <4>1, <4>2, <4>4 DEF CountersMatch
    <3> QED
      BY <3>1, <3>2
  <2> QED
    BY <1>1, <1>3, <2>3, <2>4, <2>6 DEF CountersMatch
<1> QED
  BY <1>4, <1>6, <1>7, <1>8

(* The end of a transaction.                                                *)
LEMMA FinishCounters ==
  ASSUME IInv, NestedTxn = FALSE, NEW v \in Vdbes, NEW r \in Results,
         CanEnd(v, r), Outermost(v, r), NEW s \in Stores, Finish(v, s, <<>>, 0),
         NDb = 1, Lsm = Dbs, Durable(s[1]),
         Viol[s[1].cont] = 0, Viol[s[1].dur] = 0
  PROVE  CountersMatch'
<1>1. Writers \subseteq {v}
  BY OutermostWritesAlone
<1>2. /\ vm' = [vm EXCEPT ![v] = Idle] /\ sp' = <<>> /\ nDef' = 0
      /\ st' = s \/ st' = RollbackStores(s, 0)
  BY DEF Finish
<1>3. ASSUME NEW w \in Vdbes PROVE vm'[w].mask = {}
  <2>1. CASE w = v
    BY <1>2, <2>1, HaltFrame
  <2>2. CASE w # v
    <3>1. w \notin Writers /\ vm'[w] = vm[w]
      BY <1>1, <1>2, <2>2, HaltFrame
    <3> QED
      BY <3>1 DEF IInv, Control
  <2> QED
    BY <2>1, <2>2
<1>4. 1 \in Lsm /\ 0 \in Nat /\ 0 < 2
  BY SMTT(40) DEF Dbs
<1>5. Viol[st'[1].cont] = 0 /\ Viol[st'[1].dur] = 0
  <2>1. CASE st' = RollbackStores(s, 0)
    BY <1>4, <2>1, RollbackStoresDurable
  <2> QED
    BY <1>2, <2>1
<1>6. \A k \in 1..Len(sp') : FALSE
  BY SMTT(40), <1>2
<1> QED
  BY <1>2, <1>3, <1>5, <1>6 DEF CountersMatch

(* sqlite4VdbeHalt(): a transaction ends with no violation left, or undone; *)
(* a statement that is undone puts back the counter it found.               *)
LEMMA HaltCounters ==
  ASSUME Counting, IInv, NestedTxn = FALSE, DurableStores, StackOrder,
         StatementsRestorable, CountersMatch, NEW v \in Vdbes, NEW r \in Results,
         \/ HaltCommit(v, r)
         \/ \E i \in Dbs : HaltCommitFails(v, r, i)
         \/ HaltRollback(v, r)
         \/ HaltStatement(v, r)
  PROVE  CountersMatch'
<1> SUFFICES ASSUME NDb = 1, Lsm = Dbs PROVE CountersMatch'
  BY DEF CountersMatch
<1>0. /\ 1 \in Dbs /\ 1 \in Lsm /\ Durable(st[1]) /\ st \in Stores
      /\ 1 \in Nat /\ 1 < 2
      /\ st[1].cont \in Content /\ st[1].dur \in Content
      /\ Viol[st[1].cont] \in Nat /\ Viol[st[1].dur] \in Nat
  BY SMTT(40), ViolAssumption DEF Dbs, IInv, TypeOK, Store, DurableStores
<1>a. nDef = Viol[st[1].cont] /\ Viol[st[1].dur] = 0
  BY DEF CountersMatch
<1>1. CASE HaltCommit(v, r)
  <2>1. /\ CanEnd(v, r) /\ Outermost(v, r) /\ nDef <= 0
        /\ Finish(v, CommitStores(st, 1), <<>>, 0)
    BY <1>1 DEF HaltCommit
  <2>2. CommitStores(st, 1) \in Stores
    BY <1>0, CommitStoresGood
  <2>3. LET t == CommitStores(st, 1)[1] IN
          Durable(t) /\ t.cont = st[1].cont /\ t.dur = st[1].cont
    BY <1>0, CommitStoresDurable
  <2>4. Viol[st[1].cont] = 0
    BY <1>0, <1>a, <2>1, NoneLeft
  <2> QED
    BY <2>1, <2>2, <2>3, <2>4, FinishCounters
<1>2. ASSUME NEW i \in Dbs, HaltCommitFails(v, r, i) PROVE CountersMatch'
  <2>1. /\ CanEnd(v, r) /\ Outermost(v, r) /\ nDef <= 0
        /\ Finish(v, CommitFailsAt(st, 1, i), <<>>, 0)
    BY <1>2 DEF HaltCommitFails
  <2>2. CommitFailsAt(st, 1, i) \in Stores
    BY SMTT(40), <1>0, CommitFailsAtGood
  <2>3. LET t == CommitFailsAt(st, 1, i)[1] IN
          Durable(t) /\ t.cont = t.dur /\ t.dur \in {st[1].cont, st[1].dur}
    BY <1>0, CommitFailsAtDurable
  <2>4. Viol[st[1].cont] = 0
    BY <1>0, <1>a, <2>1, NoneLeft
  <2> DEFINE s == CommitFailsAt(st, 1, i)
  <2>5. Durable(s[1]) /\ Viol[s[1].cont] = 0 /\ Viol[s[1].dur] = 0
    BY <1>a, <2>3, <2>4
  <2> HIDE DEF s
  <2> QED
    BY <2>1, <2>2, <2>5, FinishCounters DEF s
<1>3. CASE HaltRollback(v, r)
  <2>1. /\ CanEnd(v, r) /\ Outermost(v, r)
        /\ Finish(v, RollbackStores(st, 1), <<>>, 0)
    BY <1>3 DEF HaltRollback
  <2>2. RollbackStores(st, 1) \in Stores
    BY <1>0, RollbackStoresGood
  <2>3. LET t == RollbackStores(st, 1)[1] IN
          Durable(t) /\ t.cont = st[1].dur /\ t.dur = st[1].dur
    BY <1>0, RollbackStoresDurable
  <2> QED
    BY <1>a, <2>1, <2>2, <2>3, FinishCounters
<1>4. CASE HaltStatement(v, r)
  <2> DEFINE rollback == EAction(v, r) # 0
             s == StatementClosed(v, st, rollback)
             n == IF rollback /\ vm[v].mask # {} THEN vm[v].def ELSE nDef
  <2>1. OnTop(v) /\ ~Outermost(v, r) /\ Finish(v, s, sp, n) /\ rollback \in BOOLEAN
    BY <1>4 DEF HaltStatement, CanEnd
  <2>2. ~(sp = <<>> /\ Running = {v})
    <3>1. v \in Running /\ (vm[v].kind = "write" <=> v \in Writers)
      BY <2>1, TopRuns DEF IInv, TypeOK, TypedControl, Writers
    <3>2. ~(sp = <<>> /\ Writers \subseteq {v})
      BY <2>1, <3>1 DEF Outermost
    <3> QED
      BY <3>2 DEF Writers
  <2>3. /\ st' = s /\ sp' = sp /\ nDef' = n
        /\ vm' = [vm EXCEPT ![v] = Idle]
    BY <2>1, <2>2 DEF Finish
  <2>4. \A w \in Vdbes : vm'[w].mask # {} => vm'[w] = vm[w]
    BY <2>3, HaltFrame
  <2>5. 1 \in vm[v].mask => st[1].lvl >= 3
    BY <1>0, MaskLevel DEF Lsm, Leveled
  <2>6. s[1].dur = st[1].dur /\ (~rollback => s[1].cont = st[1].cont)
    <3> HIDE DEF rollback
    <3> QED
      BY <1>0, <2>1, <2>5, StatementClosedDurable
  <2>7. n = Viol[s[1].cont]
    <3>1. CASE ~rollback
      BY <1>a, <2>6, <3>1
    <3>2. CASE vm[v].mask = {}
      <4>1. s[1] = st[1]
        BY <1>0, <3>2 DEF StatementClosed
      <4> QED
        BY <1>a, <3>2, <4>1
    <3>3. CASE rollback /\ vm[v].mask # {}
      <4>1. vm[v].mask \subseteq Dbs /\ Dbs = {1}
        BY SMTT(40) DEF IInv, TypeOK, Statement, Dbs
      <4>2. 1 \in Lsm \cap vm[v].mask
        BY <1>0, <3>3, <4>1
      <4>3. st'[1].cont = vm[v].pre[1]
        BY <1>4, <3>3, <4>2, HaltStatementRestorable
      <4> QED
        BY <2>3, <3>3, <4>3 DEF CountersMatch
    <3> QED
      BY <3>1, <3>2, <3>3
  <2> HIDE DEF s, n
  <2> QED
    BY <1>a, <2>3, <2>4, <2>6, <2>7 DEF CountersMatch
<1> QED
  BY <1>1, <1>2, <1>3, <1>4

-----------------------------------------------------------------------------
(* The invariant as a whole.                                                *)

UndoInv ==
  /\ IInv
  /\ DurableStores /\ ReadersOpen
  /\ AtRest
  /\ StackOrder /\ StatementsRestorable
  /\ CountersMatch

(* The parts of it that are not IInv after a step, and what the step may    *)
(* show others.                                                             *)
StepKept ==
  StoresKept /\ AtRest' /\ StackOrder' /\ StatementsRestorable' /\ CountersMatch'

LEMMA InitUndoInv ==
  ASSUME Init, IInv
  PROVE  UndoInv
<1> USE DEF Init
<1>2. \A d \in Dbs : /\ st[d].lvl = 0 /\ st[d].cont = InitContent
                     /\ st[d].dur = InitContent
  BY DEF NewStore
<1>3. \A v \in Vdbes : vm[v].mask = {} /\ ~vm[v].run
  BY DEF Idle
<1>4. Running = {} /\ Writers = {}
  BY <1>3 DEF Running, Writers
<1>5. DurableStores /\ ReadersOpen /\ AtRest
  BY SMTT(40), <1>2, <1>4
  DEF DurableStores, Durable, RollsBackTo, ReadersOpen, AtRest, Lsm, Leveled
<1>6. StackOrder /\ StatementsRestorable
  BY <1>3, <1>4 DEF StackOrder, StatementsRestorable
<1>7. CountersMatch
  <2>1. NDb = 1 => st[1].cont = InitContent /\ st[1].dur = InitContent
    BY SMTT(40), <1>2 DEF Dbs
  <2>2. Len(sp) = 0
    OBVIOUS
  <2> QED
    BY SMTT(40), <1>3, <2>1, <2>2, InitContentAssumption DEF CountersMatch
<1> QED
  BY <1>5, <1>6, <1>7 DEF UndoInv

(* sqlite4_step() on a statement, and a row it returns.                     *)
LEMMA CallKept ==
  ASSUME UndoInv, NEW v \in Vdbes,
         Row(v) \/ Resume(v) \/
         \E kind \in {"read", "write", "txn"}, need \in BOOLEAN,
            ds \in SUBSET Dbs : Step(v, kind, need, ds)
  PROVE  StepKept
<1> USE DEF UndoInv
<1>1. StoresKept
  BY QuietStepsStores
<1>2. AtRest'
  BY StillRuns DEF AtRest
<1>3. StackOrder'
  BY PushOrder
<1>4. StatementsRestorable'
  BY CallRestorable
<1>5. CountersMatch'
  BY CallCounters
<1> QED
  BY <1>1, <1>2, <1>3, <1>4, <1>5 DEF StepKept

(* OP_Transaction.                                                          *)
LEMMA TransactionKept ==
  ASSUME Counting, UndoInv, NEW v \in Vdbes, NEW d \in Dbs,
         TransactionRead(v, d) \/ TransactionWrite(v, d) \/ TransactionFails(v, d)
  PROVE  StepKept
<1> USE DEF UndoInv
<1>1. StoresKept
  BY TransactionStores
<1>2. AtRest'
  BY StillRuns DEF AtRest
<1>3. StackOrder'
  BY TransactionOrder
<1>4. StatementsRestorable'
  BY TransactionRestorable
<1>5. CountersMatch'
  BY TransactionCounters
<1> QED
  BY <1>1, <1>2, <1>3, <1>4, <1>5 DEF StepKept

(* A row is written.                                                        *)
LEMMA WriteKept ==
  ASSUME Counting, UndoInv, NEW v \in Vdbes, NEW d \in Dbs, NEW c \in Content,
         NEW fk \in BOOLEAN, Write(v, d, c, fk)
  PROVE  StepKept
<1> USE DEF UndoInv
<1>1. StoresKept
  BY WriteStores
<1>2. AtRest'
  BY StillRuns DEF AtRest
<1>3. StackOrder'
  BY BodyOrder
<1>4. StatementsRestorable'
  BY WriteRestorable
<1>5. CountersMatch'
  BY WriteCounters
<1> QED
  BY <1>1, <1>2, <1>3, <1>4, <1>5 DEF StepKept

(* OP_Savepoint.                                                            *)
LEMMA SavepointKept ==
  ASSUME UndoInv, IInv', NEW v \in Vdbes, NEW name \in Names \cup {NoName},
         \/ SavepointBegin(v, name)
         \/ \E j \in 1..Len(sp) :
              \/ SavepointRelease(v, name, j)
              \/ \E i \in Dbs : SavepointReleaseFails(v, name, j, i)
              \/ SavepointRollback(v, name, j)
         \/ SavepointError(v, name)
  PROVE  StepKept
<1> USE DEF UndoInv
<1>0. CanSavepoint(v) /\ \E rc \in {"ok", "error"} : Returns(v, rc)
  BY DEF SavepointBegin, SavepointRelease, SavepointReleaseFails,
         SavepointRollback, SavepointError
<1>1. StoresKept
  <2>1. ASSUME SavepointBegin(v, name) \/ SavepointError(v, name) PROVE StoresKept
    BY <2>1, QuietStepsStores
  <2> QED
    BY <2>1, SavepointStores
<1>2. AtRest'
  BY <1>0, StillRuns DEF AtRest
<1>3. StackOrder'
  BY <1>0, BodyOrder
<1>4. StatementsRestorable'
  <2>1. TypedControl
    BY DEF IInv, TypeOK, TypedControl
  <2>2. Writers' = {}
    BY <1>0, <2>1, SavepointRunsAlone, ReturnsControl
  <2> QED
    BY <2>2, NoWriterRestorable
<1>5. CountersMatch'
  <2>1. ASSUME SavepointError(v, name) PROVE CountersMatch'
    BY <2>1, CallCounters
  <2> QED
    BY <2>1, SavepointCounters
<1> QED
  BY <1>1, <1>2, <1>3, <1>4, <1>5 DEF StepKept

(* sqlite4VdbeHalt().                                                       *)
LEMMA HaltKept ==
  ASSUME Counting, NestedTxn = FALSE, UndoInv, IInv', NEW v \in Vdbes, NEW r \in Results,
         \/ HaltCommit(v, r)
         \/ \E i \in Dbs : HaltCommitFails(v, r, i)
         \/ HaltRollback(v, r)
         \/ HaltStatement(v, r)
  PROVE  StepKept
<1> USE DEF UndoInv
<1>0. /\ CanEnd(v, r) /\ OnTop(v)
      /\ vm' = [vm EXCEPT ![v] = Idle] /\ stk' = Tail(stk)
  BY DEF HaltCommit, HaltCommitFails, HaltRollback, HaltStatement, Finish, CanEnd
<1>1. StoresKept
  BY HaltStores
<1>2. AtRest'
  BY HaltAtRest
<1>3. StackOrder'
  BY <1>0, PopOrder
<1>4. StatementsRestorable'
  <2>1. CASE HaltStatement(v, r)
    BY <2>1, HaltStatementRestorable
  <2>2. CASE ~HaltStatement(v, r)
    <3>1. Outermost(v, r)
      BY <2>2 DEF HaltCommit, HaltCommitFails, HaltRollback
    <3>2. Writers \subseteq {v}
      BY <1>0, <3>1, OutermostWritesAlone
    <3>3. Writers' = {}
      <4>1. Running' = Running \ {v} /\ \A w \in Vdbes : w # v => vm'[w] = vm[w]
        BY <1>0, HaltFrame
      <4>2. \A w \in Running' : w \in Running /\ w # v /\ vm'[w] = vm[w]
        BY <4>1 DEF Running
      <4> QED
        BY <3>2, <4>2 DEF Writers
    <3> QED
      BY <3>3, NoWriterRestorable
  <2> QED
    BY <2>1, <2>2
<1>5. CountersMatch'
  BY HaltCounters
<1> QED
  BY <1>1, <1>2, <1>3, <1>4, <1>5 DEF StepKept

(* Every step keeps the invariant, and shows others nothing while a         *)
(* transaction stays open.                                                  *)
LEMMA NextKept ==
  ASSUME Counting, NestedTxn = FALSE, UndoInv, [Next]_vars, IInv'
  PROVE  UndoInv' /\ StoresKept
<1>2. CASE UNCHANGED vars
  <2>1. Running' = Running /\ Writers' = Writers
    BY <1>2 DEF Running, Writers, vars
  <2>2. StoresKept
    BY <1>2, <2>1
    DEF StoresKept, UndoInv, DurableStores, ReadersOpen, vars
  <2>3. AtRest' /\ CountersMatch'
    BY <1>2, <2>1 DEF UndoInv, AtRest, CountersMatch, vars
  <2>4. StackOrder'
    BY <1>2, <2>1 DEF UndoInv, StackOrder, OnStack, OnTop, Conts, vars
  <2>5. \A v, d : StatementLevel(v, d)' = StatementLevel(v, d)
    <3>1. \A v, d : Beneath(v, d)' = Beneath(v, d)
      BY <1>2 DEF Beneath, StatementTxns, vars
    <3>2. WriteLevel' = WriteLevel
      BY <1>2 DEF WriteLevel, vars
    <3> QED
      BY <3>1, <3>2 DEF StatementLevel
  <2>6. StatementsRestorable'
    BY <1>2, <2>5 DEF UndoInv, StatementsRestorable, vars
  <2> QED
    BY <2>2, <2>3, <2>4, <2>6 DEF UndoInv, StoresKept
<1>3. ASSUME NEW v \in Vdbes,
             Row(v) \/ Resume(v) \/
             \E kind \in {"read", "write", "txn"}, need \in BOOLEAN,
                ds \in SUBSET Dbs : Step(v, kind, need, ds)
      PROVE  StepKept
  BY <1>3, CallKept
<1>4. ASSUME NEW v \in Vdbes, NEW d \in Dbs,
             TransactionRead(v, d) \/ TransactionWrite(v, d) \/ TransactionFails(v, d)
      PROVE  StepKept
  BY <1>4, TransactionKept
<1>5. ASSUME NEW v \in Vdbes, NEW d \in Dbs, NEW c \in Content,
             NEW fk \in BOOLEAN, Write(v, d, c, fk)
      PROVE  StepKept
  BY <1>5, WriteKept
<1>6. ASSUME NEW v \in Vdbes, NEW name \in Names \cup {NoName},
             \/ SavepointBegin(v, name)
             \/ \E j \in 1..Len(sp) :
                  \/ SavepointRelease(v, name, j)
                  \/ \E i \in Dbs : SavepointReleaseFails(v, name, j, i)
                  \/ SavepointRollback(v, name, j)
             \/ SavepointError(v, name)
      PROVE  StepKept
  BY <1>6, SavepointKept
<1>7. ASSUME NEW v \in Vdbes, NEW r \in Results,
             \/ HaltCommit(v, r)
             \/ \E i \in Dbs : HaltCommitFails(v, r, i)
             \/ HaltRollback(v, r)
             \/ HaltStatement(v, r)
      PROVE  StepKept
  BY <1>7, HaltKept
<1>8. CASE Next
  <2>1. StepKept
    BY <1>3, <1>4, <1>5, <1>6, <1>7, <1>8 DEF Next
  <2> QED
    BY <2>1 DEF StepKept, StoresKept, UndoInv
<1> QED
  BY <1>2, <1>8

-----------------------------------------------------------------------------
(* What the invariant says.                                                 *)

(* A running statement has the transactions its OP_Transaction opened.      *)
LEMMA UndoHasTransaction ==
  ASSUME Counting, UndoInv
  PROVE  StatementHasTransaction
<1> SUFFICES ASSUME NEW v \in Running, NEW d \in Lsm, d \in vm[v].txn
             PROVE  st[d].lvl >= IF vm[v].kind = "write" THEN 2 ELSE 1
  BY DEF StatementHasTransaction
<1>1. CASE vm[v].kind = "write"
  <2>1. v \in Writers /\ d \in Leveled /\ IInv
    BY <1>1 DEF Writers, Lsm, Leveled, UndoInv
  <2> QED
    BY <1>1, <2>1, WriterLevel
<1>2. CASE vm[v].kind # "write"
  BY <1>2 DEF UndoInv, ReadersOpen
<1> QED
  BY <1>1, <1>2

(* Between statements, outside a transaction, nothing is open or pending.   *)
LEMMA UndoLeavesNothing ==
  ASSUME UndoInv
  PROVE  NothingLeftOpen
<1> SUFFICES ASSUME Running = {}, sp = <<>>
             PROVE  /\ nDef = 0
                    /\ \A d \in Lsm : st[d].lvl = 0 /\ st[d].cont = st[d].dur
  BY DEF NothingLeftOpen
<1>1. nDef = 0 /\ \A d \in Lsm : st[d].lvl = 0
  BY DEF UndoInv, AtRest, Lsm, Leveled
<1>2. \A d \in Lsm : RollsBackTo(st[d], 2) = st[d].dur
  BY DEF UndoInv, DurableStores, Durable
<1> QED
  BY SMTT(40), <1>1, <1>2 DEF RollsBackTo

(* With one database, its violations are all there is to count.             *)
LEMMA OneDatabaseTotal ==
  ASSUME NDb = 1, Viol[st[1].cont] \in Nat
  PROVE  TotalViol = Viol[st[1].cont]
<1> DEFINE P(f) == f = [i \in 0..1 |-> IF i = 0 THEN 0
                                        ELSE f[i - 1] + Viol[st[i].cont]]
           w == [i \in 0..1 |-> IF i = 0 THEN 0 ELSE Viol[st[1].cont]]
           g == CHOOSE f : P(f)
<1>1. P(w)
  BY SMTT(40)
<1>2. P(g)
  <2> HIDE DEF P, w
  <2> QED
    BY <1>1
<1>3. TotalViol = g[1]
  BY DEF TotalViol
<1> HIDE DEF g
<1>4. g[0] = 0 /\ g[1] = g[0] + Viol[st[1].cont]
  BY SMTT(40), <1>2
<1> QED
  BY SMTT(40), <1>3, <1>4

(* With one database on lsm, the counter is the number of violations in it, *)
(* and other connections see none.                                          *)
LEMMA UndoCounts ==
  ASSUME UndoInv, NDb = 1
  PROVE  CounterMatchesContent /\ CommittedContentSatisfiesFk
<1>1. CounterMatchesContent
  <2> SUFFICES ASSUME Lsm = Dbs PROVE nDef = TotalViol
    BY DEF CounterMatchesContent
  <2>1. st[1].cont \in Content /\ Viol[st[1].cont] \in Nat
    BY SMTT(40), ViolAssumption DEF UndoInv, IInv, TypeOK, Store, Dbs
  <2>2. nDef = Viol[st[1].cont]
    BY DEF UndoInv, CountersMatch
  <2> QED
    BY <2>1, <2>2, OneDatabaseTotal
<1>2. CommittedContentSatisfiesFk
  BY SMTT(40) DEF UndoInv, CountersMatch, CommittedContentSatisfiesFk, Lsm, Dbs
<1> QED
  BY <1>1, <1>2
=============================================================================

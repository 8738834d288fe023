--------------------------- MODULE VdbeTxnSteps -----------------------------
(***************************************************************************)
(* Each action of VdbeTxn keeps the invariant: every open savepoint can be *)
(* gone back to, for every number of databases, statements, savepoints and *)
(* levels.                                                                 *)
(*                                                                         *)
(* The proofs assume NestedTxn = FALSE: no SQL run from inside a writing   *)
(* statement opens, releases or rolls back a transaction.                  *)
(***************************************************************************)
EXTENDS VdbeTxnLemmas

USE ZenonT(40)

-----------------------------------------------------------------------------
(* What several actions do to the statements, the savepoints and the levels.*)

(* A store that has just been opened is good.                               *)
LEMMA NewStoreGood ==
  ASSUME NEW c \in Content
  PROVE  NewStore(c) \in GoodStore
BY SMTT(40), MaxLevelAssumption DEF NewStore, GoodStore, Store, Snaps, Levels

(* With no statement writing, there is no statement transaction.            *)
LEMMA NoStatementTxns ==
  ASSUME Counting, TypedControl, Writers = {}, NEW d
  PROVE  StatementTxns(d) = {} /\ LevelBound(d) = WriteLevel
<1>1. StatementTxns(d) = {}
  BY DEF TypedControl, Control, StatementTxns
<1>2. WriteLevel \in Int
  BY SMTT(40) DEF WriteLevel
<1> QED
  BY SMTT(40), <1>1, <1>2, CountNone DEF LevelBound

(* Halting takes a statement off the stack with all it held.                *)
LEMMA HaltControl ==
  ASSUME TypedControl, NEW v \in Vdbes, OnTop(v),
         vm' = [vm EXCEPT ![v] = Idle], stk' = Tail(stk)
  PROVE  /\ TypedControl'
         /\ Writers' = Writers \ {v}
         /\ \A w \in Vdbes \ {v} : vm'[w] = vm[w]
         /\ \A d : StatementTxns(d)' = StatementTxns(d) \ {v}
<1>1. /\ vm' \in [Vdbes -> Statement]
      /\ \A w \in Vdbes \ {v} : vm'[w] = vm[w]
      /\ ~vm'[v].run
      /\ vm'[v].mask = {}
      /\ vm'[v].txn = {}
  BY IdleTyped DEF TypedControl, Idle
<1>2. /\ stk' \in Seq(Vdbes)
      /\ Len(stk') = Len(stk) - 1
      /\ \A i \in 1..Len(stk') : i + 1 \in 1..Len(stk) /\ stk'[i] = stk[i + 1]
  BY SMTT(40), TopRuns DEF TypedControl
<1>3. /\ \A i, j \in 1..Len(stk') : stk'[i] = stk'[j] => i = j
      /\ \A i \in 1..Len(stk') : stk'[i] \in Vdbes \ {v}
  BY SMTT(40), <1>2, TopRuns DEF TypedControl, Control
<1>4. Running' = Running \ {v} /\ Writers' = Writers \ {v}
  BY <1>1 DEF Running, Writers
<1>5. \A d : StatementTxns(d)' = StatementTxns(d) \ {v}
  BY <1>1 DEF StatementTxns
<1>6. \A w \in Running' : vm'[w].kind # "txn"
  BY SMTT(40), <1>1, <1>4 DEF TypedControl, Control, OnTop
<1>7. \A i \in 1..Len(stk') : vm'[stk'[i]].run
  BY SMTT(40), <1>1, <1>2, <1>3 DEF TypedControl
<1>8. \A w \in Vdbes : /\ vm'[w].mask # {} => w \in Writers'
                       /\ vm'[w].mask \subseteq vm'[w].txn
                       /\ vm'[w].todo \cap vm'[w].txn = {}
  BY <1>1, <1>4 DEF TypedControl, Control
<1> QED
  BY <1>1, <1>2, <1>3, <1>4, <1>5, <1>6, <1>7, <1>8 DEF TypedControl, Control

(* OP_Transaction gives a statement one more database, and with it possibly *)
(* a statement transaction.                                                 *)
LEMMA OpenControl ==
  ASSUME TypedControl, NEW v \in Vdbes, OnTop(v), NEW d \in Dbs,
         NEW m \in SUBSET {d}, NEW x \in Statement,
         vm[v].kind \in {"read", "write"}, m # {} => vm[v].kind = "write",
         x.run = vm[v].run, x.kind = vm[v].kind,
         x.todo = vm[v].todo \ {d}, x.txn = vm[v].txn \cup {d},
         x.mask = vm[v].mask \cup m,
         vm' = [vm EXCEPT ![v] = x], stk' = stk
  PROVE  /\ TypedControl'
         /\ Writers' = Writers
<1>1. vm \in [Vdbes -> Statement] /\ vm[v] \in Statement
  BY DEF TypedControl
<1>2. vm[v].run
  BY TopRuns DEF Running
<1>4. /\ vm' \in [Vdbes -> Statement]
      /\ \A w \in Vdbes \ {v} : vm'[w] = vm[w]
      /\ vm'[v].run /\ vm'[v].kind = vm[v].kind
      /\ vm'[v].todo = vm[v].todo \ {d}
      /\ vm'[v].txn = vm[v].txn \cup {d}
      /\ vm'[v].mask = vm[v].mask \cup m
  BY <1>1, <1>2
<1>5. Running' = Running
  BY <1>2, <1>4 DEF Running
<1>6. Writers' = Writers
  BY <1>4, <1>5 DEF Writers, Running
<1>8. \A w \in Vdbes : /\ vm'[w].mask # {} => w \in Writers'
                       /\ vm'[w].mask \subseteq vm'[w].txn
                       /\ vm'[w].todo \cap vm'[w].txn = {}
  <2>1. m # {} => v \in Writers
    BY <1>2 DEF Writers, Running
  <2> QED
    BY SMTT(40), <1>4, <1>6, <2>1 DEF TypedControl, Control
<1>9. \A w \in Running' : vm'[w].kind = "txn" => OnTop(w)' /\ Writers' = {}
  BY SMTT(40), <1>4, <1>5, <1>6 DEF TypedControl, Control, OnTop, Running
<1>10. \A i \in 1..Len(stk') : vm'[stk'[i]].run
  BY SMTT(40), <1>4 DEF TypedControl
<1>11. \A i, j \in 1..Len(stk') : stk'[i] = stk'[j] => i = j
  BY DEF TypedControl, Control
<1> QED
  BY <1>4, <1>6, <1>8, <1>9, <1>10, <1>11 DEF TypedControl, Control

(* Outside a transaction, with no statement writing, the invariant asks     *)
(* only that no store is above level 1.                                     *)
LEMMA OutsideInv ==
  ASSUME Counting, TypedControl', st' \in Stores, sp' = <<>>, nDef' \in Int,
         Writers' = {}, LdbFlat', \A d \in Leveled : st'[d].lvl <= 1
  PROVE  IInv'
<1>1. TypeOK'
  BY SMTT(40), StoresTyped DEF TypeOK, TypedControl
<1>2. LevelsAccounted'
  <2>1. \A d : StatementTxns(d)' = {}
    BY DEF TypedControl, Control, StatementTxns
  <2>2. WriteLevel' = 2
    BY SMTT(40) DEF WriteLevel
  <2>3. \A d : LevelBound(d)' = 2
    <3>1. Cardinality({}) = 0
      BY CountNone
    <3>2. ASSUME NEW d PROVE LevelBound(d)' = 2
      <4>1. StatementTxns(d)' = {}
        BY <2>1
      <4>2. LevelBound(d)' = 2 + Cardinality({})
        BY <2>2, <4>1 DEF LevelBound
      <4> QED
        BY SMTT(40), <3>1, <4>2
    <3> QED
      BY <3>2
  <2>4. \A d \in Leveled : st'[d].lvl \in Int
    BY SMTT(40) DEF Stores, GoodStore, Store, Leveled
  <2>5. \A d \in Leveled : st'[d].lvl <= 2
    BY SMTT(40), <2>4
  <2> QED
    BY <2>3, <2>5 DEF LevelsAccounted, Leveled
<1>3. SavepointsRestorable'
  BY SMTT(40) DEF SavepointsRestorable
<1> QED
  BY <1>1, <1>2, <1>3 DEF IInv, TypedControl

(* A call pushed on the stack of sqlite4_step() calls.                      *)
LEMMA Pushed ==
  ASSUME NEW s \in Seq(Vdbes), NEW v \in Vdbes,
         \A i, j \in 1..Len(s) : s[i] = s[j] => i = j,
         \A i \in 1..Len(s) : s[i] # v
  PROVE  LET t == <<v>> \o s IN
         /\ t \in Seq(Vdbes)
         /\ t # <<>> /\ Head(t) = v
         /\ \A i, j \in 1..Len(t) : t[i] = t[j] => i = j
         /\ \A i \in 1..Len(t) : t[i] = v \/ \E j \in 1..Len(s) : t[i] = s[j]
<1> DEFINE t == <<v>> \o s
<1>1. /\ t \in Seq(Vdbes)
      /\ Len(t) = Len(s) + 1
      /\ t[1] = v
      /\ \A i \in 2..Len(t) : i - 1 \in 1..Len(s) /\ t[i] = s[i - 1]
  BY SMTT(40)
<1>2. t # <<>> /\ Head(t) = v
  BY SMTT(40), <1>1
<1> HIDE DEF t
<1>3. \A i \in 1..Len(t) : i = 1 \/ i \in 2..Len(t)
  BY SMTT(40), <1>1
<1>4. ASSUME NEW i \in 1..Len(t), NEW j \in 1..Len(t), t[i] = t[j]
      PROVE  i = j
  <2>1. CASE i = 1 /\ j = 1
    BY <2>1
  <2>2. CASE i = 1 /\ j \in 2..Len(t)
    BY <1>1, <1>4, <2>2
  <2>3. CASE i \in 2..Len(t) /\ j = 1
    BY <1>1, <1>4, <2>3
  <2>4. CASE i \in 2..Len(t) /\ j \in 2..Len(t)
    <3> DEFINE a == i - 1
               b == j - 1
    <3>1. a \in 1..Len(s) /\ b \in 1..Len(s) /\ s[a] = s[b]
      BY <1>1, <1>4, <2>4
    <3>2. a = b => i = j
      BY SMTT(40)
    <3> HIDE DEF a, b
    <3> QED
      BY <3>1, <3>2
  <2> QED
    BY <1>3, <2>1, <2>2, <2>3, <2>4
<1>5. \A i \in 1..Len(t) : t[i] = v \/ \E j \in 1..Len(s) : t[i] = s[j]
  BY <1>1, <1>3
<1> QED
  BY <1>1, <1>2, <1>4, <1>5 DEF t

(* A step that leaves the stores, the savepoints and every statement        *)
(* transaction alone.                                                       *)
LEMMA QuietInv ==
  ASSUME IInv, TypedControl', st' = st, sp' = sp, nDef' = nDef,
         \A d : StatementTxns(d)' = StatementTxns(d),
         \A w \in Writers' : vm'[w].txn # {} =>
                              w \in Writers /\ vm'[w].txn = vm[w].txn,
         Writers' = {} => Writers = {}
  PROVE  IInv'
<1>1. TypeOK' /\ st' \in Stores /\ LdbFlat' /\ Control'
  BY DEF IInv, TypeOK, TypedControl, LdbFlat
<1>2. SavepointsRestorable'
  BY DEF IInv, SavepointsRestorable
<1>3. ASSUME NEW d PROVE LevelBound(d)' = LevelBound(d)
  <2>1. StatementTxns(d)' = StatementTxns(d) /\ WriteLevel' = WriteLevel
    BY DEF WriteLevel
  <2> QED
    BY <2>1 DEF LevelBound
<1>4. LevelsAccounted'
  BY <1>3 DEF IInv, LevelsAccounted
<1> QED
  BY <1>1, <1>2, <1>4 DEF IInv

-----------------------------------------------------------------------------
(* The steps of a statement: sqlite4_step(), a row, OP_Transaction and the  *)
(* writes of its body.                                                      *)

(* sqlite4_step() starts a statement.                                       *)
LEMMA StepInv ==
  ASSUME IInv, NestedTxn = FALSE, NEW v \in Vdbes,
         NEW kind \in {"read", "write", "txn"}, NEW need \in BOOLEAN,
         NEW ds \in SUBSET Dbs, Step(v, kind, need, ds)
  PROVE  IInv'
<1> DEFINE pre == IF kind = "write" THEN Conts ELSE Idle.pre
           new == [Idle EXCEPT !.run = TRUE, !.kind = kind, !.need = need,
                               !.todo = ds, !.pre = pre]
<1>0. TypedControl
  BY DEF IInv, TypeOK, TypedControl
<1>1. vm' = [vm EXCEPT ![v] = new] /\ stk' = <<v>> \o stk
  BY DEF Step
<1>2. new \in Statement
  <2>1. Conts \in [Dbs -> Content]
    BY DEF IInv, TypeOK, Conts, Store
  <2>2. pre \in [Dbs -> Content]
    BY <2>1, IdleTyped DEF Statement
  <2> HIDE DEF pre
  <2> QED
    BY <2>2, IdleTyped DEF Statement
<1>3. /\ vm' \in [Vdbes -> Statement]
      /\ \A w \in Vdbes \ {v} : vm'[w] = vm[w]
      /\ vm'[v].run /\ vm'[v].kind = kind
      /\ vm'[v].mask = {} /\ vm'[v].txn = {}
  <2>1. new.run /\ new.kind = kind /\ new.mask = {} /\ new.txn = {}
    BY DEF Idle
  <2> HIDE DEF new
  <2> QED
    BY <1>0, <1>1, <1>2, <2>1 DEF TypedControl
<1> HIDE DEF new
<1>4. vm[v].mask = {} /\ ~vm[v].run
  BY <1>0 DEF TypedControl, Control, Writers, Running, Step
<1>5. Writers' = Writers \cup (IF kind = "write" THEN {v} ELSE {})
  BY <1>3, <1>4 DEF Writers, Running
<1>6. \A d : StatementTxns(d)' = StatementTxns(d)
  BY <1>3, <1>4 DEF StatementTxns
<1>7. \A i \in 1..Len(stk) : stk[i] # v
  BY <1>0, <1>4 DEF TypedControl
<1>8. /\ stk' \in Seq(Vdbes) /\ stk' # <<>> /\ Head(stk') = v
      /\ \A i, j \in 1..Len(stk') : stk'[i] = stk'[j] => i = j
      /\ \A i \in 1..Len(stk') :
           stk'[i] = v \/ \E j \in 1..Len(stk) : stk'[i] = stk[j]
  <2>1. stk \in Seq(Vdbes) /\ \A i, j \in 1..Len(stk) : stk[i] = stk[j] => i = j
    BY <1>0 DEF TypedControl, Control
  <2> DEFINE t == <<v>> \o stk
  <2>2. /\ t \in Seq(Vdbes) /\ t # <<>> /\ Head(t) = v
        /\ \A i, j \in 1..Len(t) : t[i] = t[j] => i = j
        /\ \A i \in 1..Len(t) : t[i] = v \/ \E j \in 1..Len(stk) : t[i] = stk[j]
    BY <1>7, <2>1, Pushed
  <2> HIDE DEF t
  <2> QED
    BY <1>1, <2>2 DEF t
<1>a. \A i \in 1..Len(stk') : vm'[stk'[i]].run
  BY SMTT(40), <1>0, <1>3, <1>7, <1>8 DEF TypedControl
<1>9. \A w \in Running' : vm'[w].kind = "txn" => OnTop(w)' /\ Writers' = {}
  <2>1. ASSUME NEW w \in Running', vm'[w].kind = "txn", w # v
        PROVE  FALSE
    <3>1. w \in Running /\ vm[w].kind = "txn"
      BY <1>3, <2>1 DEF Running
    <3> QED
      BY <1>0, <3>1 DEF TypedControl, Control, OnTop, Step, CanCallStep
  <2>2. kind = "txn" => Writers' = {}
    BY <1>5 DEF Step
  <2>3. OnTop(v)'
    BY <1>8 DEF OnTop
  <2> QED
    BY <1>3, <2>1, <2>2, <2>3
<1>10. \A w \in Vdbes : /\ vm'[w].mask # {} => w \in Writers'
                        /\ vm'[w].mask \subseteq vm'[w].txn
                        /\ vm'[w].todo \cap vm'[w].txn = {}
  BY <1>0, <1>3, <1>5 DEF TypedControl, Control
<1>11. TypedControl'
  BY <1>3, <1>8, <1>a, <1>9, <1>10 DEF TypedControl, Control
<1>12. \A w \in Writers' : vm'[w].txn # {} =>
                            w \in Writers /\ vm'[w].txn = vm[w].txn
  BY <1>3, <1>5 DEF Writers, Running
<1>13. Writers' = {} => Writers = {}
  BY <1>5
<1> QED
  BY <1>6, <1>11, <1>12, <1>13, QuietInv DEF Step

(* A statement returns a row, or is stepped again.                          *)
LEMMA RowInv ==
  ASSUME IInv, NEW v \in Vdbes, Row(v) \/ Resume(v)
  PROVE  IInv'
<1>0. TypedControl
  BY DEF IInv, TypeOK, TypedControl
<1>1. vm' = vm /\ st' = st /\ sp' = sp /\ nDef' = nDef
  BY DEF Row, Resume
<1>2. Running' = Running /\ Writers' = Writers
  BY <1>1 DEF Running, Writers
<1>3. \A d : StatementTxns(d)' = StatementTxns(d)
  BY <1>1 DEF StatementTxns
<1>4. CASE Row(v)
  <2>1. OnTop(v) /\ vm[v].kind = "read" /\ stk' = Tail(stk)
    BY <1>4 DEF Row, InBody
  <2>2. /\ stk' \in Seq(Vdbes)
        /\ \A i \in 1..Len(stk') : i + 1 \in 1..Len(stk) /\ stk'[i] = stk[i + 1]
    BY SMTT(40), <1>0, <2>1, TopRuns DEF TypedControl
  <2>3. /\ \A i, j \in 1..Len(stk') : stk'[i] = stk'[j] => i = j
        /\ \A i \in 1..Len(stk') : vm'[stk'[i]].run
    BY SMTT(40), <1>0, <1>1, <2>2 DEF TypedControl, Control
  <2>4. \A w \in Running' : vm'[w].kind # "txn"
    BY <1>0, <1>1, <1>2, <2>1 DEF TypedControl, Control, OnTop
  <2>5. TypedControl'
    BY <1>0, <1>1, <1>2, <2>2, <2>3, <2>4 DEF TypedControl, Control
  <2> QED
    BY <1>1, <1>2, <1>3, <2>5, QuietInv
<1>5. CASE Resume(v)
  <2>1. /\ stk' = <<v>> \o stk /\ CanCallStep
        /\ vm[v].run /\ \A i \in 1..Len(stk) : stk[i] # v
    BY <1>5 DEF Resume
  <2>2. /\ stk' \in Seq(Vdbes)
        /\ \A i, j \in 1..Len(stk') : stk'[i] = stk'[j] => i = j
        /\ \A i \in 1..Len(stk') :
             stk'[i] = v \/ \E j \in 1..Len(stk) : stk'[i] = stk[j]
    <3>1. stk \in Seq(Vdbes) /\ \A i, j \in 1..Len(stk) : stk[i] = stk[j] => i = j
      BY <1>0 DEF TypedControl, Control
    <3> QED
      BY <2>1, <3>1, Pushed
  <2>3. \A i \in 1..Len(stk') : vm'[stk'[i]].run
    BY <1>0, <1>1, <2>1, <2>2 DEF TypedControl
  <2>4. \A w \in Running' : vm'[w].kind # "txn"
    BY <1>0, <1>1, <1>2, <2>1 DEF TypedControl, Control, OnTop, CanCallStep
  <2>5. TypedControl'
    BY <1>0, <1>1, <1>2, <2>2, <2>3, <2>4 DEF TypedControl, Control
  <2> QED
    BY <1>1, <1>2, <1>3, <2>5, QuietInv
<1> QED
  BY <1>4, <1>5

(* OP_Transaction for reading.                                              *)
LEMMA TransactionReadInv ==
  ASSUME Counting, IInv, NEW v \in Vdbes, NEW d \in Dbs, TransactionRead(v, d)
  PROVE  IInv'
<1> DEFINE b == IF st[d].lvl = 0 THEN KVStoreBegin(Kind[d], st[d], 1) ELSE st[d]
<1>0. TypedControl /\ sp \in Seq(Savepoint)
  BY DEF IInv, TypeOK, TypedControl
<1>1. /\ st' = [st EXCEPT ![d] = b]
      /\ sp' = sp /\ nDef' = nDef /\ stk' = stk
      /\ OnTop(v) /\ vm[v].kind = "read"
  BY DEF TransactionRead
<1>2. /\ b \in GoodStore
      /\ b.cont = st[d].cont
      /\ b = st[d] \/ (b.lvl <= 1 /\ st[d].lvl = 0)
      /\ b.lvl = IF st[d].lvl = 0 /\ d \in Leveled THEN 1 ELSE st[d].lvl
  <2>1. st[d] \in GoodStore /\ Kind[d] \in Engines /\ 1 \in 1..MaxLevel
    BY SMTT(40), KindAssumption, MaxLevelAssumption DEF IInv, Stores
  <2>2. CASE st[d].lvl = 0
    <3>1. b = KVStoreBegin(Kind[d], st[d], 1) /\ st[d].lvl < 1
      BY SMTT(40), <2>2
    <3> HIDE DEF b
    <3> QED
      BY SMTT(40), <2>1, <2>2, <3>1, BeginGood DEF Leveled
  <2>3. CASE st[d].lvl # 0
    BY <2>1, <2>3
  <2> QED
    BY <2>2, <2>3
<1> HIDE DEF b
<1>3. /\ TypedControl'
      /\ Writers' = Writers
      /\ \A w \in Vdbes \ {v} : vm'[w] = vm[w]
      /\ \A e : StatementTxns(e)' = StatementTxns(e)
  <2> DEFINE x == [vm[v] EXCEPT !.todo = vm[v].todo \ {d},
                                !.txn = vm[v].txn \cup {d}]
  <2>1. vm[v] \in Statement /\ {} \in SUBSET {d}
    BY <1>0 DEF TypedControl
  <2>2. /\ vm[v].todo \ {d} \in SUBSET Dbs
        /\ vm[v].txn \cup {d} \in SUBSET Dbs
        /\ vm[v].mask = vm[v].mask \cup {}
    BY <2>1 DEF Statement
  <2>3. /\ x \in Statement
        /\ x.run = vm[v].run /\ x.kind = vm[v].kind
        /\ x.todo = vm[v].todo \ {d} /\ x.txn = vm[v].txn \cup {d}
        /\ x.mask = vm[v].mask \cup {}
    BY <2>1, <2>2 DEF Statement
  <2>4. vm' = [vm EXCEPT ![v] = x]
    BY DEF TransactionRead
  <2> HIDE DEF x
  <2>5. /\ vm[v].kind \in {"read", "write"}
        /\ {} # {} => vm[v].kind = "write"
        /\ stk' = stk /\ OnTop(v)
    BY <1>1
  <2>6. TypedControl' /\ Writers' = Writers
    BY <1>0, <2>1, <2>3, <2>4, <2>5, OpenControl
  <2>7. /\ \A w \in Vdbes \ {v} : vm'[w] = vm[w]
        /\ \A w \in Vdbes : vm'[w].mask = vm[w].mask
    BY <1>0, <2>2, <2>3, <2>4 DEF TypedControl
  <2>8. \A e : StatementTxns(e)' = StatementTxns(e)
    BY <2>7 DEF StatementTxns
  <2> QED
    BY <2>6, <2>7, <2>8
<1>4. st' \in Stores /\ LdbFlat'
  BY <1>1, <1>2 DEF IInv, Stores, LdbFlat
<1>5. TypeOK'
  BY <1>1, <1>3, <1>4, StoresTyped DEF IInv, TypeOK, TypedControl
<1>6. ASSUME NEW e \in Lsm, NEW m \in Nat, m >= 2
      PROVE  RollsBackTo(st'[e], m) = RollsBackTo(st[e], m)
  <2>1. st[e].lvl \in Nat
    BY SMTT(40) DEF IInv, Stores, GoodStore, Store, Lsm
  <2>2. CASE e = d
    <3>1. st'[e] = b
      BY <1>1, <2>2 DEF IInv, Stores
    <3> QED
      BY SMTT(40), <1>2, <1>6, <2>1, <2>2, <3>1 DEF RollsBackTo
  <2>3. CASE e # d
    BY <1>1, <2>3 DEF IInv, Stores, Lsm
  <2> QED
    BY <2>2, <2>3
<1>7. SavepointsRestorable'
  <2>1. \A j \in 1..Len(sp) : j + 1 \in Nat /\ j + 1 >= 2
    BY SMTT(40), <1>0
  <2> QED
    BY <1>1, <1>6, <2>1 DEF IInv, SavepointsRestorable
<1>8. ASSUME NEW e PROVE LevelBound(e)' = LevelBound(e)
  <2>1. StatementTxns(e)' = StatementTxns(e) /\ WriteLevel' = WriteLevel
    BY <1>1, <1>3 DEF WriteLevel
  <2> QED
    BY <2>1 DEF LevelBound
<1>9. LevelsAccounted'
  <2>1. \A w \in Writers' : w \in Writers /\ vm'[w] = vm[w]
    BY <1>1, <1>3 DEF Writers, Running
  <2>2. ASSUME NEW e \in Leveled
        PROVE  /\ st'[e].lvl <= LevelBound(e)
               /\ (\E w \in Writers : e \in vm[w].txn) =>
                    st'[e].lvl = LevelBound(e)
               /\ sp = <<>> /\ Writers = {} => st'[e].lvl <= 1
    <3>1. LevelBound(e) \in Nat /\ LevelBound(e) >= 2
      BY SMTT(40), <1>0, LevelsTyped
    <3>2. CASE e = d
      <4>1. st'[e] = b
        BY <1>1, <3>2 DEF IInv, Stores
      <4> QED
        BY SMTT(40), <1>2, <3>1, <3>2, <4>1 DEF IInv, LevelsAccounted
    <3>3. CASE e # d
      BY <1>1, <3>3 DEF IInv, LevelsAccounted, Stores, Leveled
    <3> QED
      BY <3>2, <3>3
  <2> QED
    BY <1>1, <1>3, <1>8, <2>1, <2>2 DEF LevelsAccounted
<1> QED
  BY <1>3, <1>4, <1>5, <1>7, <1>9 DEF IInv, TypedControl

(* OP_Transaction for writing, with or without a statement transaction.     *)
LEMMA TransactionWriteInv ==
  ASSUME Counting, IInv, NEW v \in Vdbes, NEW d \in Dbs, TransactionWrite(v, d)
  PROVE  IInv'
<1> DEFINE s == Opened(d)
           b == IF WantStmt(v) THEN KVStoreBegin(Kind[d], s, s.lvl + 1) ELSE s
           m == IF WantStmt(v) THEN {d} ELSE {}
           x == [vm[v] EXCEPT
                   !.todo = vm[v].todo \ {d},
                   !.txn = vm[v].txn \cup {d},
                   !.mask = IF WantStmt(v) THEN vm[v].mask \cup {d}
                            ELSE vm[v].mask,
                   !.def = IF WantStmt(v) THEN nDef ELSE vm[v].def]
<1>0. TypedControl /\ sp \in Seq(Savepoint) /\ nDef \in Int
  BY DEF IInv, TypeOK, TypedControl
<1>1. /\ st' = [st EXCEPT ![d] = b]
      /\ vm' = [vm EXCEPT ![v] = x]
      /\ sp' = sp /\ nDef' = nDef /\ stk' = stk
      /\ OnTop(v) /\ vm[v].kind = "write" /\ d \in vm[v].todo
      /\ WriteLevel <= MaxLevel /\ (WantStmt(v) => s.lvl < MaxLevel)
  BY DEF TransactionWrite, FirstTodo
<1>2. /\ s \in GoodStore /\ s.lvl \in Nat /\ s.lvl <= MaxLevel
      /\ d \in Leveled => s.lvl = LevelBound(d)
      /\ d \notin Leveled => s.lvl = 0
      /\ d \in Lsm => \A k \in Levels : k <= WriteLevel =>
           RollsBackTo(s, k) = RollsBackTo(st[d], k)
  <2>1. \A z \in GoodStore : z.lvl \in Nat /\ z.lvl <= MaxLevel
    BY SMTT(40), MaxLevelAssumption DEF GoodStore, Store
  <2> QED
    BY <1>1, <2>1, OpenedGood
<1> HIDE DEF s
<1>3. /\ WriteLevel \in Nat /\ WriteLevel >= 2 /\ WriteLevel >= Len(sp) + 1
      /\ IsFiniteSet(StatementTxns(d))
      /\ Cardinality(StatementTxns(d)) \in Nat
      /\ LevelBound(d) \in Nat /\ LevelBound(d) >= WriteLevel
  BY SMTT(20), <1>0, LevelsTyped
<1>4. /\ b \in GoodStore
      /\ d \in Leveled => b.lvl = IF WantStmt(v) THEN LevelBound(d) + 1
                                   ELSE LevelBound(d)
      /\ d \notin Leveled => b.lvl = 0
      /\ d \in Lsm => \A k \in Levels : k <= WriteLevel =>
           RollsBackTo(b, k) = RollsBackTo(st[d], k)
  <2>1. CASE WantStmt(v)
    <3>1. b = KVStoreBegin(Kind[d], s, s.lvl + 1)
      BY <2>1
    <3>2. /\ s.lvl + 1 \in 1..MaxLevel /\ s.lvl < s.lvl + 1
          /\ Kind[d] \in Engines
      BY SMTT(40), <1>1, <1>2, <2>1, MaxLevelAssumption, KindAssumption
    <3> HIDE DEF b
    <3>3. b \in GoodStore /\ b.lvl = IF Kind[d] = "ldb" THEN s.lvl ELSE s.lvl + 1
      BY <1>2, <3>1, <3>2, BeginGood
    <3>4. d \in Lsm => \A k \in Levels : k <= WriteLevel =>
            RollsBackTo(b, k) = RollsBackTo(s, k)
      <4> SUFFICES ASSUME d \in Lsm, NEW k \in Levels, k <= WriteLevel
                   PROVE  RollsBackTo(b, k) = RollsBackTo(s, k)
        OBVIOUS
      <4>1. Kind[d] = "lsm" /\ d \in Leveled
        BY DEF Lsm, Leveled
      <4>2. k <= s.lvl + 1
        BY SMTT(40), <1>2, <1>3, <4>1, MaxLevelAssumption DEF Levels
      <4> QED
        BY <1>2, <3>1, <3>2, <4>1, <4>2, BeginKeepsTargets
    <3> QED
      BY <1>2, <2>1, <3>3, <3>4 DEF Leveled
  <2>2. CASE ~WantStmt(v)
    BY <1>2, <2>2
  <2> QED
    BY <2>1, <2>2
<1> HIDE DEF b
<1>5. /\ x \in Statement
      /\ x.run = vm[v].run /\ x.kind = vm[v].kind
      /\ x.todo = vm[v].todo \ {d} /\ x.txn = vm[v].txn \cup {d}
      /\ x.mask = vm[v].mask \cup m
  <2> DEFINE y == IF WantStmt(v) THEN vm[v].mask \cup {d} ELSE vm[v].mask
             n == IF WantStmt(v) THEN nDef ELSE vm[v].def
  <2>1. vm[v] \in Statement
    BY <1>0 DEF TypedControl
  <2>2. /\ vm[v].todo \ {d} \in SUBSET Dbs
        /\ vm[v].txn \cup {d} \in SUBSET Dbs
        /\ y \in SUBSET Dbs
        /\ y = vm[v].mask \cup m
        /\ n \in Int
    BY <1>0, <2>1 DEF Statement
  <2>3. x = [vm[v] EXCEPT !.todo = vm[v].todo \ {d},
                          !.txn = vm[v].txn \cup {d}, !.mask = y, !.def = n]
    OBVIOUS
  <2> HIDE DEF x, y, n
  <2> QED
    BY <2>1, <2>2, <2>3 DEF Statement
<1> HIDE DEF x
<1>6. TypedControl' /\ Writers' = Writers
  <2>1. /\ vm[v].kind \in {"read", "write"}
        /\ m # {} => vm[v].kind = "write"
        /\ stk' = stk /\ OnTop(v)
        /\ vm' = [vm EXCEPT ![v] = x]
        /\ m \in SUBSET {d}
    BY <1>1
  <2> HIDE DEF m
  <2> QED
    BY <1>0, <1>5, <2>1, OpenControl
<1>7. /\ \A w \in Vdbes \ {v} : vm'[w] = vm[w]
      /\ vm'[v].mask = vm[v].mask \cup m
      /\ v \in Writers
  BY SMTT(20), <1>0, <1>1, <1>5, TopRuns DEF TypedControl, Writers
<1>8. st' \in Stores /\ LdbFlat'
  BY <1>1, <1>4 DEF IInv, Stores, LdbFlat
<1>9. TypeOK'
  BY <1>1, <1>6, <1>8, StoresTyped DEF IInv, TypeOK, TypedControl
<1>10. SavepointsRestorable'
  <2> SUFFICES ASSUME NEW j \in 1..Len(sp), NEW e \in Lsm
               PROVE  RollsBackTo(st'[e], j + 1) = RollsBackTo(st[e], j + 1)
    BY <1>1 DEF IInv, SavepointsRestorable
  <2>1. CASE e = d
    <3>1. st'[e] = b
      BY <1>1, <2>1 DEF IInv, Stores
    <3>2. j + 1 \in Levels /\ j + 1 <= WriteLevel
      BY SMTT(20), <1>0, <1>1, <1>3, MaxLevelAssumption DEF Levels
    <3> QED
      BY SMTT(20), <1>4, <2>1, <3>1, <3>2
  <2>2. CASE e # d
    BY <1>1, <2>2 DEF IInv, Stores, Lsm
  <2> QED
    BY <2>1, <2>2
<1>11. ASSUME NEW e
       PROVE  LevelBound(e)' = IF e = d /\ WantStmt(v) THEN LevelBound(e) + 1
                               ELSE LevelBound(e)
  <2>1. WriteLevel' = WriteLevel
    BY <1>1 DEF WriteLevel
  <2>2. CASE e = d /\ WantStmt(v)
    <3>1. v \notin StatementTxns(d)
      BY <1>0, <1>1 DEF TypedControl, Control, StatementTxns
    <3>2. StatementTxns(d)' = StatementTxns(d) \cup {v}
      BY <1>7, <2>2 DEF StatementTxns
    <3>3. Cardinality(StatementTxns(d) \cup {v}) =
            Cardinality(StatementTxns(d)) + 1
      BY <1>3, <3>1, CountAdded
    <3>4. LevelBound(e)' = WriteLevel + Cardinality(StatementTxns(d) \cup {v})
      BY <2>1, <2>2, <3>2 DEF LevelBound
    <3> QED
      BY SMTT(40), <1>3, <2>2, <3>3, <3>4 DEF LevelBound
  <2>3. CASE ~(e = d /\ WantStmt(v))
    <3>1. StatementTxns(e)' = StatementTxns(e)
      BY <1>7, <2>3 DEF StatementTxns
    <3>2. LevelBound(e)' = LevelBound(e)
      BY <2>1, <3>1 DEF LevelBound
    <3> QED
      BY <2>3, <3>2
  <2> QED
    BY <2>2, <2>3
<1>12. LevelsAccounted'
  <2>1. \A w \in Writers' : w = v \/ vm'[w] = vm[w]
    BY <1>6, <1>7 DEF Writers, Running
  <2>2. ASSUME NEW e \in Leveled, e # d
        PROVE  /\ st'[e] = st[e]
               /\ LevelBound(e)' = LevelBound(e)
               /\ \A w \in Writers : e \in vm'[w].txn => e \in vm[w].txn
    <3>1. st'[e] = st[e]
      BY <1>1, <2>2 DEF IInv, Stores, Leveled
    <3>2. vm'[v].txn = vm[v].txn \cup {d}
      BY <1>0, <1>1, <1>5 DEF TypedControl
    <3> QED
      BY SMTT(20), <1>6, <1>11, <2>1, <2>2, <3>1, <3>2
  <2>3. ASSUME d \in Leveled
        PROVE  st'[d].lvl = LevelBound(d)' /\ LevelBound(d)' \in Nat
    <3>1. st'[d] = b
      BY <1>1 DEF IInv, Stores
    <3> QED
      BY SMTT(40), <1>3, <1>4, <1>11, <2>3, <3>1
  <2>4. Writers' # {}
    BY <1>6, <1>7
  <2>5. ASSUME NEW e \in Leveled
        PROVE  /\ st'[e].lvl <= LevelBound(e)'
               /\ (\E w \in Writers' : e \in vm'[w].txn) =>
                    st'[e].lvl = LevelBound(e)'
    <3>1. CASE e = d
      BY SMTT(40), <2>3, <3>1
    <3>2. CASE e # d
      BY <1>6, <2>2, <3>2 DEF IInv, LevelsAccounted
    <3> QED
      BY <3>1, <3>2
  <2> QED
    BY <2>4, <2>5 DEF LevelsAccounted
<1> QED
  BY <1>6, <1>8, <1>9, <1>10, <1>12 DEF IInv, TypedControl

(* The statement transaction cannot be opened: the store is as deep as what *)
(* is open accounts for, and no target has moved.                           *)
LEMMA TransactionFailsInv ==
  ASSUME Counting, IInv, NEW v \in Vdbes, NEW d \in Dbs, TransactionFails(v, d)
  PROVE  IInv'
<1> DEFINE b == Opened(d)
           x == [vm[v] EXCEPT !.rc = "error", !.def = nDef]
<1>0. TypedControl /\ sp \in Seq(Savepoint) /\ nDef \in Int
  BY DEF IInv, TypeOK, TypedControl
<1>1. /\ st' = [st EXCEPT ![d] = b]
      /\ vm' = [vm EXCEPT ![v] = x]
      /\ nDef' = nDef /\ sp' = sp /\ stk' = stk
      /\ OnTop(v) /\ vm[v].kind = "write"
      /\ WriteLevel <= MaxLevel
  BY DEF TransactionFails
<1>2. /\ b \in GoodStore
      /\ d \in Leveled => b.lvl = LevelBound(d)
      /\ d \notin Leveled => b.lvl = 0
      /\ d \in Lsm => \A k \in Levels : k <= WriteLevel =>
           RollsBackTo(b, k) = RollsBackTo(st[d], k)
  BY <1>1, OpenedGood
<1> HIDE DEF b
<1>3. /\ WriteLevel \in Nat /\ WriteLevel >= Len(sp) + 1
      /\ LevelBound(d) \in Nat
  BY <1>0, LevelsTyped
<1>4. /\ vm' \in [Vdbes -> Statement]
      /\ \A w \in Vdbes : /\ vm'[w].run = vm[w].run
                           /\ vm'[w].kind = vm[w].kind
                           /\ vm'[w].mask = vm[w].mask
                           /\ vm'[w].txn = vm[w].txn
                           /\ vm'[w].todo = vm[w].todo
  <2>1. vm \in [Vdbes -> Statement] /\ vm[v] \in Statement
    BY <1>0 DEF TypedControl
  <2>2. /\ x \in Statement
        /\ x.run = vm[v].run /\ x.kind = vm[v].kind /\ x.mask = vm[v].mask
        /\ x.txn = vm[v].txn /\ x.todo = vm[v].todo
    BY <1>0, <2>1 DEF Statement
  <2> HIDE DEF x
  <2> QED
    BY <1>1, <2>1, <2>2
<1>5. Running' = Running
  BY <1>4 DEF Running
<1>6. Writers' = Writers /\ v \in Writers
  BY SMTT(40), <1>0, <1>1, <1>4, <1>5, TopRuns DEF Writers, Running
<1>7. TypedControl'
  BY SMTT(40), <1>0, <1>1, <1>4, <1>5, <1>6 DEF TypedControl, Control, OnTop, Running
<1>8. st' \in Stores /\ LdbFlat'
  BY <1>1, <1>2 DEF IInv, Stores, LdbFlat
<1>9. TypeOK'
  BY <1>0, <1>1, <1>7, <1>8, StoresTyped DEF TypeOK, TypedControl
<1>10. ASSUME NEW e PROVE LevelBound(e)' = LevelBound(e)
  <2>1. StatementTxns(e)' = StatementTxns(e) /\ WriteLevel' = WriteLevel
    BY <1>1, <1>4 DEF WriteLevel, StatementTxns
  <2> QED
    BY <2>1 DEF LevelBound
<1>11. LevelsAccounted'
  <2>1. \A w \in Writers : vm'[w].txn = vm[w].txn
    BY <1>4 DEF Writers, Running
  <2>2. ASSUME NEW e \in Leveled
        PROVE  /\ st'[e].lvl <= LevelBound(e)'
               /\ (\E w \in Writers' : e \in vm'[w].txn) =>
                    st'[e].lvl = LevelBound(e)'
    <3>1. CASE e = d
      <4>1. st'[e].lvl = LevelBound(d)
        BY <1>1, <1>2, <3>1 DEF IInv, Stores, Leveled
      <4> QED
        BY SMTT(40), <1>3, <1>10, <3>1, <4>1
    <3>2. CASE e # d
      <4>1. st'[e] = st[e]
        BY <1>1, <3>2 DEF IInv, Stores, Leveled
      <4> QED
        BY <1>6, <1>10, <2>1, <4>1 DEF IInv, LevelsAccounted
    <3> QED
      BY <3>1, <3>2
  <2> QED
    BY <1>6, <2>2 DEF LevelsAccounted
<1>12. SavepointsRestorable'
  <2> SUFFICES ASSUME NEW j \in 1..Len(sp), NEW e \in Lsm
               PROVE  RollsBackTo(st'[e], j + 1) = RollsBackTo(st[e], j + 1)
    BY <1>1 DEF IInv, SavepointsRestorable
  <2>1. CASE e = d
    <3>1. st'[e] = b
      BY <1>1, <2>1 DEF IInv, Stores
    <3>2. j + 1 \in Levels /\ j + 1 <= WriteLevel
      BY SMTT(40), <1>0, <1>1, <1>3, MaxLevelAssumption DEF Levels
    <3> QED
      BY <1>2, <2>1, <3>1, <3>2
  <2>2. CASE e # d
    BY <1>1, <2>2 DEF IInv, Stores, Lsm
  <2> QED
    BY <2>1, <2>2
<1> QED
  BY <1>7, <1>8, <1>9, <1>11, <1>12 DEF IInv, TypedControl

(* A row is written: the store is deep enough that no target moves.         *)
LEMMA WriteInv ==
  ASSUME Counting, IInv, NEW v \in Vdbes, NEW d \in Dbs, NEW c \in Content,
         NEW fk \in BOOLEAN, Write(v, d, c, fk)
  PROVE  IInv'
<1> DEFINE b == KVStoreWrite(Kind[d], st[d], c)
           x == [vm[v] EXCEPT !.wrote = TRUE, !.fk = fk]
<1>0. TypedControl /\ sp \in Seq(Savepoint) /\ nDef \in Int
  BY DEF IInv, TypeOK, TypedControl
<1>1. /\ st' = [st EXCEPT ![d] = b]
      /\ vm' = [vm EXCEPT ![v] = x]
      /\ nDef' = nDef + Viol[c] - Viol[st[d].cont]
      /\ sp' = sp /\ stk' = stk
      /\ OnTop(v) /\ vm[v].kind = "write" /\ d \in vm[v].txn
  BY DEF Write, InBody
<1>2. st[d] \in GoodStore /\ st[d].lvl \in 0..MaxLevel /\ st[d].cont \in Content
  BY DEF IInv, Stores, GoodStore, Store
<1>3. /\ b \in GoodStore /\ b.lvl = st[d].lvl
      /\ \A m \in Levels : m <= st[d].lvl => RollsBackTo(b, m) = RollsBackTo(st[d], m)
  BY SMTT(40), <1>2, KindAssumption, WriteGood
<1> HIDE DEF b
<1>4. /\ vm' \in [Vdbes -> Statement]
      /\ \A w \in Vdbes : /\ vm'[w].run = vm[w].run
                           /\ vm'[w].kind = vm[w].kind
                           /\ vm'[w].mask = vm[w].mask
                           /\ vm'[w].txn = vm[w].txn
                           /\ vm'[w].todo = vm[w].todo
  <2>1. vm \in [Vdbes -> Statement] /\ vm[v] \in Statement
    BY <1>0 DEF TypedControl
  <2>2. /\ x \in Statement
        /\ x.run = vm[v].run /\ x.kind = vm[v].kind /\ x.mask = vm[v].mask
        /\ x.txn = vm[v].txn /\ x.todo = vm[v].todo
    BY <2>1 DEF Statement
  <2> HIDE DEF x
  <2> QED
    BY <1>1, <2>1, <2>2
<1>5. Running' = Running
  BY <1>4 DEF Running
<1>6. Writers' = Writers
  BY <1>4, <1>5 DEF Writers, Running
<1>7. TypedControl'
  BY SMTT(40), <1>0, <1>1, <1>4, <1>5, <1>6 DEF TypedControl, Control, OnTop, Running
<1>8. st' \in Stores /\ LdbFlat' /\ \A e \in Dbs : st'[e].lvl = st[e].lvl
  BY <1>1, <1>3 DEF IInv, Stores, LdbFlat
<1>9. TypeOK'
  <2>1. nDef' \in Int
    BY SMTT(40), <1>0, <1>1, <1>2, ViolAssumption
  <2> QED
    BY <1>0, <1>1, <1>7, <1>8, <2>1, StoresTyped
    DEF TypeOK, TypedControl
<1>10. ASSUME NEW e PROVE LevelBound(e)' = LevelBound(e)
  <2>1. StatementTxns(e)' = StatementTxns(e) /\ WriteLevel' = WriteLevel
    BY <1>1, <1>4 DEF WriteLevel, StatementTxns
  <2> QED
    BY <2>1 DEF LevelBound
<1>11. LevelsAccounted'
  <2>1. \A w \in Writers : vm'[w].txn = vm[w].txn
    BY <1>4 DEF Writers, Running
  <2>2. \A e \in Leveled : st'[e].lvl = st[e].lvl
    BY <1>8 DEF Leveled
  <2> QED
    BY <1>1, <1>6, <1>10, <2>1, <2>2 DEF IInv, LevelsAccounted
<1>12. SavepointsRestorable'
  <2> SUFFICES ASSUME NEW j \in 1..Len(sp), NEW e \in Lsm
               PROVE  RollsBackTo(st'[e], j + 1) = RollsBackTo(st[e], j + 1)
    BY <1>1 DEF IInv, SavepointsRestorable
  <2>1. CASE e = d
    <3>1. st'[e] = b
      BY <1>1, <2>1 DEF IInv, Stores
    <3>2. v \in Writers /\ d \in Leveled
      BY <1>0, <1>1, <2>1, TopRuns DEF Writers, Lsm, Leveled
    <3>3. st[d].lvl = LevelBound(d)
      BY <1>1, <3>2 DEF IInv, LevelsAccounted
    <3>4. st[d].lvl >= Len(sp) + 1
      BY SMTT(40), <1>0, <3>3, LevelsTyped
    <3>5. j + 1 \in Levels /\ j + 1 <= st[d].lvl
      BY SMTT(40), <1>0, <1>2, <3>4, MaxLevelAssumption DEF Levels
    <3> QED
      BY <1>3, <2>1, <3>1, <3>5
  <2>2. CASE e # d
    BY <1>1, <2>2 DEF IInv, Stores, Lsm
  <2> QED
    BY <2>1, <2>2
<1> QED
  BY <1>7, <1>8, <1>9, <1>11, <1>12 DEF IInv, TypedControl

-----------------------------------------------------------------------------
(* OP_Savepoint and sqlite4VdbeHalt().                                      *)

(* What OP_Savepoint does when it closes the savepoints from level l on,    *)
(* committing or rolling back: no store is left above level l, and the      *)
(* targets up to level l stay.                                              *)
LEMMA ClosedInv ==
  ASSUME Counting, IInv, NEW v \in Vdbes, CanSavepoint(v), Returns(v, "ok"),
         NEW l \in 1..(Len(sp) + 1),
         st' \in Stores, sp' = SavepointsBelow(l), nDef' \in Int,
         \A d \in Leveled : st'[d].lvl = IF st[d].lvl >= l THEN l ELSE st[d].lvl,
         \A d \in Dbs \ Leveled : st'[d].lvl = st[d].lvl,
         \A d \in Lsm, m \in 2..l : RollsBackTo(st'[d], m) = RollsBackTo(st[d], m)
  PROVE  IInv'
<1>0. TypedControl /\ sp \in Seq(Savepoint)
  BY DEF IInv, TypeOK, TypedControl
<1>1. Writers = {}
  BY <1>0, SavepointRunsAlone
<1>2. /\ TypedControl'
      /\ Writers' = Writers
      /\ \A d : StatementTxns(d)' = StatementTxns(d)
  BY <1>0, ReturnsControl
<1>3. /\ sp' \in Seq(Savepoint)
      /\ Len(sp') = l - 1
      /\ \A i \in 1..(l - 1) : i \in 1..Len(sp) /\ sp'[i] = sp[i]
  BY <1>0, SavepointsBelowGood
<1>4. TypeOK'
  BY <1>2, <1>3, StoresTyped DEF TypeOK, TypedControl
<1>5. LdbFlat'
  BY DEF IInv, LdbFlat
<1>6. SavepointsRestorable'
  <2> SUFFICES ASSUME NEW j \in 1..(l - 1), NEW d \in Lsm
               PROVE  RollsBackTo(st'[d], j + 1) = sp[j].mark[d]
    BY SMTT(20), <1>3 DEF SavepointsRestorable
  <2>1. j + 1 \in 2..l
    BY SMTT(40), <1>0
  <2> QED
    BY <1>3, <2>1 DEF IInv, SavepointsRestorable
<1>7. LevelsAccounted'
  <2>1. WriteLevel' = IF l < 2 THEN 2 ELSE l
    BY SMTT(40), <1>0, <1>3 DEF WriteLevel
  <2>2. ASSUME NEW d PROVE LevelBound(d)' = WriteLevel'
    <3>1. StatementTxns(d)' = {}
      BY <1>0, <1>1, <1>2, NoStatementTxns
    <3>2. LevelBound(d)' = WriteLevel' + Cardinality({})
      BY <3>1 DEF LevelBound
    <3> QED
      BY SMTT(40), <1>0, <2>1, <3>2, CountNone
  <2>3. \A d \in Leveled : st[d].lvl \in Nat
    BY SMTT(40) DEF IInv, Stores, GoodStore, Store, Leveled
  <2>4. ASSUME NEW d \in Leveled
        PROVE  /\ st'[d].lvl <= LevelBound(d)'
               /\ sp' = <<>> => st'[d].lvl <= 1
    BY SMTT(40), <1>0, <1>3, <2>1, <2>2, <2>3
  <2> QED
    BY <1>1, <1>2, <2>4 DEF LevelsAccounted
<1> QED
  BY <1>2, <1>4, <1>5, <1>6, <1>7 DEF IInv, TypedControl

(* SAVEPOINT and BEGIN: no store is deep enough to have the new level.      *)
LEMMA SavepointBeginInv ==
  ASSUME Counting, IInv, NEW v \in Vdbes, NEW name \in Names \cup {NoName},
         SavepointBegin(v, name)
  PROVE  IInv'
<1> DEFINE p == [name |-> name, def |-> nDef, mark |-> Conts]
<1>0. TypedControl /\ sp \in Seq(Savepoint) /\ nDef \in Int
  BY DEF IInv, TypeOK, TypedControl
<1>1. /\ CanSavepoint(v) /\ Returns(v, "ok")
      /\ st' = st /\ nDef' = nDef /\ sp' = Append(sp, p)
  BY DEF SavepointBegin
<1>2. p \in Savepoint /\ \A d \in Dbs : p.mark[d] = st[d].cont
  <2>1. Conts \in [Dbs -> Content] /\ \A d \in Dbs : Conts[d] = st[d].cont
    BY DEF IInv, TypeOK, Conts, Store
  <2> QED
    BY <1>0, <2>1 DEF Savepoint
<1> HIDE DEF p
<1>3. Writers = {}
  BY <1>0, <1>1, SavepointRunsAlone
<1>4. /\ TypedControl'
      /\ Writers' = Writers
      /\ \A d : StatementTxns(d)' = StatementTxns(d)
  BY <1>0, <1>1, ReturnsControl
<1>5. /\ sp' \in Seq(Savepoint)
      /\ Len(sp') = Len(sp) + 1
      /\ sp'[Len(sp) + 1] = p
      /\ \A j \in 1..Len(sp) : sp'[j] = sp[j]
      /\ \A j \in 1..Len(sp') : j = Len(sp) + 1 \/ j \in 1..Len(sp)
  BY SMTT(40), <1>0, <1>1, <1>2
<1>6. TypeOK' /\ st' \in Stores /\ LdbFlat'
  BY <1>1, <1>4, <1>5 DEF IInv, TypeOK, TypedControl, LdbFlat
<1>7. \A d \in Leveled : st[d].lvl \in Nat /\ st[d].lvl <= Len(sp) + 1
  <2> SUFFICES ASSUME NEW d \in Leveled
               PROVE  st[d].lvl \in Nat /\ st[d].lvl <= Len(sp) + 1
    OBVIOUS
  <2>1. st[d].lvl \in Nat
    BY SMTT(40) DEF IInv, Stores, GoodStore, Store, Leveled
  <2>2. st[d].lvl <= WriteLevel
    BY <1>0, <1>3, NoStatementTxns DEF IInv, LevelsAccounted
  <2>3. sp = <<>> => st[d].lvl <= 1
    BY <1>3 DEF IInv, LevelsAccounted
  <2>4. sp # <<>> => WriteLevel = Len(sp) + 1
    BY SMTT(40), <1>0 DEF WriteLevel
  <2>5. Len(sp) \in Nat
    BY SMTT(40), <1>0
  <2> QED
    BY SMTT(40), <2>1, <2>2, <2>3, <2>4, <2>5
<1>8. SavepointsRestorable'
  <2> SUFFICES ASSUME NEW j \in 1..Len(sp'), NEW d \in Lsm
               PROVE  RollsBackTo(st[d], j + 1) = sp'[j].mark[d]
    BY <1>1 DEF SavepointsRestorable
  <2>1. CASE j \in 1..Len(sp)
    BY <1>5, <2>1 DEF IInv, SavepointsRestorable
  <2>2. CASE j = Len(sp) + 1
    <3>1. ~(st[d].lvl >= j + 1)
      BY SMTT(40), <1>0, <1>7, <2>2 DEF Lsm, Leveled
    <3> QED
      BY <1>2, <1>5, <2>2, <3>1 DEF RollsBackTo, Lsm
  <2> QED
    BY <1>5, <2>1, <2>2
<1>9. LevelsAccounted'
  <2>1. WriteLevel' = Len(sp) + 2 /\ sp' # <<>>
    BY SMTT(40), <1>0, <1>5 DEF WriteLevel
  <2>2. ASSUME NEW d PROVE LevelBound(d)' = Len(sp) + 2
    <3>1. StatementTxns(d)' = {}
      BY <1>0, <1>3, <1>4, NoStatementTxns
    <3>2. LevelBound(d)' = WriteLevel' + Cardinality({})
      BY <3>1 DEF LevelBound
    <3> QED
      BY SMTT(40), <1>0, <2>1, <3>2, CountNone
  <2>3. \A d \in Leveled : st[d].lvl <= Len(sp) + 2
    BY SMTT(40), <1>0, <1>7
  <2> QED
    BY <1>1, <1>3, <1>4, <2>1, <2>2, <2>3 DEF LevelsAccounted
<1> QED
  BY <1>4, <1>6, <1>8, <1>9 DEF IInv, TypedControl

(* RELEASE and COMMIT.                                                      *)
LEMMA SavepointReleaseInv ==
  ASSUME Counting, IInv, NEW v \in Vdbes, NEW name, NEW j \in 1..Len(sp),
         SavepointRelease(v, name, j)
  PROVE  IInv'
<1>1. /\ st \in Stores /\ sp \in Seq(Savepoint) /\ nDef' \in Int
      /\ j \in Nat /\ j \in 1..(Len(sp) + 1)
      /\ CanSavepoint(v) /\ Returns(v, "ok")
      /\ st' = CommitStores(st, j) /\ sp' = SavepointsBelow(j)
  BY SMTT(40) DEF IInv, TypeOK, SavepointRelease
<1>2. /\ st' \in Stores
      /\ \A d \in Leveled : st'[d].lvl = IF st[d].lvl > j THEN j ELSE st[d].lvl
      /\ \A d \in Dbs \ Leveled : st'[d].lvl = st[d].lvl
      /\ \A d \in Lsm, m \in 2..j : RollsBackTo(st'[d], m) = RollsBackTo(st[d], m)
  BY <1>1, CommitStoresGood
<1>3. \A d \in Leveled : st[d].lvl \in Nat
  BY SMTT(40) DEF IInv, Stores, GoodStore, Store, Leveled
<1>4. \A d \in Leveled : st'[d].lvl = IF st[d].lvl >= j THEN j ELSE st[d].lvl
  BY SMTT(40), <1>1, <1>2, <1>3
<1> QED
  BY <1>1, <1>2, <1>4, ClosedInv

(* A RELEASE or COMMIT that fails.                                          *)
LEMMA SavepointReleaseFailsInv ==
  ASSUME Counting, IInv, NEW v \in Vdbes, NEW name, NEW j \in 1..Len(sp), NEW i \in Dbs,
         SavepointReleaseFails(v, name, j, i)
  PROVE  IInv'
<1>1. /\ st \in Stores /\ j \in Nat \ {0} /\ TypedControl
      /\ CanSavepoint(v) /\ Returns(v, "error")
      /\ st' = CommitFailsAt(st, j, i) /\ sp' = <<>> /\ nDef' = 0
  BY SMTT(40) DEF IInv, TypeOK, TypedControl, SavepointReleaseFails
<1>2. /\ st' \in Stores
      /\ \A d \in Leveled : st'[d].lvl <= 1
      /\ \A d \in Dbs \ Leveled : st'[d].lvl = st[d].lvl
  BY <1>1, CommitFailsAtGood
<1>3. TypedControl' /\ Writers' = {}
  BY <1>1, ReturnsControl, SavepointRunsAlone
<1>4. LdbFlat'
  BY <1>2 DEF IInv, LdbFlat
<1> QED
  BY SMTT(40), <1>1, <1>2, <1>3, <1>4, OutsideInv

(* ROLLBACK TO and ROLLBACK.                                                *)
LEMMA SavepointRollbackInv ==
  ASSUME Counting, IInv, NEW v \in Vdbes, NEW name, NEW j \in 1..Len(sp),
         SavepointRollback(v, name, j)
  PROVE  IInv'
<1> DEFINE l == IF name = NoName THEN j ELSE j + 1
<1>1. /\ st \in Stores /\ sp \in Seq(Savepoint)
      /\ l \in Nat /\ l \in 1..(Len(sp) + 1)
      /\ CanSavepoint(v) /\ Returns(v, "ok")
      /\ st' = RollbackStores(st, l) /\ sp' = SavepointsBelow(l)
      /\ nDef' = DefOf(sp')
  BY SMTT(40) DEF IInv, TypeOK, SavepointRollback
<1> HIDE DEF l
<1>2. nDef' \in Int
  <2>1. sp' \in Seq(Savepoint)
    BY <1>1, SavepointsBelowGood
  <2>2. sp' # <<>> => sp'[Len(sp')] \in Savepoint
    BY SMTT(40), <2>1
  <2> QED
    BY SMTT(40), <1>1, <2>1, <2>2 DEF DefOf, Savepoint
<1>3. /\ st' \in Stores
      /\ \A d \in Leveled : st'[d].lvl = IF st[d].lvl >= l THEN l ELSE st[d].lvl
      /\ \A d \in Dbs \ Leveled : st'[d].lvl = st[d].lvl
      /\ \A d \in Lsm, m \in 2..l : RollsBackTo(st'[d], m) = RollsBackTo(st[d], m)
  BY <1>1, RollbackStoresGood
<1> QED
  BY <1>1, <1>2, <1>3, ClosedInv

(* OP_Savepoint reports an error.                                           *)
LEMMA SavepointErrorInv ==
  ASSUME IInv, NEW v \in Vdbes, NEW name, SavepointError(v, name)
  PROVE  IInv'
<1>1. /\ TypedControl /\ Returns(v, "error")
      /\ st' = st /\ sp' = sp /\ nDef' = nDef
  BY DEF IInv, TypeOK, TypedControl, SavepointError
<1>2. /\ TypedControl'
      /\ Writers' = Writers
      /\ \A d : StatementTxns(d)' = StatementTxns(d)
  BY <1>1, ReturnsControl
<1>3. \A w \in Writers' : w \in Writers /\ vm'[w].txn = vm[w].txn
  <2>1. \A w \in Vdbes : vm'[w].txn = vm[w].txn
    BY SMTT(40), <1>1 DEF Returns, TypedControl, Statement
  <2> QED
    BY <1>2, <2>1 DEF Writers, Running
<1> QED
  BY <1>1, <1>2, <1>3, QuietInv

(* The end of a transaction, however the stores were brought down.          *)
LEMMA EndInv ==
  ASSUME Counting, IInv, NEW v \in Vdbes, OnTop(v), Writers \subseteq {v},
         NEW s \in Stores, \A d \in Leveled : s[d].lvl <= 1,
         \A d \in Dbs \ Leveled : s[d].lvl = 0,
         Finish(v, s, <<>>, 0)
  PROVE  IInv'
<1>1. /\ sp' = <<>> /\ nDef' = 0
      /\ vm' = [vm EXCEPT ![v] = Idle] /\ stk' = Tail(stk)
      /\ st' = s \/ st' = RollbackStores(s, 0)
  BY DEF Finish
<1>2. \A d \in Leveled : s[d].lvl \in Nat
  BY SMTT(40) DEF Stores, GoodStore, Store, Leveled
<1>3. /\ st' \in Stores
      /\ \A d \in Leveled : st'[d].lvl <= 1
      /\ \A d \in Dbs \ Leveled : st'[d].lvl = 0
  <2>1. /\ RollbackStores(s, 0) \in Stores
        /\ \A d \in Leveled : RollbackStores(s, 0)[d].lvl =
                                IF s[d].lvl >= 0 THEN 0 ELSE s[d].lvl
        /\ \A d \in Dbs \ Leveled : RollbackStores(s, 0)[d].lvl = s[d].lvl
    BY SMTT(40), RollbackStoresGood
  <2>2. \A d \in Leveled : RollbackStores(s, 0)[d].lvl <= 1
    BY SMTT(40), <1>2, <2>1
  <2> QED
    BY <1>1, <2>1, <2>2
<1>4. TypedControl
  BY DEF IInv, TypeOK, TypedControl
<1>5. TypedControl' /\ Writers' = {}
  BY <1>1, <1>4, HaltControl
<1>6. LdbFlat'
  BY <1>3 DEF LdbFlat
<1> QED
  BY SMTT(40), <1>1, <1>3, <1>5, <1>6, OutsideInv

(* sqlite4VdbeHalt() ends the transaction.                                  *)
LEMMA HaltEndInv ==
  ASSUME Counting, IInv, NestedTxn = FALSE, NEW v \in Vdbes, NEW r \in Results,
         \/ HaltCommit(v, r)
         \/ \E i \in Dbs : HaltCommitFails(v, r, i)
         \/ HaltRollback(v, r)
  PROVE  IInv'
<1>1. /\ st \in Stores
      /\ \A d \in Dbs \ Leveled : st[d].lvl = 0
      /\ \A d \in Leveled : st[d].lvl \in Nat
  BY SMTT(40) DEF IInv, LdbFlat, Stores, GoodStore, Store, Leveled
<1>2. OnTop(v) /\ Writers \subseteq {v}
  BY OutermostWritesAlone
  DEF HaltCommit, HaltCommitFails, HaltRollback, CanEnd
<1>3. CASE HaltCommit(v, r)
  <2>1. /\ CommitStores(st, 1) \in Stores
        /\ \A d \in Leveled : CommitStores(st, 1)[d].lvl =
                                IF st[d].lvl > 1 THEN 1 ELSE st[d].lvl
        /\ \A d \in Dbs \ Leveled : CommitStores(st, 1)[d].lvl = st[d].lvl
    BY <1>1, CommitStoresGood
  <2>2. ASSUME NEW d \in Leveled PROVE CommitStores(st, 1)[d].lvl <= 1
    <3>1. /\ st[d].lvl \in Nat
          /\ CommitStores(st, 1)[d].lvl = IF st[d].lvl > 1 THEN 1 ELSE st[d].lvl
      BY <1>1, <2>1
    <3> QED
      BY SMTT(40), <3>1
  <2> QED
    BY <1>1, <1>2, <1>3, <2>1, <2>2, EndInv DEF HaltCommit
<1>4. ASSUME NEW i \in Dbs, HaltCommitFails(v, r, i) PROVE IInv'
  <2>1. /\ CommitFailsAt(st, 1, i) \in Stores
        /\ \A d \in Leveled : CommitFailsAt(st, 1, i)[d].lvl <= 1
        /\ \A d \in Dbs \ Leveled : CommitFailsAt(st, 1, i)[d].lvl = st[d].lvl
    BY SMTT(20), <1>1, CommitFailsAtGood
  <2> QED
    BY <1>1, <1>2, <1>4, <2>1, EndInv DEF HaltCommitFails
<1>5. CASE HaltRollback(v, r)
  <2>1. /\ RollbackStores(st, 1) \in Stores
        /\ \A d \in Leveled : RollbackStores(st, 1)[d].lvl =
                                IF st[d].lvl >= 1 THEN 1 ELSE st[d].lvl
        /\ \A d \in Dbs \ Leveled : RollbackStores(st, 1)[d].lvl = st[d].lvl
    BY SMTT(40), <1>1, RollbackStoresGood
  <2>2. ASSUME NEW d \in Leveled PROVE RollbackStores(st, 1)[d].lvl <= 1
    <3>1. /\ st[d].lvl \in Nat
          /\ RollbackStores(st, 1)[d].lvl =
               IF st[d].lvl >= 1 THEN 1 ELSE st[d].lvl
      BY <1>1, <2>1
    <3> QED
      BY SMTT(40), <3>1
  <2> QED
    BY <1>1, <1>2, <1>5, <2>1, <2>2, EndInv DEF HaltRollback
<1> QED
  BY <1>3, <1>4, <1>5

(* sqlite4VdbeHalt() ends a statement inside a transaction, or next to      *)
(* another that writes.                                                     *)
LEMMA HaltStatementInv ==
  ASSUME Counting, IInv, NEW v \in Vdbes, NEW r \in Results, HaltStatement(v, r)
  PROVE  IInv'
<1> DEFINE rollback == EAction(v, r) # 0
           s == StatementClosed(v, st, rollback)
           n == IF rollback /\ vm[v].mask # {} THEN vm[v].def ELSE nDef
<1>0. TypedControl /\ sp \in Seq(Savepoint) /\ nDef \in Int /\ st \in Stores
  BY DEF IInv, TypeOK, TypedControl
<1>1. OnTop(v) /\ ~Outermost(v, r) /\ Finish(v, s, sp, n)
  BY DEF HaltStatement, CanEnd
<1>2. v \in Running /\ (vm[v].kind = "write" <=> v \in Writers)
  BY <1>0, <1>1, TopRuns DEF Writers
<1>3. ~(sp = <<>> /\ Writers \subseteq {v})
  BY <1>1, <1>2 DEF Outermost
<1>4. /\ st' = s /\ sp' = sp /\ nDef' = n
      /\ vm' = [vm EXCEPT ![v] = Idle] /\ stk' = Tail(stk)
  <2>1. ~(sp = <<>> /\ Running = {v})
    BY <1>3 DEF Writers
  <2> QED
    BY <1>1, <2>1 DEF Finish
<1>5. n \in Int
  BY <1>0 DEF TypedControl, Statement
<1> HIDE DEF n
<1>6. /\ TypedControl'
      /\ Writers' = Writers \ {v}
      /\ \A w \in Vdbes \ {v} : vm'[w] = vm[w]
      /\ \A d : StatementTxns(d)' = StatementTxns(d) \ {v}
  BY <1>0, <1>1, <1>4, HaltControl
<1>7. ASSUME NEW d \in Leveled, d \in vm[v].mask
      PROVE  /\ st[d].lvl = LevelBound(d)
             /\ v \in StatementTxns(d)
             /\ LevelBound(d) \in Nat /\ LevelBound(d) >= WriteLevel + 1
             /\ WriteLevel \in Nat /\ WriteLevel >= 2 /\ WriteLevel >= Len(sp) + 1
  <2>1. v \in Writers /\ d \in vm[v].txn /\ v \in StatementTxns(d)
    BY <1>0, <1>7 DEF TypedControl, Control, StatementTxns
  <2>2. st[d].lvl = LevelBound(d)
    BY <2>1 DEF IInv, LevelsAccounted
  <2>3. /\ IsFiniteSet(StatementTxns(d))
        /\ Cardinality(StatementTxns(d)) \in Nat
        /\ WriteLevel \in Nat /\ WriteLevel >= 2 /\ WriteLevel >= Len(sp) + 1
    BY <1>0, LevelsTyped
  <2>4. Cardinality(StatementTxns(d)) # 0
    BY <2>1, <2>3, CountNone
  <2> QED
    BY SMTT(40), <2>1, <2>2, <2>3, <2>4 DEF LevelBound
<1>8. /\ s \in Stores
      /\ \A d \in Leveled : s[d].lvl = IF d \in vm[v].mask THEN st[d].lvl - 1
                                        ELSE st[d].lvl
      /\ \A d \in Dbs \ Leveled : s[d].lvl = st[d].lvl
      /\ \A d \in Lsm : \A m \in Levels : m < st[d].lvl =>
           RollsBackTo(s[d], m) = RollsBackTo(st[d], m)
      /\ \A d \in Dbs : d \notin vm[v].mask => s[d] = st[d]
  <2>1. rollback \in BOOLEAN
    OBVIOUS
  <2>2. \A d \in Leveled : d \in vm[v].mask => st[d].lvl >= 2
    BY SMTT(20), <1>7
  <2> HIDE DEF rollback
  <2> QED
    BY <1>0, <2>1, <2>2, StatementClosedGood
<1> HIDE DEF s
<1>9. TypeOK' /\ LdbFlat'
  BY <1>0, <1>4, <1>5, <1>6, <1>8, StoresTyped
  DEF IInv, TypeOK, TypedControl, LdbFlat
<1>10. SavepointsRestorable'
  <2> SUFFICES ASSUME NEW j \in 1..Len(sp), NEW d \in Lsm
               PROVE  RollsBackTo(s[d], j + 1) = RollsBackTo(st[d], j + 1)
    BY <1>4 DEF IInv, SavepointsRestorable
  <2>1. d \in Dbs /\ d \in Leveled
    BY DEF Lsm, Leveled
  <2>2. CASE d \in vm[v].mask
    <3>1. st[d].lvl \in 0..MaxLevel
      BY <1>0, <2>1 DEF Stores, GoodStore, Store
    <3>2. j + 1 \in Levels /\ j + 1 < st[d].lvl
      BY SMTT(40), <1>0, <1>7, <2>1, <2>2, <3>1, MaxLevelAssumption DEF Levels
    <3> QED
      BY <1>8, <3>2
  <2>3. CASE d \notin vm[v].mask
    BY <1>8, <2>1, <2>3
  <2> QED
    BY <2>2, <2>3
<1>11. ASSUME NEW d
       PROVE  LevelBound(d)' = IF d \in vm[v].mask THEN LevelBound(d) - 1
                               ELSE LevelBound(d)
  <2>1. WriteLevel' = WriteLevel
    BY <1>4 DEF WriteLevel
  <2>2. LevelBound(d)' = WriteLevel + Cardinality(StatementTxns(d) \ {v})
    BY <1>6, <2>1 DEF LevelBound
  <2>3. /\ IsFiniteSet(StatementTxns(d))
        /\ Cardinality(StatementTxns(d)) \in Nat
        /\ WriteLevel \in Nat
    BY <1>0, LevelsTyped
  <2>4. v \in StatementTxns(d) <=> d \in vm[v].mask
    BY DEF StatementTxns
  <2>5. Cardinality(StatementTxns(d) \ {v}) =
          IF d \in vm[v].mask THEN Cardinality(StatementTxns(d)) - 1
          ELSE Cardinality(StatementTxns(d))
    BY <2>3, <2>4, CountRemoved
  <2> QED
    BY SMTT(40), <2>2, <2>3, <2>5 DEF LevelBound
<1>12. LevelsAccounted'
  <2>1. \A w \in Writers' : w \in Writers /\ vm'[w] = vm[w]
    BY <1>6 DEF Writers, Running
  <2>2. ~(sp' = <<>> /\ Writers' = {})
    BY <1>3, <1>4, <1>6
  <2>3. ASSUME NEW d \in Leveled
        PROVE  /\ st'[d].lvl <= LevelBound(d)'
               /\ (\E w \in Writers' : d \in vm'[w].txn) =>
                    st'[d].lvl = LevelBound(d)'
    <3>1. CASE d \in vm[v].mask
      BY SMTT(40), <1>4, <1>7, <1>8, <1>11, <3>1
    <3>2. CASE d \notin vm[v].mask
      BY <1>4, <1>8, <1>11, <2>1, <3>2 DEF IInv, LevelsAccounted
    <3> QED
      BY <3>1, <3>2
  <2> QED
    BY <2>2, <2>3 DEF LevelsAccounted
<1> QED
  BY <1>4, <1>6, <1>8, <1>9, <1>10, <1>12 DEF IInv, TypedControl

-----------------------------------------------------------------------------
(* Before the first statement, every store is closed and nothing is open.   *)
LEMMA InitInv ==
  ASSUME Counting, Init
  PROVE  IInv
<1> USE DEF Init
<1>1. st \in Stores /\ \A d \in Dbs : st[d].lvl = 0
  BY NewStoreGood, InitContentAssumption DEF Stores, NewStore
<1>2. vm \in [Vdbes -> Statement] /\ \A v \in Vdbes : vm[v] = Idle
  BY IdleTyped
<1>3. Running = {} /\ Writers = {}
  BY <1>2 DEF Running, Writers, Idle
<1>4. TypedControl
  <2>1. \A v \in Vdbes : vm[v].mask = {} /\ vm[v].txn = {} /\ vm[v].todo = {}
    BY <1>2 DEF Idle
  <2>2. stk \in Seq(Vdbes) /\ Len(stk) = 0
    BY SMTT(40)
  <2>3. Control
    BY SMTT(40), <1>3, <2>1, <2>2 DEF Control
  <2> QED
    BY SMTT(40), <1>2, <2>2, <2>3 DEF TypedControl
<1>5. TypeOK
  BY SMTT(40), <1>1, <1>4, StoresTyped DEF TypeOK, TypedControl
<1>6. LevelsAccounted
  <2>1. \A d : LevelBound(d) \in Nat
    BY <1>5, LevelsTyped DEF TypeOK
  <2> QED
    BY SMTT(40), <1>1, <1>3, <2>1 DEF LevelsAccounted, Leveled
<1>7. LdbFlat /\ SavepointsRestorable
  BY SMTT(40), <1>1 DEF LdbFlat, SavepointsRestorable
<1> QED
  BY <1>1, <1>4, <1>5, <1>6, <1>7 DEF IInv, TypedControl

(* Every step of the connection keeps the invariant.                        *)
LEMMA NextInv ==
  ASSUME Counting, NestedTxn = FALSE
  PROVE  IInv /\ [Next]_vars => IInv'
<1> SUFFICES ASSUME IInv, [Next]_vars PROVE IInv'
  OBVIOUS
<1>1. CASE UNCHANGED vars
  <2>1. Running' = Running /\ Writers' = Writers
    BY <1>1 DEF Running, Writers, vars
  <2>2. \A d : StatementTxns(d)' = StatementTxns(d)
    BY <1>1 DEF StatementTxns, vars
  <2>3. TypedControl'
    BY <1>1, <2>1 DEF IInv, TypeOK, TypedControl, Control, OnTop, vars
  <2> QED
    BY <1>1, <2>1, <2>2, <2>3, QuietInv DEF vars
<1>2. ASSUME NEW v \in Vdbes, NEW kind \in {"read", "write", "txn"},
             NEW need \in BOOLEAN, NEW ds \in SUBSET Dbs,
             Step(v, kind, need, ds)
      PROVE  IInv'
  BY <1>2, StepInv
<1>3. ASSUME NEW v \in Vdbes, Row(v) \/ Resume(v) PROVE IInv'
  BY <1>3, RowInv
<1>4. ASSUME NEW v \in Vdbes, NEW d \in Dbs, TransactionRead(v, d) PROVE IInv'
  BY <1>4, TransactionReadInv
<1>5. ASSUME NEW v \in Vdbes, NEW d \in Dbs, TransactionWrite(v, d) PROVE IInv'
  BY <1>5, TransactionWriteInv
<1>14. ASSUME NEW v \in Vdbes, NEW d \in Dbs, TransactionFails(v, d) PROVE IInv'
  BY <1>14, TransactionFailsInv
<1>6. ASSUME NEW v \in Vdbes, NEW d \in Dbs, NEW c \in Content,
             NEW fk \in BOOLEAN, Write(v, d, c, fk)
      PROVE  IInv'
  BY <1>6, WriteInv
<1>7. ASSUME NEW v \in Vdbes, NEW name \in Names \cup {NoName},
             SavepointBegin(v, name)
      PROVE  IInv'
  BY <1>7, SavepointBeginInv
<1>8. ASSUME NEW v \in Vdbes, NEW name \in Names \cup {NoName},
             NEW j \in 1..Len(sp), SavepointRelease(v, name, j)
      PROVE  IInv'
  BY <1>8, SavepointReleaseInv
<1>9. ASSUME NEW v \in Vdbes, NEW name \in Names \cup {NoName},
             NEW j \in 1..Len(sp), NEW i \in Dbs,
             SavepointReleaseFails(v, name, j, i)
      PROVE  IInv'
  BY <1>9, SavepointReleaseFailsInv
<1>10. ASSUME NEW v \in Vdbes, NEW name \in Names \cup {NoName},
              NEW j \in 1..Len(sp), SavepointRollback(v, name, j)
       PROVE  IInv'
  BY <1>10, SavepointRollbackInv
<1>11. ASSUME NEW v \in Vdbes, NEW name \in Names \cup {NoName},
              SavepointError(v, name)
       PROVE  IInv'
  BY <1>11, SavepointErrorInv
<1>12. ASSUME NEW v \in Vdbes, NEW r \in Results,
              \/ HaltCommit(v, r)
              \/ \E i \in Dbs : HaltCommitFails(v, r, i)
              \/ HaltRollback(v, r)
       PROVE  IInv'
  BY <1>12, HaltEndInv
<1>13. ASSUME NEW v \in Vdbes, NEW r \in Results, HaltStatement(v, r)
       PROVE  IInv'
  BY <1>13, HaltStatementInv
<1> QED
  BY <1>1, <1>2, <1>3, <1>4, <1>5, <1>6, <1>7, <1>8, <1>9, <1>10,
     <1>11, <1>12, <1>13, <1>14
  DEF Next

(* ROLLBACK TO puts back, in every lsm store, what the savepoint marks.     *)
LEMMA RollbackToInv ==
  ASSUME IInv, NEW v \in Vdbes, NEW name \in Names, NEW j \in 1..Len(sp),
         SavepointRollback(v, name, j)
  PROVE  /\ \A d \in Lsm : st'[d].cont = sp[j].mark[d]
         /\ sp' = SubSeq(sp, 1, j)
<1>1. /\ st \in Stores /\ sp \in Seq(Savepoint)
      /\ j \in Nat /\ j >= 1 /\ j <= Len(sp) /\ Len(sp) \in Nat
  BY SMTT(40) DEF IInv, TypeOK
<1>2. st' = RollbackStores(st, j + 1) /\ sp' = SavepointsBelow(j + 1)
  BY NoNameAssumption DEF SavepointRollback
<1>3. \A d \in Lsm : st'[d].cont = RollsBackTo(st[d], j + 1)
  <2>1. j + 1 \in Nat /\ j + 1 >= 2
    BY SMTT(40), <1>1
  <2> QED
    BY <1>1, <1>2, <2>1, RollbackStoresGood
<1>4. \A d \in Lsm : RollsBackTo(st[d], j + 1) = sp[j].mark[d]
  BY DEF IInv, SavepointsRestorable
<1>5. sp' = SubSeq(sp, 1, j)
  BY SMTT(40), <1>1, <1>2 DEF SavepointsBelow
<1> QED
  BY <1>3, <1>4, <1>5
=============================================================================

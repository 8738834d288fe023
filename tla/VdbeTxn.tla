------------------------------ MODULE VdbeTxn ------------------------------
(***************************************************************************)
(* Transaction control of one database connection: the opcodes             *)
(* OP_Savepoint and OP_Transaction (vdbe.c), sqlite4VdbeRollback(),        *)
(* sqlite4VdbeCommit(), vdbeCloseStatement() and sqlite4VdbeHalt()         *)
(* (vdbeaux.c), over the stores of StoreTxn.                               *)
(*                                                                         *)
(* The connection mutex lets one virtual machine (VDBE) run at a time, but *)
(* not one statement: a statement that reads hands back a row and stays    *)
(* active, and a function called from a statement may run further SQL.     *)
(* stk is the resulting stack of sqlite4_step() calls, its head running.   *)
(***************************************************************************)
EXTENDS StoreTxn, Sequences, FiniteSets

CONSTANTS NDb,          \* sqlite4.nDb
          Kind,         \* the engine behind each aDb[] entry
          Vdbes,        \* prepared statements
          Names,        \* savepoint names
          NoName,       \* the name of the savepoint that BEGIN opens
          Viol,         \* deferred foreign key violations in a content
          InitContent,  \* what every database holds at first
          MaxSavepoint, \* bound on nesting of savepoints
          CommitFails,  \* whether a commit may meet an I/O error
          NestedTxn     \* whether SQL run from inside a writing statement may
                        \* open, release or roll back transactions

Dbs == 1..NDb

ASSUME NDbAssumption == NDb \in Nat \ {0}
ASSUME KindAssumption == Kind \in [Dbs -> Engines]
ASSUME VdbesAssumption == IsFiniteSet(Vdbes)
ASSUME NoNameAssumption == NoName \notin Names
ASSUME ViolAssumption == Viol \in [Content -> Nat]
ASSUME InitContentAssumption == InitContent \in Content /\ Viol[InitContent] = 0
ASSUME MaxSavepointAssumption == MaxSavepoint \in Nat
ASSUME SwitchAssumption == CommitFails \in BOOLEAN /\ NestedTxn \in BOOLEAN

VARIABLES st,    \* aDb[i].pKV, the stores
          sp,    \* db->pSavepoint, outermost first; mark is what each
                 \* database held when the savepoint was opened (history)
          nDef,  \* db->nDeferredCons
          vm,    \* the statements
          stk    \* the sqlite4_step() calls in progress, innermost first

vars == <<st, sp, nDef, vm, stk>>

(* kind   "read", "write" or "txn" (a program around one OP_Savepoint)      *)
(* need   Vdbe.needSavepoint                                                *)
(* todo   databases whose OP_Transaction has still to run                   *)
(* txn    databases whose OP_Transaction has run                            *)
(* mask   Vdbe.stmtTransMask                                                *)
(* def    Vdbe.nStmtDefCons                                                 *)
(* fk     Vdbe.nFkConstraint is above zero                                  *)
(* wrote  some row has been written                                         *)
(* rc     "none", or the result of OP_Savepoint or of a failed               *)
(*        OP_Transaction                                                    *)
(* pre    what the databases held when a writing statement started (history) *)
Idle == [run |-> FALSE, kind |-> "read", need |-> FALSE, todo |-> {},
         txn |-> {}, mask |-> {}, def |-> 0, fk |-> FALSE, wrote |-> FALSE,
         rc |-> "none", pre |-> [d \in Dbs |-> InitContent]]

Conts == [d \in Dbs |-> st[d].cont]

Running == {v \in Vdbes : vm[v].run}            \* db->activeVdbeCnt
Writers == {v \in Running : vm[v].kind = "write"} \* db->writeVdbeCnt

OnTop(v) == stk # <<>> /\ Head(stk) = v

(* v is past its OP_Transaction opcodes and is the machine that runs.       *)
InBody(v) == OnTop(v) /\ vm[v].todo = {}

(* Where sqlite4_step() can be called from: the application, or a function  *)
(* evaluated by the statement on top.                                       *)
CanCallStep ==
  \/ stk = <<>>
  \/ InBody(Head(stk)) /\ vm[Head(stk)].kind # "txn"

Init ==
  /\ st = [d \in Dbs |-> NewStore(InitContent)]
  /\ sp = <<>>
  /\ nDef = 0
  /\ vm = [v \in Vdbes |-> Idle]
  /\ stk = <<>>

-----------------------------------------------------------------------------
(* sqlite4_step() on a statement that is not running.                       *)
Step(v, kind, need, ds) ==
  /\ ~vm[v].run
  /\ CanCallStep
  /\ kind = "txn" => ds = {} /\ ~need
  /\ kind # "txn" => ds # {}
  /\ kind = "read" => ~need
  /\ kind = "txn" => NestedTxn \/ Writers = {}
  /\ vm' = [vm EXCEPT ![v] = [Idle EXCEPT !.run = TRUE, !.kind = kind,
                                          !.need = need, !.todo = ds,
                                          !.pre = IF kind = "write" THEN Conts
                                                  ELSE @]]
  /\ stk' = <<v>> \o stk
  /\ UNCHANGED <<st, sp, nDef>>

(* A statement that reads returns SQLITE4_ROW to its caller, and is stepped *)
(* again.                                                                   *)
Row(v) ==
  /\ InBody(v) /\ vm[v].kind = "read"
  /\ stk' = Tail(stk)
  /\ UNCHANGED <<st, sp, nDef, vm>>

Resume(v) ==
  /\ vm[v].run /\ \A i \in 1..Len(stk) : stk[i] # v
  /\ CanCallStep
  /\ stk' = <<v>> \o stk
  /\ UNCHANGED <<st, sp, nDef, vm>>

-----------------------------------------------------------------------------
(* OP_Transaction.                                                          *)

FirstTodo(v, d) ==
  /\ vm[v].rc = "none"
  /\ d \in vm[v].todo /\ \A e \in vm[v].todo : d <= e

TransactionRead(v, d) ==
  /\ OnTop(v) /\ vm[v].kind = "read" /\ FirstTodo(v, d)
  /\ st' = [st EXCEPT ![d] = IF @.lvl = 0 THEN KVStoreBegin(Kind[d], @, 1)
                             ELSE @]
  /\ vm' = [vm EXCEPT ![v] = [vm[v] EXCEPT !.todo = @ \ {d},
                                         !.txn = @ \cup {d}]]
  /\ UNCHANGED <<sp, nDef, stk>>

(* Mutant: the level of the savepoint outside the innermost.                *)
WriteLevelTooLow == IF Len(sp) < 2 THEN 2 ELSE Len(sp)

WriteLevel == IF Len(sp) + 1 < 2 THEN 2 ELSE Len(sp) + 1

WantStmt(v) == sp # <<>> /\ (vm[v].need \/ Running # {v})

Opened(d) == IF st[d].lvl < WriteLevel
             THEN KVStoreBegin(Kind[d], st[d], WriteLevel) ELSE st[d]

TransactionWrite(v, d) ==
  LET s == Opened(d) IN
  /\ OnTop(v) /\ vm[v].kind = "write" /\ FirstTodo(v, d)
  /\ WriteLevel <= MaxLevel /\ (WantStmt(v) => s.lvl < MaxLevel)
  /\ st' = [st EXCEPT ![d] = IF WantStmt(v)
                             THEN KVStoreBegin(Kind[d], s, s.lvl + 1) ELSE s]
  /\ vm' = [vm EXCEPT ![v] =
               [vm[v] EXCEPT !.todo = @ \ {d},
                             !.txn  = @ \cup {d},
                             !.mask = IF WantStmt(v) THEN @ \cup {d} ELSE @,
                             !.def  = IF WantStmt(v) THEN nDef ELSE @]]
  /\ UNCHANGED <<sp, nDef, stk>>

(* The xBegin of the statement transaction fails (no memory) and the        *)
(* statement can only halt; the level opened for the savepoints stays.      *)
TransactionFails(v, d) ==
  /\ OnTop(v) /\ vm[v].kind = "write" /\ FirstTodo(v, d)
  /\ WriteLevel <= MaxLevel /\ WantStmt(v)
  /\ st' = [st EXCEPT ![d] = Opened(d)]
  /\ vm' = [vm EXCEPT ![v] = [vm[v] EXCEPT !.rc = "error", !.def = nDef]]
  /\ UNCHANGED <<sp, nDef, stk>>

(* A row is inserted, updated or deleted, with the OP_FkCounter that counts *)
(* the foreign keys it leaves violated.                                     *)
Write(v, d, c, fk) ==
  /\ InBody(v) /\ vm[v].kind = "write" /\ d \in vm[v].txn
  /\ c # st[d].cont
  /\ fk => vm[v].need
  /\ st' = [st EXCEPT ![d] = KVStoreWrite(Kind[d], @, c)]
  /\ nDef' = nDef + Viol[c] - Viol[st[d].cont]
  /\ vm' = [vm EXCEPT ![v] = [vm[v] EXCEPT !.wrote = TRUE, !.fk = fk]]
  /\ UNCHANGED <<sp, stk>>

-----------------------------------------------------------------------------
(* sqlite4VdbeRollback() and sqlite4VdbeCommit().                           *)

RollbackStores(s, l) ==
  [d \in Dbs |-> IF s[d].lvl >= l THEN KVStoreRollback(Kind[d], s[d], l)
                 ELSE s[d]]

CommitStores(s, l) ==
  [d \in Dbs |-> IF s[d].lvl > l THEN KVStoreCommit(Kind[d], s[d], l)
                 ELSE s[d]]

(* Database i reports an error: those before it are committed, those after  *)
(* it are not reached, and everything still open is rolled back.            *)
CommitFailsAt(s, l, i) ==
  RollbackStores([d \in Dbs |->
      CASE d < i -> IF s[d].lvl > l THEN KVStoreCommit(Kind[d], s[d], l)
                    ELSE s[d]
        [] d = i -> LsmCommitFails(s[d])
        [] d > i -> s[d]], 1)

CanFailAt(s, l, i) == CommitFails /\ CommitMayFail(Kind[i], s[i], l)

(* Mutant: one savepoint too many is kept.                                  *)
SavepointsUpTo(l) == SubSeq(sp, 1, IF l < Len(sp) THEN l ELSE Len(sp))

(* freeSavepoints()                                                         *)
SavepointsBelow(l) ==
  SubSeq(sp, 1, IF l <= 1 THEN 0 ELSE IF l - 1 < Len(sp) THEN l - 1
                ELSE Len(sp))

(* Mutant: the counter is not put back.                                     *)
DefOfNone(s) == 0

DefOf(s) == IF s = <<>> THEN 0 ELSE s[Len(s)].def

-----------------------------------------------------------------------------
(* OP_Savepoint.  j is the savepoint the name selects, counted from the     *)
(* outermost; the level of the store layer is j + 1.                        *)

Selects(name, j) ==
  /\ j \in 1..Len(sp)
  /\ IF name = NoName THEN j = 1
     ELSE sp[j].name = name /\ \A i \in (j + 1)..Len(sp) : sp[i].name # name

CanSavepoint(v) == OnTop(v) /\ vm[v].kind = "txn" /\ vm[v].rc = "none"

Returns(v, rc) == vm' = [vm EXCEPT ![v].rc = rc] /\ UNCHANGED stk

SavepointBegin(v, name) ==
  /\ CanSavepoint(v)
  /\ name = NoName => sp = <<>>
  /\ Len(sp) < MaxSavepoint
  /\ sp' = Append(sp, [name |-> name, def |-> nDef, mark |-> Conts])
  /\ Returns(v, "ok") /\ UNCHANGED <<st, nDef>>

(* Mutant: releasing an inner savepoint commits the transaction.            *)
SavepointReleaseAll(v, name, j) ==
  /\ CanSavepoint(v) /\ Selects(name, j)
  /\ j = 1 => nDef <= 0
  /\ st' = CommitStores(st, 1)
  /\ sp' = SavepointsBelow(j)
  /\ Returns(v, "ok") /\ UNCHANGED nDef

SavepointRelease(v, name, j) ==
  /\ CanSavepoint(v) /\ Selects(name, j)
  /\ j = 1 => nDef <= 0
  /\ st' = CommitStores(st, j)
  /\ sp' = SavepointsBelow(j)
  /\ Returns(v, "ok") /\ UNCHANGED nDef

SavepointReleaseFails(v, name, j, i) ==
  /\ CanSavepoint(v) /\ Selects(name, j)
  /\ j = 1 => nDef <= 0
  /\ CanFailAt(st, j, i)
  /\ st' = CommitFailsAt(st, j, i)
  /\ sp' = <<>> /\ nDef' = 0
  /\ Returns(v, "error")

SavepointRollback(v, name, j) ==
  LET l == IF name = NoName THEN j ELSE j + 1 IN
  /\ CanSavepoint(v) /\ Selects(name, j)
  /\ st' = RollbackStores(st, l)
  /\ sp' = SavepointsBelow(l)
  /\ nDef' = DefOf(sp')
  /\ Returns(v, "ok")

(* No such savepoint, a transaction inside a transaction, or a COMMIT that  *)
(* deferred foreign keys forbid.                                            *)
SavepointError(v, name) ==
  /\ CanSavepoint(v)
  /\ \/ \A j \in 1..Len(sp) : ~Selects(name, j)
     \/ name = NoName /\ sp # <<>>
     \/ nDef > 0 /\ Selects(name, 1)
  /\ Returns(v, "error") /\ UNCHANGED <<st, sp, nDef>>

-----------------------------------------------------------------------------
(* sqlite4VdbeHalt().  rc is Vdbe.rc and ea Vdbe.errorAction when it runs.  *)

Results == {<<"ok", "abort">>, <<"constraint", "abort">>,
            <<"constraint", "rollback">>, <<"constraint", "fail">>,
            <<"error", "abort">>}

(* What the program of v can end with: a row conflict is reported before    *)
(* any row is written unless the statement asked for a savepoint.           *)
CanEnd(v, r) ==
  /\ OnTop(v)
  /\ vm[v].kind = "txn" => vm[v].rc = r[1] /\ r[2] = "abort"
  /\ vm[v].todo # {} => r[1] = "error"
  /\ r[1] = "constraint" => vm[v].kind = "write"
  /\ r = <<"constraint", "abort">> => vm[v].need \/ ~vm[v].wrote
  /\ r = <<"constraint", "rollback">> => NestedTxn \/ Writers = {v}

(* 0 commit, 1 roll back the statement or transaction, 2 roll back the      *)
(* transaction.                                                             *)
EAction(v, r) ==
  CASE r = <<"constraint", "rollback">> -> 2
    [] r[1] = "ok" \/ r = <<"constraint", "fail">> ->
         IF vm[v].fk THEN 1 ELSE 0
    [] OTHER -> 1

Outermost(v, r) ==
  \/ EAction(v, r) = 2
  \/ sp = <<>> /\ Writers = (IF vm[v].kind = "write" THEN {v} ELSE {})

(* Mutant: read transactions are closed while other statements read.        *)
FinishEarly(v, s, p, n) ==
  /\ st' = IF p = <<>> THEN RollbackStores(s, 0) ELSE s
  /\ sp' = p /\ nDef' = n
  /\ vm' = [vm EXCEPT ![v] = Idle]
  /\ stk' = Tail(stk)

(* Mutant: the last statement leaves the read transactions open.            *)
FinishOpen(v, s, p, n) ==
  /\ st' = s /\ sp' = p /\ nDef' = n
  /\ vm' = [vm EXCEPT ![v] = Idle]
  /\ stk' = Tail(stk)

(* The counters drop, and the last statement outside a transaction closes   *)
(* every read transaction.                                                  *)
Finish(v, s, p, n) ==
  LET last == p = <<>> /\ Running = {v} IN
  /\ st' = IF last THEN RollbackStores(s, 0) ELSE s
  /\ sp' = p
  /\ nDef' = IF last THEN 0 ELSE n
  /\ vm' = [vm EXCEPT ![v] = Idle]
  /\ stk' = Tail(stk)

(* Mutant: deferred foreign keys are not looked at.                         *)
HaltCommitUnchecked(v, r) ==
  /\ CanEnd(v, r) /\ Outermost(v, r)
  /\ EAction(v, r) = 0
  /\ Finish(v, CommitStores(st, 1), <<>>, 0)

HaltCommit(v, r) ==
  /\ CanEnd(v, r) /\ Outermost(v, r)
  /\ EAction(v, r) = 0 /\ nDef <= 0
  /\ Finish(v, CommitStores(st, 1), <<>>, 0)

HaltCommitFails(v, r, i) ==
  /\ CanEnd(v, r) /\ Outermost(v, r)
  /\ EAction(v, r) = 0 /\ nDef <= 0
  /\ CanFailAt(st, 1, i)
  /\ Finish(v, CommitFailsAt(st, 1, i), <<>>, 0)

HaltRollback(v, r) ==
  /\ CanEnd(v, r) /\ Outermost(v, r)
  /\ EAction(v, r) # 0 \/ nDef > 0
  /\ Finish(v, RollbackStores(st, 1), <<>>, 0)

(* Mutant: a statement transaction that is rolled back is not closed.       *)
StatementNotClosed(v, s, rollback) ==
  [d \in Dbs |->
     IF d \notin vm[v].mask THEN s[d]
     ELSE IF rollback THEN KVStoreRollback(Kind[d], s[d], s[d].lvl)
     ELSE KVStoreCommit(Kind[d], s[d], s[d].lvl - 1)]

(* Mutant: a failed statement is not rolled back.                           *)
StatementKept(v, s, rollback) ==
  [d \in Dbs |-> IF d \in vm[v].mask
                 THEN KVStoreCommit(Kind[d], s[d], s[d].lvl - 1) ELSE s[d]]

(* vdbeCloseStatement()                                                     *)
StatementClosed(v, s, rollback) ==
  [d \in Dbs |->
     LET b == IF rollback THEN KVStoreRollback(Kind[d], s[d], s[d].lvl)
              ELSE s[d]
     IN IF d \in vm[v].mask THEN KVStoreCommit(Kind[d], b, b.lvl - 1)
        ELSE s[d]]

HaltStatement(v, r) ==
  LET rollback == EAction(v, r) # 0 IN
  /\ CanEnd(v, r) /\ ~Outermost(v, r)
  /\ Finish(v, StatementClosed(v, st, rollback), sp,
            IF rollback /\ vm[v].mask # {} THEN vm[v].def ELSE nDef)

-----------------------------------------------------------------------------
Next ==
  \E v \in Vdbes :
    \/ \E kind \in {"read", "write", "txn"}, need \in BOOLEAN,
          ds \in SUBSET Dbs : Step(v, kind, need, ds)
    \/ Row(v)
    \/ Resume(v)
    \/ \E d \in Dbs :
         TransactionRead(v, d) \/ TransactionWrite(v, d) \/ TransactionFails(v, d)
    \/ \E d \in Dbs, c \in Content, fk \in BOOLEAN : Write(v, d, c, fk)
    \/ \E name \in Names \cup {NoName} :
         \/ SavepointBegin(v, name)
         \/ \E j \in 1..Len(sp) :
              \/ SavepointRelease(v, name, j)
              \/ \E i \in Dbs : SavepointReleaseFails(v, name, j, i)
              \/ SavepointRollback(v, name, j)
         \/ SavepointError(v, name)
    \/ \E r \in Results :
         \/ HaltCommit(v, r)
         \/ \E i \in Dbs : HaltCommitFails(v, r, i)
         \/ HaltRollback(v, r)
         \/ HaltStatement(v, r)

Spec == Init /\ [][Next]_vars

-----------------------------------------------------------------------------
(* Properties.  The engine behind a database has to keep its half of the    *)
(* contract, so most of them are about the databases whose engine is lsm.   *)

Lsm == {d \in Dbs : Kind[d] = "lsm"}

Statement == [run : BOOLEAN, kind : {"read", "write", "txn"}, need : BOOLEAN,
              todo : SUBSET Dbs, txn : SUBSET Dbs, mask : SUBSET Dbs,
              def : Int, fk : BOOLEAN, wrote : BOOLEAN,
              rc : {"none", "ok", "error"}, pre : [Dbs -> Content]]

Savepoint == [name : Names \cup {NoName}, def : Int, mark : [Dbs -> Content]]

(* Every variable keeps its type: in particular iTransLevel of every store  *)
(* stays between 0 and the bound, and every statement on the stack is one   *)
(* that is running.                                                         *)
TypeOK ==
  /\ st \in [Dbs -> Store]
  /\ sp \in Seq(Savepoint)
  /\ nDef \in Int
  /\ vm \in [Vdbes -> Statement]
  /\ stk \in Seq(Vdbes)
  /\ \A i \in 1..Len(stk) : vm[stk[i]].run

(* However savepoints, statements and failures are interleaved, every open  *)
(* savepoint can still be gone back to: the level OP_Savepoint computes for *)
(* it (its position plus one) selects, in every store, the content that     *)
(* store had when the savepoint was opened, although OP_Transaction opens   *)
(* the levels of a store late, several at a time, or not at all.            *)
SavepointsRestorable ==
  \A j \in 1..Len(sp), d \in Lsm : RollsBackTo(st[d], j + 1) = sp[j].mark[d]

(* ROLLBACK TO leaves every database as it was when that savepoint was      *)
(* opened, keeps that savepoint and closes the inner ones                   *)
(* (sqlite4VdbeRollback, freeSavepoints).                                   *)
RollbackToRestores ==
  [][\A v \in Vdbes, name \in Names, j \in 1..Len(sp) :
       SavepointRollback(v, name, j) =>
         /\ \A d \in Lsm : st'[d].cont = sp[j].mark[d]
         /\ sp' = SubSeq(sp, 1, j)]_vars

(* A statement that opened a statement transaction and then failed leaves   *)
(* every database it opened it on as it was when the statement started,     *)
(* whatever SQL it ran from inside its functions (vdbeCloseStatement with   *)
(* bRollback).                                                              *)
AbortUndoesStatement ==
  [][\A v \in Vdbes, r \in Results :
       /\ HaltStatement(v, r)
       /\ EAction(v, r) # 0
       => \A d \in Lsm \cap vm[v].mask : st'[d].cont = vm[v].pre[d]]_vars

(* The deferred foreign key violations of the contents read now.            *)
TotalViol ==
  LET sum[i \in 0..NDb] == IF i = 0 THEN 0 ELSE sum[i - 1] + Viol[st[i].cont]
  IN  sum[NDb]

(* db->nDeferredCons counts the violations that are really in the           *)
(* databases: savepoint rollback, statement rollback and transaction        *)
(* rollback put back the counter that goes with the content they restore.   *)
CounterMatchesContent == Lsm = Dbs => nDef = TotalViol

(* No deferred foreign key violation becomes visible to other connections:  *)
(* the tests of db->nDeferredCons in OP_Savepoint and sqlite4VdbeHalt let   *)
(* no transaction commit with one.                                          *)
CommittedContentSatisfiesFk == \A d \in Lsm : Viol[st[d].dur] = 0

(* While a transaction is open, nothing its statements do (statement        *)
(* transactions, inner savepoints, their release or rollback) is visible to *)
(* other connections.                                                       *)
InvisibleUntilReleased ==
  [][sp # <<>> /\ sp' # <<>> => \A d \in Lsm : st'[d].dur = st[d].dur]_vars

(* A running statement keeps the transactions its OP_Transaction opcodes    *)
(* opened for as long as it runs: at least 2 for a database it writes, at   *)
(* least 1 for one it reads.                                                *)
StatementHasTransaction ==
  \A v \in Running, d \in Lsm :
    d \in vm[v].txn => st[d].lvl >= IF vm[v].kind = "write" THEN 2 ELSE 1

(* The engines that keep levels.                                            *)
Leveled == {d \in Dbs : Kind[d] # "ldb"}

(* How deep a store may be: one level per savepoint above the read level    *)
(* (or a write transaction outside any), and one per statement transaction. *)
StatementTxns(d) == {v \in Vdbes : d \in vm[v].mask}
LevelBound(d) == WriteLevel + Cardinality(StatementTxns(d))

(* No transaction level is lost or leaked: no store is deeper than the      *)
(* savepoints and statement transactions that are open account for, one a   *)
(* running statement writes is exactly that deep, so the level that         *)
(* vdbeCloseStatement closes (whatever iTransLevel is then) is that         *)
(* statement's own, and between statements outside a transaction no write   *)
(* transaction is left.                                                     *)
LevelsAccounted ==
  \A d \in Leveled :
    /\ st[d].lvl <= LevelBound(d)
    /\ (\E v \in Writers : d \in vm[v].txn) => st[d].lvl = LevelBound(d)
    /\ sp = <<>> /\ Writers = {} => st[d].lvl <= 1

(* Once no statement runs and no savepoint is open, every store is closed   *)
(* and holds nothing that other connections do not see, and no deferred     *)
(* constraint is still counted (the last lines of sqlite4VdbeHalt).         *)
NothingLeftOpen ==
  Running = {} /\ sp = <<>> =>
    nDef = 0 /\ \A d \in Lsm : st[d].lvl = 0 /\ st[d].cont = st[d].dur

-----------------------------------------------------------------------------
(* What comments of the source promise and one engine does not keep. A run  *)
(* of its own finds it violated.                                            *)

(* ROLLBACK, for every engine: "back out all uncommited changes" (the       *)
(* comment of kvldbRollback and of its siblings).                           *)
AnyEngineRollsBack ==
  [][\A v \in Vdbes, j \in 1..Len(sp) :
       SavepointRollback(v, NoName, j) =>
         \A d \in Dbs : st'[d].cont = sp[1].mark[d]]_vars
=============================================================================

--------------------------- MODULE VdbeTxnProofs ----------------------------
(***************************************************************************)
(* The theorems on VdbeTxn, for every number of databases, statements,     *)
(* savepoints and levels: every open savepoint can be gone back to, a      *)
(* failing statement undoes its own changes and no more, nothing of an     *)
(* open transaction is visible to others, and nothing is left open.        *)
(*                                                                         *)
(* They assume NestedTxn = FALSE: no SQL run from inside a writing         *)
(* statement opens, releases or rolls back a transaction.                  *)
(***************************************************************************)
EXTENDS VdbeTxnSteps, VdbeTxnUndoLemmas, FiniteSetTheorems

(* The assumption of the lemmas on counting is true.                        *)
LEMMA CountingHolds == Counting
<1>1. \A S : IsFiniteSet(S) => \A T \in SUBSET S :
        /\ IsFiniteSet(T) /\ Cardinality(T) \in Nat
        /\ Cardinality(T) <= Cardinality(S)
        /\ Cardinality(S) = Cardinality(T) => S = T
  BY ZenonT(40), FS_Subset, FS_CardinalityType
<1>2. \A S, x : IsFiniteSet(S) =>
        /\ IsFiniteSet(S \cup {x})
        /\ Cardinality(S \cup {x}) =
             IF x \in S THEN Cardinality(S) ELSE Cardinality(S) + 1
  BY ZenonT(40), FS_AddElement
<1>3. \A S, x : IsFiniteSet(S) =>
        /\ IsFiniteSet(S \ {x})
        /\ Cardinality(S \ {x}) =
             IF x \in S THEN Cardinality(S) - 1 ELSE Cardinality(S)
  BY ZenonT(40), FS_RemoveElement
<1> QED
  BY ZenonT(40), <1>1, <1>2, <1>3, FS_EmptySet DEF Counting

-----------------------------------------------------------------------------
(* The savepoints.                                                          *)

(* The invariant holds in every reachable state.                            *)
THEOREM Invariance ==
  ASSUME NestedTxn = FALSE
  PROVE  Spec => []IInv
<1>1. Init => IInv
  BY ZenonT(40), CountingHolds, InitInv
<1>2. IInv /\ [Next]_vars => IInv'
  BY ZenonT(40), CountingHolds, NextInv
<1> QED
  BY <1>1, <1>2, PTL DEF Spec

(* Every variable keeps its type; in particular no iTransLevel goes below 0 *)
(* and every statement on the stack of sqlite4_step() calls is running.     *)
THEOREM TypeCorrect ==
  ASSUME NestedTxn = FALSE
  PROVE  Spec => []TypeOK
<1>1. IInv => TypeOK
  BY ZenonT(40) DEF IInv
<1> QED
  BY <1>1, Invariance, PTL

(* Every open savepoint can be gone back to: the level OP_Savepoint         *)
(* computes for it selects, in every lsm store, the content the store had   *)
(* when the savepoint was opened.                                           *)
THEOREM SavepointsAlwaysRestorable ==
  ASSUME NestedTxn = FALSE
  PROVE  Spec => []SavepointsRestorable
<1>1. IInv => SavepointsRestorable
  BY ZenonT(40) DEF IInv
<1> QED
  BY <1>1, Invariance, PTL

(* No transaction level is lost or leaked: the level vdbeCloseStatement()   *)
(* closes is always the statement's own.                                    *)
THEOREM LevelsAlwaysAccounted ==
  ASSUME NestedTxn = FALSE
  PROVE  Spec => []LevelsAccounted
<1>1. IInv => LevelsAccounted
  BY ZenonT(40) DEF IInv
<1> QED
  BY <1>1, Invariance, PTL

(* ROLLBACK TO leaves every lsm database as it was when the savepoint was   *)
(* opened, and keeps that savepoint open.                                   *)
THEOREM RollbackToAlwaysRestores ==
  ASSUME NestedTxn = FALSE
  PROVE  Spec => RollbackToRestores
<1>1. IInv /\ [Next]_vars =>
        [\A v \in Vdbes, name \in Names, j \in 1..Len(sp) :
           SavepointRollback(v, name, j) =>
             /\ \A d \in Lsm : st'[d].cont = sp[j].mark[d]
             /\ sp' = SubSeq(sp, 1, j)]_vars
  BY ZenonT(40), RollbackToInv
<1> QED
  BY <1>1, Invariance, PTL DEF Spec, RollbackToRestores

-----------------------------------------------------------------------------
(* What is undone, what others see and what is left open.                   *)

(* The strengthened invariant holds in every reachable state.               *)
THEOREM UndoInvariance ==
  ASSUME NestedTxn = FALSE
  PROVE  Spec => []UndoInv
<1>1. Init => UndoInv
  BY ZenonT(40), CountingHolds, InitInv, InitUndoInv
<1>2. UndoInv /\ IInv' /\ [Next]_vars => UndoInv'
  BY ZenonT(40), CountingHolds, NextKept
<1> QED
  BY <1>1, <1>2, Invariance, PTL DEF Spec

(* A running statement keeps the transactions its OP_Transaction opcodes    *)
(* opened, for as long as it runs, whatever the statements it shares the    *)
(* connection with do: their ends close no transaction it still needs.      *)
THEOREM StatementAlwaysHasTransaction ==
  ASSUME NestedTxn = FALSE
  PROVE  Spec => []StatementHasTransaction
<1>1. UndoInv => StatementHasTransaction
  BY ZenonT(40), CountingHolds, UndoHasTransaction
<1> QED
  BY <1>1, UndoInvariance, PTL

(* Between statements, outside a transaction, every store is closed, holds  *)
(* nothing that others do not see, and no deferred constraint is counted:   *)
(* the last lines of sqlite4VdbeHalt() clean up after every way to end.     *)
THEOREM NothingEverLeftOpen ==
  ASSUME NestedTxn = FALSE
  PROVE  Spec => []NothingLeftOpen
<1>1. UndoInv => NothingLeftOpen
  BY ZenonT(40), UndoLeavesNothing
<1> QED
  BY <1>1, UndoInvariance, PTL

(* A statement that opened a statement transaction and then failed leaves   *)
(* every lsm database it opened it on as it found it, whatever SQL ran from *)
(* inside its functions (vdbeCloseStatement with bRollback).                *)
THEOREM AbortAlwaysUndoes ==
  ASSUME NestedTxn = FALSE
  PROVE  Spec => AbortUndoesStatement
<1>1. UndoInv /\ [Next]_vars =>
        [\A v \in Vdbes, r \in Results :
           /\ HaltStatement(v, r)
           /\ EAction(v, r) # 0
           => \A d \in Lsm \cap vm[v].mask : st'[d].cont = vm[v].pre[d]]_vars
  BY ZenonT(40), CountingHolds, HaltStatementRestorable DEF UndoInv
<1> QED
  BY <1>1, UndoInvariance, PTL DEF Spec, AbortUndoesStatement

(* While a transaction is open, nothing its statements do (statement        *)
(* transactions, inner savepoints, their release or rollback) is visible to *)
(* other connections.                                                       *)
THEOREM AlwaysInvisibleUntilReleased ==
  ASSUME NestedTxn = FALSE
  PROVE  Spec => InvisibleUntilReleased
<1>1. UndoInv /\ IInv' /\ [Next]_vars =>
        [sp # <<>> /\ sp' # <<>> => \A d \in Lsm : st'[d].dur = st[d].dur]_vars
  BY ZenonT(40), CountingHolds, NextKept DEF StoresKept
<1> QED
  BY <1>1, Invariance, UndoInvariance, PTL DEF Spec, InvisibleUntilReleased

(* With one database on lsm, db->nDeferredCons counts the violations that   *)
(* are really in it: savepoint, statement and transaction rollback put back *)
(* the counter that goes with the content they restore.                     *)
THEOREM CounterAlwaysMatches ==
  ASSUME NestedTxn = FALSE, NDb = 1
  PROVE  Spec => []CounterMatchesContent
<1>1. UndoInv => CounterMatchesContent
  BY ZenonT(40), UndoCounts
<1> QED
  BY <1>1, UndoInvariance, PTL

(* With one database, no deferred foreign key violation ever becomes        *)
(* visible to other connections: the tests of db->nDeferredCons in          *)
(* OP_Savepoint and sqlite4VdbeHalt() let no transaction commit with one.   *)
THEOREM CommittedAlwaysSatisfiesFk ==
  ASSUME NestedTxn = FALSE, NDb = 1
  PROVE  Spec => []CommittedContentSatisfiesFk
<1>1. UndoInv => CommittedContentSatisfiesFk
  BY ZenonT(40), UndoCounts
<1> QED
  BY <1>1, UndoInvariance, PTL
=============================================================================

---------------------------- MODULE StoreLevels ----------------------------
(***************************************************************************)
(* What an engine that counts transaction levels the way bt.h and lsm.h    *)
(* describe promises to the layer above it: a state machine over one store *)
(* of module StoreTxn.  The content is abstract; what matters is what is   *)
(* restored, and what is durable, after Begin(), Commit() and Rollback()   *)
(* to any levels.                                                          *)
(***************************************************************************)
EXTENDS StoreTxn

VARIABLE st

Init == st = NewStore(st.cont)

(* Begin(): if L >= iLevel this is a no-op.                                 *)
Begin == \E l \in 1..MaxLevel : st.lvl < l /\ st' = LsmBegin(st, l)

Commit == \E l \in 0..MaxLevel : l < st.lvl /\ st' = LsmCommit(st, l)

Rollback == \E l \in 0..MaxLevel : l <= st.lvl /\ st' = LsmRollback(st, l)

(* A write in a write transaction leaves some other content.                *)
Write == st.lvl >= 2 /\ st' = [st EXCEPT !.cont = st'.cont]

Next == Begin \/ Commit \/ Rollback \/ Write

Spec == Init /\ [][Next]_st
=============================================================================

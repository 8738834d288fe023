------------------------------ MODULE KVStore ------------------------------
(***************************************************************************)
(* What kv.h promises of a storage engine, as one connection sees it: a    *)
(* map from keys to values under nested transaction levels, and cursors    *)
(* over it.  The engines' modules are shown to implement this one.         *)
(*                                                                         *)
(* The levels are those of StoreTxn with the rollback kv.h describes (back *)
(* to the most recent xBegin to level N+1), which is kvmemRollback's.      *)
(***************************************************************************)
EXTENDS Integers, FiniteSets

CONSTANTS Keys,      \* a finite set of positive integers, in memcmp() order
          Vals,      \* what an entry holds
          NoVal,     \* there is no entry
          NoSnap,    \* see StoreTxn
          MaxLevel,  \* bound on transaction levels
          Cursors

Eof == 0

Contents == [Keys -> Vals \cup {NoVal}]
Empty == [k \in Keys |-> NoVal]

T == INSTANCE StoreTxn WITH Content <- Contents

VARIABLES st,   \* the store, a record of StoreTxn
          cur   \* the cursors

(* open  the cursor exists                                                  *)
(* key   the entry it points to, or Eof                                     *)
(* val   the value it got there with, which xData returns until it moves    *)
(* way   the direction of the last xSeek: only then may xNext (1) or        *)
(*       xPrev (-1) be called                                               *)
(* kept  the entry has been there ever since                                *)
Closed == [open |-> FALSE, key |-> Eof, val |-> NoVal, way |-> 0, kept |-> TRUE]

Live == {k \in Keys : st.cont[k] # NoVal}

Least(S) == IF S = {} THEN Eof ELSE CHOOSE k \in S : \A j \in S : k <= j
Greatest(S) == IF S = {} THEN Eof ELSE CHOOSE k \in S : \A j \in S : j <= k

Init ==
  /\ st = T!NewStore(Empty)
  /\ cur = [c \in Cursors |-> Closed]

At(c, k, way) ==
  cur' = [cur EXCEPT ![c] =
            [open |-> TRUE, key |-> k,
             val |-> IF k = Eof THEN NoVal ELSE st.cont[k],
             way |-> IF k = Eof THEN 0 ELSE way, kept |-> TRUE]]

(* Every step that changes the content tells the cursors.                   *)
Stores(s) ==
  /\ st' = s
  /\ cur' = [c \in Cursors |->
       [cur[c] EXCEPT !.kept = @ /\ (cur[c].key # Eof =>
                                       s.cont[cur[c].key] # NoVal)]]

Begin(l) ==
  /\ l \in 1..MaxLevel
  /\ l = st.lvl + 1 \/ (st.lvl = 0 /\ l = 2)
  /\ Stores(T!MemBegin(st, l))

Commit(l) == l \in 0..(st.lvl - 1) /\ Stores(T!MemCommit(st, l))

Rollback(l) == l \in 0..st.lvl /\ Stores(T!MemRollback(st, l))

(* xRevert(N): xRollback(N-1) followed by xBegin(N).                        *)
Revert(l) ==
  /\ l \in 1..st.lvl
  /\ Stores(T!MemBegin(T!MemRollback(st, l - 1), l))

Replace(k, v) ==
  /\ st.lvl >= 2
  /\ Stores([st EXCEPT !.cont[k] = v])

(* An entry that went away since the cursor came need not be deleted again, *)
(* even if there is a new one with its key.                                 *)
Delete(c) ==
  /\ st.lvl >= 2 /\ cur[c].open
  /\ \/ cur[c].key # Eof /\ Stores([st EXCEPT !.cont[cur[c].key] = NoVal])
     \/ (cur[c].key # Eof => ~cur[c].kept) /\ UNCHANGED <<st, cur>>

(* The store goes away, and with it what it held: it is a temporary one.    *)
Close ==
  /\ \A c \in Cursors : ~cur[c].open
  /\ st' = T!NewStore(Empty) /\ UNCHANGED cur

OpenCursor(c) ==
  ~cur[c].open /\ cur' = [cur EXCEPT ![c].open = TRUE] /\ UNCHANGED st

CloseCursor(c) ==
  cur[c].open /\ cur' = [cur EXCEPT ![c] = Closed] /\ UNCHANGED st

Reset(c) == cur[c].open /\ At(c, Eof, 0) /\ UNCHANGED st

Seek(c, k, dir) ==
  /\ st.lvl >= 1 /\ cur[c].open
  /\ At(c, CASE dir = 0 -> IF k \in Live THEN k ELSE Eof
             [] dir > 0 -> Least({j \in Live : j >= k})
             [] dir < 0 -> Greatest({j \in Live : j <= k}), dir)
  /\ UNCHANGED st

NextEntry(c) ==
  /\ st.lvl >= 1 /\ cur[c].open /\ cur[c].way = 1 /\ cur[c].key # Eof
  /\ At(c, Least({j \in Live : j > cur[c].key}), 1)
  /\ UNCHANGED st

PrevEntry(c) ==
  /\ st.lvl >= 1 /\ cur[c].open /\ cur[c].way = -1 /\ cur[c].key # Eof
  /\ At(c, Greatest({j \in Live : j < cur[c].key}), -1)
  /\ UNCHANGED st

Next ==
  \/ Close
  \/ \E l \in 0..MaxLevel : Begin(l) \/ Commit(l) \/ Rollback(l) \/ Revert(l)
  \/ \E k \in Keys, v \in Vals : Replace(k, v)
  \/ \E c \in Cursors :
       \/ OpenCursor(c) \/ CloseCursor(c) \/ Reset(c) \/ Delete(c)
       \/ \E k \in Keys, dir \in {-1, 0, 1} : Seek(c, k, dir)
       \/ NextEntry(c) \/ PrevEntry(c)

Spec == Init /\ [][Next]_<<st, cur>>
=============================================================================

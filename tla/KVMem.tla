-------------------------------- MODULE KVMem --------------------------------
(***************************************************************************)
(* The in-memory storage engine, kvmem.c: reference-counted nodes and      *)
(* payloads, one change log per transaction level, and cursors that hold   *)
(* references of their own.  The balanced tree is a function from keys to  *)
(* nodes here; module KVMemTree is about its pointers.                     *)
(*                                                                         *)
(* The state is what is behind the pointers, so a use of freed memory can  *)
(* be said: the operators set "fault" where the code would follow a        *)
(* pointer to a freed object ("dangling") or use a node that is no longer  *)
(* an element of the tree as if it were ("stale").  What the process does  *)
(* after that is undefined, and the behaviour ends there.                  *)
(*                                                                         *)
(* Memory is finite: Nodes, Datas and MaxChng bound what sqlite4_malloc()  *)
(* gives out, and an operation that finds none left returns SQLITE4_NOMEM. *)
(***************************************************************************)
EXTENDS Integers, FiniteSets, SequencesExt

CONSTANTS Keys, Vals, NoVal, NoSnap, MaxLevel, Cursors,   \* as in KVStore
          Nodes, Datas,    \* addresses, sets of positive integers
          MaxChng,         \* KVMemChng objects there can be
          Modes            \* whether the client opens stores with transactions
                           \* (TRUE) or SQLITE4_KVOPEN_NO_TRANSACTIONS (FALSE)

Nil == 0

ASSUME KVMemAssumption ==
  /\ Keys \subseteq Nat \ {0} /\ Nodes \subseteq Nat \ {0}
  /\ Datas \subseteq Nat \ {0} /\ Modes \subseteq BOOLEAN

VARIABLES m,     \* the KVMem object and the heap
          cur    \* the KVMemCursor objects

vars == <<m, cur>>

Levels == 2..MaxLevel

(* A freed object is as good as one never allocated.                        *)
FreeNode == [key |-> Nil, data |-> Nil, mx |-> 0, nref |-> 0]
FreeData == [val |-> NoVal, nref |-> 0]

(* open   between sqlite4KVStoreOpenMem() and kvmemClose()                  *)
(* txn    openFlags has no SQLITE4_KVOPEN_NO_TRANSACTIONS                   *)
(* lvl    iTransLevel                                                       *)
(* tree   the node with each key, deleted or not                            *)
(* node   KVMemNode: key, pData, mxTrans, nRef                              *)
(* dat    KVMemData: content, nRef                                          *)
(* log    apLog[]: for each level its KVMemChng list, newest first          *)
(* fault  see above                                                         *)
KVMemObject ==
  [open : BOOLEAN,
   txn  : BOOLEAN,
   lvl  : 0..MaxLevel,
   tree : [Keys -> Nodes \cup {Nil}],
   node : [Nodes -> [key : Keys \cup {Nil}, data : Datas \cup {Nil},
                     mx : 0..MaxLevel, nref : Nat]],
   dat  : [Datas -> [val : Vals \cup {NoVal}, nref : Nat]],
   log  : [Levels -> Seq([node : Nodes, data : Datas \cup {Nil},
                          old : 0..MaxLevel])],
   fault : {"none", "dangling", "stale"}]

(* Three fields are not in the object.  way is what the last successful     *)
(* xSeek entitles the client to call next ("up" xNext, "down" xPrev), at    *)
(* the key it or the last step arrived at, and kept is whether that entry   *)
(* has existed ever since.                                                  *)
KVMemCursor ==
  [open : BOOLEAN, node : Nodes \cup {Nil}, data : Datas \cup {Nil},
   way : {"none", "eq", "up", "down"}, at : Keys \cup {Nil}, kept : BOOLEAN]

Closed ==
  [open |-> FALSE, node |-> Nil, data |-> Nil, way |-> "none", at |-> Nil,
   kept |-> TRUE]

Init ==
  /\ m = [open |-> FALSE, txn |-> TRUE, lvl |-> 0, tree |-> [k \in Keys |-> Nil],
          node |-> [n \in Nodes |-> FreeNode],
          dat |-> [d \in Datas |-> FreeData],
          log |-> [l \in Levels |-> <<>>], fault |-> "none"]
  /\ cur = [c \in Cursors |-> Closed]

Fault(h, what) == IF h.fault = "none" THEN [h EXCEPT !.fault = what] ELSE h

-----------------------------------------------------------------------------
(* Utility routines.                                                        *)

FreshNodes(h) == {n \in Nodes : h.node[n].nref = 0}
FreshDatas(h) == {d \in Datas : h.dat[d].nref = 0}
FirstOf(S) == CHOOSE x \in S : \A y \in S : x <= y

Chngs(h) ==
  Cardinality({<<l, i>> \in Levels \X (1..MaxChng) : i \in DOMAIN h.log[l]})

DataNew(h, d, v) == [h EXCEPT !.dat[d] = [val |-> v, nref |-> 1]]

DataRef(h, d) == IF d = Nil THEN h ELSE [h EXCEPT !.dat[d].nref = @ + 1]

DataUnref(h, d) ==
  CASE d = Nil -> h
    [] d # Nil /\ h.dat[d].nref = 0 -> Fault(h, "dangling")
    [] d # Nil /\ h.dat[d].nref = 1 -> [h EXCEPT !.dat[d] = FreeData]
    [] d # Nil /\ h.dat[d].nref > 1 -> [h EXCEPT !.dat[d].nref = @ - 1]

NodeRef(h, n) == IF n = Nil THEN h ELSE [h EXCEPT !.node[n].nref = @ + 1]

NodeUnref(h, n) ==
  CASE n = Nil -> h
    [] n # Nil /\ h.node[n].nref = 0 -> Fault(h, "dangling")
    [] n # Nil /\ h.node[n].nref = 1 ->
         [DataUnref(h, h.node[n].data) EXCEPT !.node[n] = FreeNode]
    [] n # Nil /\ h.node[n].nref > 1 -> [h EXCEPT !.node[n].nref = @ - 1]

(* What using a node as an element of the tree comes to.                    *)
Touch(h, n) ==
  CASE h.node[n].nref = 0 -> Fault(h, "dangling")
    [] h.node[n].nref > 0 /\ h.tree[h.node[n].key] # n -> Fault(h, "stale")
    [] OTHER -> h

(* Mutant: the node itself is among those after it.                         *)
FollowingOrSame(h, n) ==
  {k \in Keys : k >= h.node[n].key /\ h.tree[k] # Nil}

Following(h, n) ==
  {k \in Keys : k > h.node[n].key /\ h.tree[k] # Nil}
Preceding(h, n) ==
  {k \in Keys : k < h.node[n].key /\ h.tree[k] # Nil}

HasData(h, k) == h.tree[k] # Nil /\ h.node[h.tree[k]].data # Nil

Lowest(S) == IF S = {} THEN Nil ELSE FirstOf(S)
Highest(S) == IF S = {} THEN Nil ELSE CHOOSE x \in S : \A y \in S : y <= x

NodeAt(h, k) == IF k = Nil THEN Nil ELSE h.tree[k]

NewChng(h, n) ==
  [h EXCEPT
     !.log[h.lvl] = <<[node |-> n, data |-> h.node[n].data,
                       old |-> h.node[n].mx]>> \o @,
     !.node[n].mx = h.lvl,
     !.node[n].data = Nil]

(* The node is linked into the tree by the caller; nothing can happen       *)
(* between the two.                                                         *)
NewNode(h, n, k) ==
  LET g == [h EXCEPT !.node[n] = [key |-> k, data |-> Nil, mx |-> 0, nref |-> 1],
                     !.tree[k] = n]
  IN  IF h.txn THEN NewChng(g, n) ELSE g

RemoveNode(h, n) ==
  LET t == Touch(h, n)
      g == [DataUnref(h, h.node[n].data) EXCEPT !.node[n].data = Nil,
                                               !.tree[h.node[n].key] = Nil]
  IN  IF t.fault # "none" THEN t ELSE NodeUnref(g, n)

-----------------------------------------------------------------------------
(* Transactions.                                                            *)

(* Mutant: the old payload is not released.                                 *)
CommitChngLeak(h, c) ==
  LET n == c.node
  IN  CASE h.node[n].nref = 0 -> Fault(h, "dangling")
        [] h.node[n].nref > 0 /\ h.node[n].data # Nil ->
             [h EXCEPT !.node[n].mx = c.old]
        [] h.node[n].nref > 0 /\ h.node[n].data = Nil -> RemoveNode(h, n)

(* One record of a log, when the write transaction as a whole is committed. *)
CommitChng(h, c) ==
  LET n == c.node
      g == CASE h.node[n].nref = 0 -> Fault(h, "dangling")
             [] h.node[n].nref > 0 /\ h.node[n].data # Nil ->
                  [h EXCEPT !.node[n].mx = c.old]
             [] h.node[n].nref > 0 /\ h.node[n].data = Nil -> RemoveNode(h, n)
  IN  DataUnref(g, c.data)

(* Mutant: a record without data is always that of an insertion.            *)
RollbackChngNoOld(h, c) ==
  LET n == c.node
  IN  CASE h.node[n].nref = 0 -> Fault(h, "dangling")
        [] h.node[n].nref > 0 /\ c.data # Nil ->
             [DataUnref(h, h.node[n].data) EXCEPT !.node[n].data = c.data,
                                                  !.node[n].mx = c.old]
        [] OTHER -> RemoveNode(h, n)

RollbackChng(h, c) ==
  LET n == c.node
  IN  CASE h.node[n].nref = 0 -> Fault(h, "dangling")
        [] h.node[n].nref > 0 /\ (c.data # Nil \/ c.old > 0) ->
             [DataUnref(h, h.node[n].data) EXCEPT !.node[n].data = c.data,
                                                  !.node[n].mx = c.old]
        [] OTHER -> RemoveNode(h, n)

PopLevel(h) == [h EXCEPT !.log[h.lvl] = <<>>, !.lvl = @ - 1]

(* Mutant: the log of the nested level goes behind the log below.           *)
MergeLogBehind(h) ==
  LET moved == {h.log[h.lvl][i].node : i \in DOMAIN h.log[h.lvl]}
  IN  [h EXCEPT
         !.node = [n \in Nodes |-> IF n \in moved
                                   THEN [h.node[n] EXCEPT !.mx = h.lvl - 1]
                                   ELSE h.node[n]],
         !.log[h.lvl - 1] = @ \o h.log[h.lvl]]

(* The log of a nested level goes in front of the log below.                *)
MergeLog(h) ==
  LET moved == {h.log[h.lvl][i].node : i \in DOMAIN h.log[h.lvl]}
  IN  [h EXCEPT
         !.node = [n \in Nodes |-> IF n \in moved
                                   THEN [h.node[n] EXCEPT !.mx = h.lvl - 1]
                                   ELSE h.node[n]],
         !.log[h.lvl - 1] = h.log[h.lvl] \o @]

CommitLevel(h, iLevel) ==
  PopLevel(IF iLevel < 2 THEN FoldLeft(CommitChng, h, h.log[h.lvl])
           ELSE MergeLog(h))

RollbackLevel(h) == PopLevel(FoldLeft(RollbackChng, h, h.log[h.lvl]))

(* while( iTransLevel>iLevel && iTransLevel>1 )                             *)
Passes(h, iLevel) ==
  [i \in 1..Cardinality({l \in Levels : iLevel < l /\ l <= h.lvl}) |-> i]

CommitPhaseTwo(h, iLevel) ==
  IF ~h.txn THEN h
  ELSE [FoldLeft(LAMBDA g, i : CommitLevel(g, iLevel), h, Passes(h, iLevel))
          EXCEPT !.lvl = iLevel]

RollbackTo(h, iLevel) ==
  IF ~h.txn THEN h
  ELSE [FoldLeft(LAMBDA g, i : RollbackLevel(g), h, Passes(h, iLevel))
          EXCEPT !.lvl = iLevel]

BeginAt(h, iLevel) ==
  [h EXCEPT !.lvl = iLevel,
            !.log = [l \in Levels |-> IF l = iLevel THEN <<>> ELSE h.log[l]]]

Keeps(h, q) == q.kept /\ (q.at # Nil => HasData(h, q.at))

(* The step of an operation with outcome h and cursors q.                   *)
Become(h, q) ==
  IF h.fault = "none"
  THEN m' = h /\ cur' = [c \in Cursors |-> [q[c] EXCEPT !.kept = Keeps(h, q[c])]]
  ELSE m' = [m EXCEPT !.fault = h.fault] /\ UNCHANGED cur

Running == m.open /\ m.fault = "none"

(* sqlite4KVStoreOpenMem()                                                  *)
Open(t) ==
  /\ ~m.open /\ m.fault = "none"
  /\ Become([m EXCEPT !.open = TRUE, !.txn = t], cur)

(* A store without transactions is begun once, at level 2, by               *)
(* OP_OpenEphemeral, and stays there.                                       *)
Begin(iLevel) ==
  /\ Running
  /\ \/ iLevel = m.lvl + 1 /\ m.txn
     \/ m.lvl = 0 /\ iLevel = 2
  /\ Become(BeginAt(m, iLevel), cur)

Commit(iLevel) ==
  /\ Running /\ m.txn /\ iLevel < m.lvl
  /\ Become(CommitPhaseTwo(m, iLevel), cur)

Rollback(iLevel) ==
  /\ Running /\ m.txn /\ iLevel <= m.lvl
  /\ Become(RollbackTo(m, iLevel), cur)

Revert(iLevel) ==
  /\ Running /\ m.txn /\ iLevel \in 1..m.lvl
  /\ Become(BeginAt(RollbackTo(m, iLevel - 1), iLevel), cur)

(* The realloc() of kvmemBegin() fails: the rollback has been done.         *)
RevertFails(iLevel) ==
  /\ Running /\ m.txn /\ iLevel \in 2..m.lvl
  /\ Become(RollbackTo(m, iLevel - 1), cur)

(* kvmemClose(): the client has closed its cursors.                         *)
Close ==
  /\ Running /\ \A c \in Cursors : ~cur[c].open
  /\ LET h == CommitPhaseTwo(m, 0)
         used == {h.tree[k] : k \in Keys} \ {Nil}
         g == FoldLeft(NodeUnref, h, SetToSeq(used))
     IN  Become([g EXCEPT !.open = FALSE, !.lvl = 0,
                          !.tree = [k \in Keys |-> Nil]], cur)

-----------------------------------------------------------------------------
(* Entries.                                                                 *)

(* With no memory left kvmemReplace() and kvmemDelete() return              *)
(* SQLITE4_NOMEM and have changed nothing: no step.                         *)

NeedsChng(h, n) == h.txn /\ h.node[n].mx # h.lvl

Replace(k, v) ==
  /\ Running /\ m.lvl >= 2
  /\ FreshDatas(m) # {}
  /\ LET d == FirstOf(FreshDatas(m))
         h == DataNew(m, d, v)
         n == m.tree[k]
     IN  \/ /\ n = Nil /\ FreshNodes(m) # {}
            /\ m.txn => Chngs(m) < MaxChng
            /\ LET new == FirstOf(FreshNodes(m))
               IN  Become([NewNode(h, new, k) EXCEPT !.node[new].data = d], cur)
         \/ /\ n # Nil /\ (NeedsChng(m, n) => Chngs(m) < MaxChng)
            /\ LET g == IF NeedsChng(m, n) THEN NewChng(h, n)
                        ELSE DataUnref(h, m.node[n].data)
               IN  Become([g EXCEPT !.node[n].data = d], cur)

-----------------------------------------------------------------------------
(* Cursors.                                                                 *)

OpenCursor(c) ==
  /\ Running /\ ~cur[c].open
  /\ Become(m, [cur EXCEPT ![c].open = TRUE])

ResetRefs(h, c) == NodeUnref(DataUnref(h, cur[c].data), cur[c].node)

Reset(c) ==
  /\ Running /\ cur[c].open
  /\ Become(ResetRefs(m, c), [cur EXCEPT ![c] = [Closed EXCEPT !.open = TRUE]])

CloseCursor(c) ==
  /\ Running /\ cur[c].open
  /\ Become(ResetRefs(m, c), [cur EXCEPT ![c] = Closed])

(* The cursor takes its references to a node with data, or to nothing.      *)
Land(h, c, n, way) ==
  LET d == IF n = Nil THEN Nil ELSE h.node[n].data
  IN  Become(DataRef(NodeRef(h, n), d),
             [cur EXCEPT ![c] = [open |-> TRUE, node |-> n, data |-> d,
                                 way |-> IF d = Nil THEN "none" ELSE way,
                                 at |-> IF d = Nil THEN Nil ELSE h.node[n].key,
                                 kept |-> TRUE]])

(* kvmemReset() may free the node that kvmemNext() then starts from.        *)
StepFrom(c) ==
  LET h == ResetRefs(m, c)
  IN  IF cur[c].node = Nil THEN h ELSE Touch(h, cur[c].node)

NextEntry(c) ==
  /\ Running /\ m.lvl >= 1 /\ cur[c].open /\ cur[c].way = "up"
  /\ LET h == StepFrom(c)
         after == IF cur[c].node = Nil THEN {} ELSE Following(m, cur[c].node)
         n == NodeAt(h, Lowest({k \in after : HasData(h, k)}))
     IN  Land(h, c, n, "up")

PrevEntry(c) ==
  /\ Running /\ m.lvl >= 1 /\ cur[c].open /\ cur[c].way = "down"
  /\ LET h == StepFrom(c)
         before == IF cur[c].node = Nil THEN {} ELSE Preceding(m, cur[c].node)
         n == NodeAt(h, Highest({k \in before : HasData(h, k)}))
     IN  Land(h, c, n, "down")

(* The search ends at the nearest node, deleted or not; from a deleted one  *)
(* kvmemNextEntry() or kvmemPrevEntry() goes on, but with dir = 0 the       *)
(* cursor stays there.                                                      *)
Seek(c, k, dir) ==
  /\ Running /\ m.lvl >= 1 /\ cur[c].open
  /\ LET h == ResetRefs(m, c)
     IN  CASE dir = 0 -> Land(h, c, h.tree[k], "eq")
           [] dir > 0 ->
                Land(h, c, NodeAt(h, Lowest({j \in Keys : j >= k /\ HasData(h, j)})),
                     "up")
           [] dir < 0 ->
                Land(h, c, NodeAt(h, Highest({j \in Keys : j <= k /\ HasData(h, j)})),
                     "down")

(* The client deletes where an xSeek or a step has succeeded, or through a  *)
(* cursor that points nowhere.                                              *)
Delete(c) ==
  LET n == cur[c].node
  IN  /\ Running /\ m.lvl >= 2 /\ cur[c].open
      /\ n # Nil => cur[c].way # "none"
      /\ \/ n = Nil /\ Become(m, cur)
         \/ /\ n # Nil /\ ~m.txn
            /\ Become(RemoveNode(NodeUnref(m, n), n), [cur EXCEPT ![c].node = Nil])
         \/ n # Nil /\ m.txn /\ m.node[n].data = Nil /\ Become(m, cur)
         \/ /\ n # Nil /\ m.txn /\ m.node[n].data # Nil
            /\ m.node[n].mx < m.lvl /\ Chngs(m) < MaxChng
            /\ Become(NewChng(m, n), cur)
         \/ /\ n # Nil /\ m.txn /\ m.node[n].data # Nil
            /\ m.node[n].mx >= m.lvl
            /\ Become([DataUnref(m, m.node[n].data) EXCEPT !.node[n].data = Nil],
                      cur)

Next ==
  \/ Close \/ \E t \in Modes : Open(t)
  \/ \E l \in 0..MaxLevel :
       Begin(l) \/ Commit(l) \/ Rollback(l) \/ Revert(l) \/ RevertFails(l)
  \/ \E k \in Keys, v \in Vals : Replace(k, v)
  \/ \E c \in Cursors :
       \/ OpenCursor(c) \/ CloseCursor(c) \/ Reset(c) \/ Delete(c)
       \/ \E k \in Keys, dir \in {-1, 0, 1} : Seek(c, k, dir)
       \/ NextEntry(c) \/ PrevEntry(c)

Spec == Init /\ [][Next]_vars
-----------------------------------------------------------------------------
(* Properties.                                                              *)

NodeHolders(n) ==
  Cardinality({k \in Keys : m.tree[k] = n})
    + Cardinality({c \in Cursors : cur[c].node = n})

DataHolders(d) ==
  Cardinality({n \in Nodes : m.node[n].data = d})
    + Cardinality({c \in Cursors : cur[c].data = d})
    + Cardinality({<<l, i>> \in Levels \X (1..MaxChng) :
                     i \in DOMAIN m.log[l] /\ m.log[l][i].data = d})

(* Every nRef is the number of pointers that count: a node's from the tree  *)
(* and the cursors, a payload's from nodes, cursors and change records.     *)
(* Neither is freed early, nor ever leaked, whichever mixture of nested     *)
(* commits, rollbacks and cursor moves kvmem.c has been through.  Outside a *)
(* write transaction no deleted node is left in the tree, so the phantoms   *)
(* kvmemDelete() makes do not pile up, and kvmemClose() gives back every    *)
(* node, payload and change record.                                         *)
RefCounts ==
  /\ \A n \in Nodes : m.node[n].nref = NodeHolders(n)
  /\ \A d \in Datas : m.dat[d].nref = DataHolders(d)
  /\ m.lvl < 2 => \A k \in Keys : m.tree[k] # Nil => HasData(m, k)
  /\ ~m.open => /\ \A n \in Nodes : m.node[n] = FreeNode
                /\ \A d \in Datas : m.dat[d] = FreeData
                /\ \A l \in Levels : m.log[l] = <<>>

LoggedAt(n, l) == \E i \in DOMAIN m.log[l] : m.log[l][i].node = n

(* KVMemNode.mxTrans says what its comment does, "Maximum transaction for   *)
(* which this row is logged", for every node of the tree: kvmemReplace()    *)
(* and kvmemDelete() decide by it whether a change must be logged.          *)
MxTransIsLastLogged ==
  \A k \in Keys : m.tree[k] # Nil =>
    LET n == m.tree[k]
    IN  /\ m.node[n].mx # 0 => LoggedAt(n, m.node[n].mx)
        /\ \A l \in Levels : LoggedAt(n, l) => l <= m.node[n].mx

(* What the store remembers of itself is true after every mixture of nested *)
(* commit, rollback and revert: its reference counts and its mxTrans.       *)
Bookkeeping == RefCounts /\ MxTransIsLastLogged

ValOf(d) == IF d = Nil THEN NoVal ELSE m.dat[d].val

Visible ==
  [k \in Keys |-> IF m.tree[k] = Nil THEN NoVal
                  ELSE ValOf(m.node[m.tree[k]].data)]

(* The change records of key k at the levels from l up, as places in log.   *)
Records(k, l) ==
  {p \in (l..m.lvl) \X (1..MaxChng) :
     p[2] \in DOMAIN m.log[p[1]] /\ m.node[m.log[p[1]][p[2]].node].key = k}

(* What undoing the logs of the levels from l up leaves: for each key, what *)
(* its first record, the deepest and last in the lists, has saved.          *)
Undone(l) ==
  [k \in Keys |->
     IF Records(k, l) = {} THEN Visible[k]
     ELSE LET p == CHOOSE p \in Records(k, l) : \A q \in Records(k, l) :
                      p[1] < q[1] \/ (p[1] = q[1] /\ p[2] >= q[2])
          IN  ValOf(m.log[p[1]][p[2]].data)]

AbsStore ==
  [lvl  |-> m.lvl,
   cont |-> Visible,
   snap |-> [l \in Levels |-> IF l <= m.lvl THEN Undone(l) ELSE NoSnap],
   dur  |-> IF m.lvl >= 2 THEN Undone(2) ELSE Visible]

AbsCursor ==
  [c \in Cursors |->
     [open |-> cur[c].open,
      key  |-> cur[c].at,
      val  |-> ValOf(cur[c].data),
      way  |-> CASE cur[c].way = "up" -> 1
                 [] cur[c].way = "down" -> -1
                 [] OTHER -> 0,
      kept |-> cur[c].kept]]

Contract == INSTANCE KVStore WITH st <- AbsStore, cur <- AbsCursor

(* As long as it commits no fault, a store opened with transactions does    *)
(* what kv.h says: undoing the logs gives what each level began with, and a *)
(* cursor keeps its place and its value through nested commits, rollbacks   *)
(* and deletes.                                                             *)
ImplementsContract ==
  Contract!Init /\ [][m.txn => Contract!Next]_<<AbsStore, AbsCursor>>

(* kvmemRollback(), alone or as part of kvmemRevert(), never touches a node *)
(* that is freed or out of the tree: an insertion is undone by the last     *)
(* record of its node, whatever nested commits did to the logs.             *)
RollbackIsSafe ==
  [][m'.fault # "none" =>
       \A l \in 0..MaxLevel :
         ~Rollback(l) /\ ~Revert(l) /\ ~RevertFails(l)]_vars

(* kvmem.c:826, "Subsequent xNext or xPrev calls will work": the step of a  *)
(* cursor arrives at the entry nearest to the one it came from, whether or  *)
(* not that one has been deleted meanwhile.  (In a store without            *)
(* transactions the cursor loses its place.)                                *)
StepsWorkAfterDelete ==
  [][\A c \in Cursors : m.txn /\ cur[c].way \in {"up", "down"} /\ cur' # cur /\ m'.fault = "none" =>
       /\ NextEntry(c) => cur'[c].at = Lowest({k \in Keys : k > cur[c].at /\ HasData(m, k)})
       /\ PrevEntry(c) => cur'[c].at = Highest({k \in Keys : k < cur[c].at /\ HasData(m, k)})]_vars
=============================================================================

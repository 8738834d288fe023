-------------------------------- MODULE KVLdb --------------------------------
(***************************************************************************)
(* The storage engine over LevelDB, kvldb.c: what its methods make of the  *)
(* LevelDB calls, and what they return.  LevelDB itself is external, known *)
(* from how kvldb.c uses it: a map that leveldb_put() and leveldb_delete() *)
(* change at once, and iterators over the map as it was when               *)
(* leveldb_create_iterator() made them.                                    *)
(*                                                                         *)
(* xBegin, xCommitPhaseOne, xCommitPhaseTwo, xRollback, xRevert, xReset    *)
(* and xControl return SQLITE4_OK and do nothing; module StoreTxn says     *)
(* what that makes of transactions.                                        *)
(***************************************************************************)
EXTENDS Integers, FiniteSets

CONSTANTS Keys,      \* a finite set of positive integers, in memcmp() order
          Prefixes,  \* the pairs <<k, j>> with k a proper prefix of j
          Vals, NoVal,
          Cookies,   \* schema cookies
          Cursors

Invalid == 0

ASSUME KVLdbAssumption ==
  /\ Keys \subseteq Nat \ {0} /\ IsFiniteSet(Keys)
  /\ Prefixes \subseteq {p \in Keys \X Keys : p[1] < p[2]}
  /\ 0 \in Cookies

VARIABLES db,    \* what LevelDB holds
          open,  \* there is a KVLdb object
          iMeta, \* its schema cookie
          it,    \* the cursors' iterators
          ret    \* the last method called through a cursor and its result

vars == <<db, open, iMeta, it, ret>>

Contents == [Keys -> Vals \cup {NoVal}]
Empty == [k \in Keys |-> NoVal]
In(x) == {k \in Keys : x[k] # NoVal}

Least(S) == IF S = {} THEN Invalid ELSE CHOOSE k \in S : \A j \in S : k <= j
Greatest(S) == IF S = {} THEN Invalid ELSE CHOOSE k \in S : \A j \in S : j <= k

(* snap   the map the iterator walks                                        *)
(* key    where it is, or Invalid                                           *)
(* way    what the last successful seek allows next: "up", "down" or "none" *)
(* from   the probe of that seek, and                                       *)
(* seen   the keys it and the steps since have stopped at                   *)
Iterator(x) == [open |-> TRUE, snap |-> x, key |-> Invalid, way |-> "none",
                from |-> Invalid, seen |-> {}]
NoIterator == [open |-> FALSE, snap |-> Empty, key |-> Invalid, way |-> "none",
               from |-> Invalid, seen |-> {}]

Nothing == [op |-> "none", cur |-> Invalid, probe |-> Invalid, dir |-> 0,
            rc |-> "OK"]

Init ==
  /\ db = Empty
  /\ open = FALSE /\ iMeta = 0
  /\ it = [c \in Cursors |-> NoIterator]
  /\ ret = Nothing

-----------------------------------------------------------------------------
(* sqlite4KVStoreOpenLdb()                                                  *)
Open ==
  /\ ~open /\ open' = TRUE /\ iMeta' = 0
  /\ UNCHANGED <<db, it, ret>>

(* leveldb_open() fails: leveldb_destroy_db() removes the database unless   *)
(* it fails too.                                                            *)
OpenFails ==
  /\ ~open /\ db' \in {db, Empty}
  /\ UNCHANGED <<open, iMeta, it, ret>>

(* The client has closed its cursors.                                       *)
Close ==
  /\ open /\ \A c \in Cursors : ~it[c].open
  /\ open' = FALSE /\ iMeta' = 0
  /\ UNCHANGED <<db, it, ret>>

PutMeta(v) ==
  /\ open /\ iMeta' = v
  /\ UNCHANGED <<db, open, it, ret>>

(* An error of leveldb_put() is returned, and there is nothing to undo.     *)
Replace(k, v) ==
  /\ open
  /\ db' = [db EXCEPT ![k] = v]
  /\ ret' = Nothing
  /\ UNCHANGED <<open, iMeta, it>>

OpenCursor(c) ==
  /\ open /\ ~it[c].open
  /\ it' = [it EXCEPT ![c] = Iterator(db)]
  /\ ret' = Nothing
  /\ UNCHANGED <<db, open, iMeta>>

CloseCursor(c) ==
  /\ it[c].open
  /\ it' = [it EXCEPT ![c] = NoIterator]
  /\ ret' = Nothing
  /\ UNCHANGED <<db, open, iMeta>>

-----------------------------------------------------------------------------
(* leveldb_iter_next() and leveldb_iter_prev() on a valid iterator.         *)
After(c) == Least({k \in In(it[c].snap) : k > it[c].key})
Before(c) == Greatest({k \in In(it[c].snap) : k < it[c].key})

Stepped(c, op, k) ==
  /\ it' = [it EXCEPT ![c].key = k,
                      ![c].seen = IF k = Invalid THEN @ ELSE @ \cup {k},
                      ![c].way = IF k = Invalid THEN "none" ELSE @]
  /\ ret' = [op |-> op, cur |-> c, probe |-> Invalid, dir |-> 0,
             rc |-> IF k = Invalid THEN "NOTFOUND" ELSE "OK"]
  /\ UNCHANGED <<db, open, iMeta>>

(* Mutant: the step is made with an iterator of its own.                    *)
NextEntryNow(c) ==
  it[c].open /\ it[c].way = "up" /\ it[c].key # Invalid
             /\ Stepped(c, "next", Least({k \in In(db) : k > it[c].key}))

NextEntry(c) ==
  it[c].open /\ it[c].way = "up" /\ it[c].key # Invalid
             /\ Stepped(c, "next", After(c))

PrevEntry(c) ==
  it[c].open /\ it[c].way = "down" /\ it[c].key # Invalid
             /\ Stepped(c, "prev", Before(c))

(* memcmp() over the length of the longer key: when one is a prefix of the  *)
(* other it goes on past the end of the shorter, and the result is whatever *)
(* is found there.                                                          *)
SaysEqual(k, j) ==
  IF <<k, j>> \in Prefixes \/ <<j, k>> \in Prefixes THEN BOOLEAN ELSE {k = j}

Sought(c, k, dir, at, rc) ==
  LET hit == rc # "NOTFOUND" /\ at # Invalid
  IN  /\ it' = [it EXCEPT ![c].key = at,
                          ![c].way = CASE hit /\ dir > 0 -> "up"
                                       [] hit /\ dir < 0 -> "down"
                                       [] OTHER -> "none",
                          ![c].from = k,
                          ![c].seen = IF at = Invalid THEN {} ELSE {at}]
      /\ ret' = [op |-> "seek", cur |-> c, probe |-> k, dir |-> dir, rc |-> rc]
      /\ UNCHANGED <<db, open, iMeta>>

(* leveldb_iter_seek() goes to the first key at or after the probe, and the *)
(* direction decides what to make of it.                                    *)
Seek(c, k, dir) ==
  LET j == Least({i \in In(it[c].snap) : i >= k})
      before == Greatest({i \in In(it[c].snap) : i < j})
      last == Greatest(In(it[c].snap))
  IN  /\ it[c].open
      /\ \/ /\ j = Invalid /\ dir >= 0
            /\ Sought(c, k, dir, Invalid, "NOTFOUND")
         \/ /\ j = Invalid /\ dir < 0
            /\ Sought(c, k, dir, last,
                      IF last = Invalid THEN "NOTFOUND" ELSE "INEXACT")
         \/ /\ j # Invalid /\ TRUE \in SaysEqual(k, j)
            /\ Sought(c, k, dir, j, "OK")
         \/ /\ j # Invalid /\ FALSE \in SaysEqual(k, j)
            /\ CASE dir = 0 -> Sought(c, k, dir, j, "NOTFOUND")
                 [] dir > 0 -> Sought(c, k, dir, j, "INEXACT")
                 [] dir < 0 -> Sought(c, k, dir, before, "INEXACT")

(* The key is taken from the iterator, the entry deleted in the database;   *)
(* SQLITE4_OK is returned even if leveldb_delete() fails.                   *)
Delete(c) ==
  /\ it[c].open
  /\ IF it[c].key = Invalid THEN UNCHANGED db
     ELSE db' \in {db, [db EXCEPT ![it[c].key] = NoVal]}
  /\ ret' = [op |-> "delete", cur |-> c, probe |-> Invalid, dir |-> 0,
             rc |-> "OK"]
  /\ UNCHANGED <<open, iMeta, it>>

Next ==
  \/ Open \/ OpenFails \/ Close
  \/ \E v \in Cookies : PutMeta(v)
  \/ \E k \in Keys, v \in Vals : Replace(k, v)
  \/ \E c \in Cursors :
       \/ OpenCursor(c) \/ CloseCursor(c) \/ Delete(c)
       \/ NextEntry(c) \/ PrevEntry(c)
       \/ \E k \in Keys, dir \in {-1, 0, 1} : Seek(c, k, dir)

Spec == Init /\ [][Next]_vars

-----------------------------------------------------------------------------
(* A scan stops at each entry that was there when its cursor was opened,    *)
(* once, in order, from the probe to where it is now, whatever is replaced  *)
(* or deleted meanwhile: a statement that changes the table it scans does   *)
(* not meet its own changes.                                                *)
ScanSeesSnapshot ==
  \A c \in Cursors :
    /\ it[c].way = "up" =>
         it[c].seen = {k \in In(it[c].snap) : it[c].from <= k /\ k <= it[c].key}
    /\ it[c].way = "down" /\ (\A j \in it[c].seen : j <= it[c].from) =>
         it[c].seen = {k \in In(it[c].snap) : it[c].key <= k /\ k <= it[c].from}
=============================================================================

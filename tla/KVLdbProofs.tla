----------------------------- MODULE KVLdbProofs -----------------------------
(***************************************************************************)
(* That a scan through kvldb.c meets the entries its cursor was opened on, *)
(* each once and in order, for every set of keys and any number of cursors *)
(* and writers.                                                            *)
(***************************************************************************)
EXTENDS KVLdb, FiniteSetTheorems, WellFoundedInduction, TLAPS

-----------------------------------------------------------------------------
(* The least and the greatest of a set of keys.                             *)

(* A set of numbers with a member has a least one.                          *)
LEMMA LeastNumber ==
  ASSUME NEW T \in SUBSET Nat, T # {}
  PROVE  \E x \in T : \A y \in T : x <= y
<1> DEFINE R == {p \in Nat \X Nat : p[1] < p[2]}
<1>1. R = OpToRel(<, Nat)
  BY Zenon DEF OpToRel
<1> HIDE DEF R
<1>2. IsWellFoundedOn(R, Nat)
  BY <1>1, NatLessThanWellFounded, Zenon
<1>3. PICK x \in T : \A y \in T : ~(<<y, x>> \in R)
  BY <1>2, WFMin, Zenon
<1>4. ASSUME NEW y \in T PROVE x <= y
  <2>1. x \in Nat /\ y \in Nat /\ <<y, x>> \in Nat \X Nat
    OBVIOUS
  <2>2. <<y, x>>[1] = y /\ <<y, x>>[2] = x
    OBVIOUS
  <2>3. ~(y < x)
    BY <1>3, <2>1, <2>2 DEF R
  <2> QED
    BY <2>1, <2>3
<1> QED
  BY <1>4

(* A finite set of numbers with a member has a greatest one: the least of   *)
(* the sizes of the sets that have none would be the size of one that       *)
(* stays without when a member is taken out.                                *)
LEMMA GreatestNumber ==
  ASSUME NEW S \in SUBSET Nat, IsFiniteSet(S), S # {}
  PROVE  \E x \in S : \A y \in S : y <= x
<1> DEFINE Has(T) == \E x \in T : \A y \in T : y <= x
           B == {n \in Nat : \E T \in SUBSET Nat :
                   IsFiniteSet(T) /\ T # {} /\ Cardinality(T) = n /\ ~Has(T)}
<1>1. SUFFICES ASSUME ~Has(S) PROVE FALSE
  OBVIOUS
<1>2. B # {}
  BY <1>1, FS_CardinalityType
<1>3. PICK n \in B : \A m \in B : n <= m
  BY <1>2, LeastNumber
<1>4. PICK T \in SUBSET Nat :
        IsFiniteSet(T) /\ T # {} /\ Cardinality(T) = n /\ ~Has(T)
  BY <1>3
<1>5. PICK x \in T : TRUE
  BY <1>4
<1> DEFINE V == T \ {x}
<1>6. /\ V \in SUBSET Nat /\ IsFiniteSet(V) /\ Cardinality(V) = n - 1
      /\ n \in Nat /\ Cardinality(V) \in Nat
  BY <1>3, <1>4, <1>5, FS_RemoveElement, FS_CardinalityType
<1>7. V # {}
  <2> SUFFICES ASSUME V = {} PROVE Has(T)
    BY <1>4
  <2>1. T = {x} /\ x \in Nat
    BY <1>5
  <2> QED
    BY <2>1
<1>8. Has(V)
  <2> SUFFICES ASSUME ~Has(V) PROVE FALSE
    OBVIOUS
  <2>1. n - 1 \in B
    <3> HIDE DEF Has, V
    <3> QED
      BY <1>6, <1>7
  <2> QED
    BY <1>3, <1>6, <2>1
<1>9. PICK z \in V : \A y \in V : y <= z
  BY <1>8
<1>10. Has(T)
  <2>1. x \in Nat /\ z \in Nat /\ \A y \in T : y \in Nat /\ (y = x \/ y \in V)
    BY <1>4, <1>5
  <2>2. CASE z <= x
    BY <1>5, <1>9, <2>1, <2>2
  <2>3. CASE x <= z
    BY <1>9, <2>1, <2>3
  <2> QED
    BY <2>1, <2>2, <2>3
<1> QED
  BY <1>4, <1>10

(* leveldb_iter_seek(), _next() and _seek_to_first().                       *)
LEMMA LeastKey ==
  ASSUME NEW S \in SUBSET Keys
  PROVE  \/ S = {} /\ Least(S) = Invalid
         \/ Least(S) \in S /\ Least(S) # Invalid /\ \A j \in S : Least(S) <= j
<1>1. S \in SUBSET Nat /\ 0 \notin S
  BY KVLdbAssumption
<1>2. CASE S # {}
  <2>1. \E k \in S : \A j \in S : k <= j
    BY <1>1, <1>2, LeastNumber
  <2>2. Least(S) = CHOOSE k \in S : \A j \in S : k <= j
    BY <1>2 DEF Least
  <2>3. Least(S) \in S /\ \A j \in S : Least(S) <= j
    BY <2>1, <2>2
  <2> QED
    BY <1>1, <2>3 DEF Invalid
<1> QED
  BY <1>2 DEF Least

(* leveldb_iter_prev() and _seek_to_last().                                 *)
LEMMA GreatestKey ==
  ASSUME NEW S \in SUBSET Keys
  PROVE  \/ S = {} /\ Greatest(S) = Invalid
         \/ /\ Greatest(S) \in S /\ Greatest(S) # Invalid
            /\ \A j \in S : j <= Greatest(S)
<1>1. S \in SUBSET Nat /\ 0 \notin S /\ IsFiniteSet(S)
  BY KVLdbAssumption, FS_Subset
<1>2. CASE S # {}
  <2>1. \E k \in S : \A j \in S : j <= k
    BY <1>1, <1>2, GreatestNumber
  <2>2. Greatest(S) = CHOOSE k \in S : \A j \in S : j <= k
    BY <1>2 DEF Greatest
  <2>3. Greatest(S) \in S /\ \A j \in S : j <= Greatest(S)
    BY <2>1, <2>2
  <2> QED
    BY <1>1, <2>3 DEF Invalid
<1> QED
  BY <1>2 DEF Greatest

-----------------------------------------------------------------------------
(* The inductive invariant.                                                 *)

Ways == {"up", "down", "none"}

Cursor == [open : BOOLEAN, snap : Contents, key : Keys \cup {Invalid}, way : Ways,
           from : Keys \cup {Invalid}, seen : SUBSET Keys]

(* What a cursor has stopped at, and that a scan is at one of its entries.  *)
(* A scan downwards that memcmp() sent past its probe keeps what is past    *)
(* it among what was seen.                                                  *)
Scanned(x) ==
  /\ x.way # "none" => x.key \in In(x.snap) /\ x.from \in Keys
  /\ x.way = "up" =>
       /\ x.from <= x.key
       /\ x.seen = {k \in In(x.snap) : x.from <= k /\ k <= x.key}
  /\ x.way = "down" /\ (\A j \in x.seen : j <= x.from) =>
       x.seen = {k \in In(x.snap) : x.key <= k /\ k <= x.from}

IInv ==
  /\ db \in Contents
  /\ it \in [Cursors -> Cursor]
  /\ \A c \in Cursors : Scanned(it[c])

LEMMA KeysAreNumbers == \A k \in Keys : k \in Nat
BY KVLdbAssumption

(* What changes one cursor.                                                 *)
LEMMA OneCursor ==
  ASSUME IInv, NEW c \in Cursors, NEW x \in Cursor, Scanned(x),
         it' = [it EXCEPT ![c] = x], db' = db
  PROVE  IInv'
<1>1. \A e \in Cursors : it'[e] = IF e = c THEN x ELSE it[e]
  BY DEF IInv
<1> QED
  BY <1>1 DEF IInv

(* The next entry adds itself to a range, and nothing else.                 *)
LEMMA RangeGrows ==
  ASSUME NEW I \in SUBSET Nat, NEW a \in Nat, NEW b \in Nat, NEW k \in I
  PROVE  /\ a <= b /\ b < k /\ (\A j \in I : j > b => k <= j) =>
              {j \in I : a <= j /\ j <= b} \cup {k} = {j \in I : a <= j /\ j <= k}
         /\ k <= b /\ k < a /\ (\A j \in I : j < a => j <= k) =>
              {j \in I : a <= j /\ j <= b} \cup {k} = {j \in I : k <= j /\ j <= b}
<1>1. k \in Nat /\ \A j \in I : j \in Nat
  OBVIOUS
<1>2. ASSUME a <= b, b < k, \A j \in I : j > b => k <= j, NEW j \in I
      PROVE  (a <= j /\ j <= b) \/ j = k <=> a <= j /\ j <= k
  BY <1>1, <1>2
<1>3. ASSUME k <= b, k < a, \A j \in I : j < a => j <= k, NEW j \in I
      PROVE  (a <= j /\ j <= b) \/ j = k <=> k <= j /\ j <= b
  BY <1>1, <1>3
<1> QED
  BY <1>2, <1>3

(* xNext and xPrev.                                                         *)
LEMMA SteppedInv ==
  ASSUME IInv, NEW c \in Cursors, NEW op, NEW k \in Keys \cup {Invalid},
         Stepped(c, op, k),
         k # Invalid =>
           Scanned([it[c] EXCEPT !.key = k, !.seen = @ \cup {k}])
  PROVE  IInv'
<1> DEFINE x == [it[c] EXCEPT !.key = k,
                   !.seen = IF k = Invalid THEN @ ELSE @ \cup {k},
                   !.way = IF k = Invalid THEN "none" ELSE @]
<1>1. it' = [it EXCEPT ![c] = x] /\ db' = db
  BY DEF Stepped, IInv
<1>2. it[c] \in Cursor
  BY DEF IInv
<1>3. x \in Cursor
  BY <1>2 DEF Cursor, Ways
<1>4. Scanned(x)
  <2>1. CASE k = Invalid
    <3>1. x.way = "none"
      BY <1>2, <2>1 DEF Cursor
    <3> HIDE DEF x
    <3> QED
      BY <3>1 DEF Scanned
  <2>2. CASE k # Invalid
    <3>1. x = [it[c] EXCEPT !.key = k, !.seen = @ \cup {k}]
      BY <1>2, <2>2 DEF Cursor
    <3> QED
      BY <2>2, <3>1
  <2> QED
    BY <2>1, <2>2
<1> HIDE DEF x
<1> QED
  BY <1>1, <1>3, <1>4, OneCursor

LEMMA NextEntryInv ==
  ASSUME IInv, NEW c \in Cursors, NextEntry(c)
  PROVE  IInv'
<1> DEFINE S == {k \in In(it[c].snap) : k > it[c].key}
           k == Least(S)
<1>1. it[c] \in Cursor /\ Scanned(it[c]) /\ it[c].way = "up" /\ S \in SUBSET Keys
  BY DEF IInv, NextEntry, In
<1>2. Stepped(c, "next", k)
  BY DEF NextEntry, After
<1>3. \/ k = Invalid
      \/ k \in S /\ k # Invalid /\ \A j \in S : k <= j
  BY <1>1, LeastKey
<1>4. k \in Keys \cup {Invalid}
  BY <1>1, <1>3
<1>5. ASSUME k # Invalid
      PROVE  Scanned([it[c] EXCEPT !.key = k, !.seen = @ \cup {k}])
  <2> DEFINE x == [it[c] EXCEPT !.key = k, !.seen = @ \cup {k}]
  <2>1. /\ x.way = "up" /\ x.key = k /\ x.from = it[c].from
        /\ x.snap = it[c].snap /\ x.seen = it[c].seen \cup {k}
    BY <1>1 DEF Cursor
  <2>2. /\ k \in In(it[c].snap) /\ k > it[c].key
        /\ \A j \in In(it[c].snap) : j > it[c].key => k <= j
    BY <1>3, <1>5
  <2>3. /\ it[c].key \in In(it[c].snap) /\ it[c].from \in Keys
        /\ it[c].from <= it[c].key
        /\ it[c].seen = {j \in In(it[c].snap) : it[c].from <= j /\ j <= it[c].key}
    BY <1>1 DEF Scanned
  <2>4. /\ \A j \in In(it[c].snap) : j \in Nat
        /\ it[c].key \in Nat /\ k \in Nat /\ it[c].from \in Nat
    BY <2>2, <2>3, KeysAreNumbers DEF In
  <2> HIDE DEF k, x
  <2>5. it[c].seen \cup {k} =
          {j \in In(it[c].snap) : it[c].from <= j /\ j <= k}
    <3>1. In(it[c].snap) \in SUBSET Nat
      BY <2>4
    <3> QED
      BY <2>2, <2>3, <2>4, <3>1, RangeGrows
  <2>6. it[c].from <= k
    BY <2>2, <2>3, <2>4
  <2>7. Scanned(x)
    BY <2>1, <2>2, <2>3, <2>5, <2>6 DEF Scanned
  <2> QED
    BY <2>7 DEF x
<1> HIDE DEF k
<1> QED
  BY <1>2, <1>4, <1>5, SteppedInv

LEMMA PrevEntryInv ==
  ASSUME IInv, NEW c \in Cursors, PrevEntry(c)
  PROVE  IInv'
<1> DEFINE S == {k \in In(it[c].snap) : k < it[c].key}
           k == Greatest(S)
<1>1. it[c] \in Cursor /\ Scanned(it[c]) /\ it[c].way = "down" /\ S \in SUBSET Keys
  BY DEF IInv, PrevEntry, In
<1>2. Stepped(c, "prev", k)
  BY DEF PrevEntry, Before
<1>3. \/ k = Invalid
      \/ k \in S /\ k # Invalid /\ \A j \in S : j <= k
  BY <1>1, GreatestKey
<1>4. k \in Keys \cup {Invalid}
  BY <1>1, <1>3
<1>5. ASSUME k # Invalid
      PROVE  Scanned([it[c] EXCEPT !.key = k, !.seen = @ \cup {k}])
  <2> DEFINE x == [it[c] EXCEPT !.key = k, !.seen = @ \cup {k}]
  <2>1. /\ x.way = "down" /\ x.key = k /\ x.from = it[c].from
        /\ x.snap = it[c].snap /\ x.seen = it[c].seen \cup {k}
    BY <1>1 DEF Cursor
  <2>2. /\ k \in In(it[c].snap) /\ k < it[c].key
        /\ \A j \in In(it[c].snap) : j < it[c].key => j <= k
    BY <1>3, <1>5
  <2>3. /\ it[c].key \in In(it[c].snap) /\ it[c].from \in Keys
        /\ (\A j \in it[c].seen : j <= it[c].from) =>
             it[c].seen = {j \in In(it[c].snap) : it[c].key <= j /\ j <= it[c].from}
    BY <1>1 DEF Scanned
  <2>4. /\ \A j \in In(it[c].snap) : j \in Nat
        /\ it[c].key \in Nat /\ k \in Nat /\ it[c].from \in Nat
    BY <2>2, <2>3, KeysAreNumbers DEF In
  <2> HIDE DEF k, x
  <2>5. ASSUME \A j \in it[c].seen \cup {k} : j <= it[c].from
        PROVE  it[c].seen \cup {k} =
                 {j \in In(it[c].snap) : k <= j /\ j <= it[c].from}
    <3>1. In(it[c].snap) \in SUBSET Nat
      BY <2>4
    <3>2. it[c].seen = {j \in In(it[c].snap) : it[c].key <= j /\ j <= it[c].from}
      BY <2>3, <2>5
    <3>3. k <= it[c].from
      BY <2>5
    <3> QED
      BY <2>2, <2>4, <3>1, <3>2, <3>3, RangeGrows
  <2>6. Scanned(x)
    BY <2>1, <2>2, <2>3, <2>5 DEF Scanned
  <2> QED
    BY <2>6 DEF x
<1> HIDE DEF k
<1> QED
  BY <1>2, <1>4, <1>5, SteppedInv

(* A seek that stops at an entry starts a scan there.                       *)
LEMMA SoughtInv ==
  ASSUME IInv, NEW c \in Cursors, NEW k \in Keys, NEW dir \in {-1, 0, 1},
         NEW at \in Keys \cup {Invalid}, NEW rc, Sought(c, k, dir, at, rc),
         at # Invalid => at \in In(it[c].snap),
         at # Invalid /\ rc # "NOTFOUND" /\ dir > 0 =>
           k <= at /\ {at} = {j \in In(it[c].snap) : k <= j /\ j <= at},
         at # Invalid /\ rc # "NOTFOUND" /\ dir < 0 /\ at <= k =>
           {at} = {j \in In(it[c].snap) : at <= j /\ j <= k}
  PROVE  IInv'
<1> DEFINE hit == rc # "NOTFOUND" /\ at # Invalid
           way == CASE hit /\ dir > 0 -> "up"
                    [] hit /\ dir < 0 -> "down"
                    [] OTHER -> "none"
           x == [it[c] EXCEPT !.key = at, !.way = way, !.from = k,
                              !.seen = IF at = Invalid THEN {} ELSE {at}]
<1>1. it[c] \in Cursor
  BY DEF IInv
<1>2. it' = [it EXCEPT ![c] = x] /\ db' = db
  <2>1. /\ it' = [it EXCEPT ![c].key = at, ![c].way = way, ![c].from = k,
                            ![c].seen = IF at = Invalid THEN {} ELSE {at}]
        /\ db' = db
    BY Zenon DEF Sought
  <2> HIDE DEF way
  <2> QED
    BY <2>1 DEF IInv
<1>3. /\ way = "up" => hit /\ dir > 0
      /\ way = "down" => hit /\ dir < 0
      /\ way \in Ways
  <2>1. ~(dir > 0 /\ dir < 0)
    OBVIOUS
  <2> QED
    BY <2>1 DEF Ways
<1> HIDE DEF way
<1>4. /\ x \in Cursor /\ x.snap = it[c].snap /\ x.key = at /\ x.way = way
      /\ x.from = k /\ x.seen = IF at = Invalid THEN {} ELSE {at}
  BY <1>1, <1>3 DEF Cursor, In
<1> HIDE DEF x
<1>5. Scanned(x)
  <2>1. CASE way = "up"
    BY <1>3, <1>4, <2>1 DEF Scanned
  <2>2. CASE way = "down"
    <3>1. at # Invalid /\ rc # "NOTFOUND" /\ dir < 0 /\ x.seen = {at}
      BY <1>3, <1>4, <2>2
    <3> QED
      BY <1>4, <2>2, <3>1 DEF Scanned
  <2>3. CASE way = "none"
    BY <1>4, <2>3 DEF Scanned
  <2> QED
    BY <1>3, <2>1, <2>2, <2>3 DEF Ways
<1> QED
  BY <1>2, <1>4, <1>5, OneCursor

(* xSeek.                                                                   *)
LEMMA SeekInv ==
  ASSUME IInv, NEW c \in Cursors, NEW k \in Keys, NEW dir \in {-1, 0, 1},
         Seek(c, k, dir)
  PROVE  IInv'
<1> DEFINE I == In(it[c].snap)
           j == Least({i \in I : i >= k})
           before == Greatest({i \in I : i < j})
           last == Greatest(I)
<1>1. I \in SUBSET Keys /\ k \in Nat /\ \A i \in I : i \in Nat
  BY KeysAreNumbers DEF In
<1>2. \/ j = Invalid /\ \A i \in I : ~(i >= k)
      \/ j # Invalid /\ j \in I /\ j >= k /\ \A i \in I : i >= k => j <= i
  <2>1. {i \in I : i >= k} \in SUBSET Keys
    BY <1>1
  <2> HIDE DEF I
  <2> QED
    BY <2>1, LeastKey
<1>3. \/ before = Invalid
      \/ before \in I /\ before < j /\ \A i \in I : i < j => i <= before
  <2>1. {i \in I : i < j} \in SUBSET Keys
    BY <1>1
  <2> HIDE DEF I, j
  <2> QED
    BY <2>1, GreatestKey
<1>4. \/ last = Invalid
      \/ last \in I /\ \A i \in I : i <= last
  BY <1>1, GreatestKey
<1>5. \/ j = Invalid /\ dir >= 0 /\ Sought(c, k, dir, Invalid, "NOTFOUND")
      \/ \E rc : j = Invalid /\ dir < 0 /\ Sought(c, k, dir, last, rc)
      \/ j # Invalid /\ Sought(c, k, dir, j, "OK")
      \/ j # Invalid /\ dir = 0 /\ Sought(c, k, dir, j, "NOTFOUND")
      \/ j # Invalid /\ dir > 0 /\ Sought(c, k, dir, j, "INEXACT")
      \/ j # Invalid /\ dir < 0 /\ j # k /\ Sought(c, k, dir, before, "INEXACT")
  <2>1. ASSUME FALSE \in SaysEqual(k, j), j # Invalid PROVE j # k
    <3>1. <<k, k>> \notin Prefixes
      <4>1. ~(k < k) /\ <<k, k>>[1] = k /\ <<k, k>>[2] = k
        BY <1>1
      <4> QED
        BY <4>1, KVLdbAssumption
    <3> HIDE DEF j
    <3>2. SUFFICES ASSUME j = k PROVE FALSE
      OBVIOUS
    <3> QED
      BY <2>1, <3>1, <3>2 DEF SaysEqual
  <2>2. ASSUME FALSE \in SaysEqual(k, j), j # Invalid,
               CASE dir = 0 -> Sought(c, k, dir, j, "NOTFOUND")
                 [] dir > 0 -> Sought(c, k, dir, j, "INEXACT")
                 [] dir < 0 -> Sought(c, k, dir, before, "INEXACT")
        PROVE  \/ dir = 0 /\ Sought(c, k, dir, j, "NOTFOUND")
               \/ dir > 0 /\ Sought(c, k, dir, j, "INEXACT")
               \/ dir < 0 /\ j # k /\ Sought(c, k, dir, before, "INEXACT")
    <3>1. j # k
      BY <2>1, <2>2
    <3> HIDE DEF j, before
    <3>2. CASE dir = 0
      BY <2>2, <3>2
    <3>3. CASE dir = 1
      BY <2>2, <3>3
    <3>4. CASE dir = -1
      BY <2>2, <3>1, <3>4
    <3> QED
      BY <3>2, <3>3, <3>4
  <2> QED
    BY <2>2 DEF Seek
<1> HIDE DEF j, before, last
<1>6. CASE j = Invalid /\ dir >= 0 /\ Sought(c, k, dir, Invalid, "NOTFOUND")
  <2>1. Invalid \in Keys \cup {Invalid}
    OBVIOUS
  <2> QED
    BY <1>6, <2>1, SoughtInv
<1>7. ASSUME NEW rc, j = Invalid, dir < 0, Sought(c, k, dir, last, rc)
      PROVE  IInv'
  <2>1. last \in Keys \cup {Invalid} /\ ~(dir > 0) /\ (last # Invalid => last \in I)
    BY <1>1, <1>4, <1>7
  <2>2. last # Invalid => {last} = {i \in I : last <= i /\ i <= k}
    <3> HIDE DEF I
    <3>1. ASSUME last # Invalid, NEW i \in I PROVE i = last <=> last <= i /\ i <= k
      <4>1. \A e \in I : ~(e >= k)
        BY <1>2, <1>7
      <4>2. last \in Nat /\ ~(i >= k) /\ i <= last /\ i \in Nat
        BY <1>1, <1>4, <3>1, <4>1
      <4> QED
        BY <1>1, <4>2
    <3> QED
      BY <1>4, <3>1
  <2> QED
    BY <1>7, <2>1, <2>2, SoughtInv
<1>8. ASSUME j # Invalid, NEW rc, Sought(c, k, dir, j, rc) PROVE IInv'
  <2>1. /\ j \in Keys \cup {Invalid} /\ j \in I /\ k <= j /\ j \in Nat
        /\ \A i \in I : i >= k => j <= i
    BY <1>1, <1>2, <1>8
  <2>2. {j} = {i \in I : k <= i /\ i <= j}
    <3> HIDE DEF I
    <3>1. ASSUME NEW i \in I PROVE i = j <=> k <= i /\ i <= j
      BY <1>1, <2>1
    <3> QED
      BY <2>1, <3>1
  <2>3. j <= k => {j} = {i \in I : j <= i /\ i <= k}
    <3> HIDE DEF I
    <3>1. ASSUME j <= k PROVE j = k
      BY <1>1, <2>1, <3>1
    <3> QED
      BY <2>2, <3>1
  <2> QED
    BY <1>8, <2>1, <2>2, <2>3, SoughtInv
<1>9. ASSUME j # Invalid, dir < 0, j # k, Sought(c, k, dir, before, "INEXACT")
      PROVE  IInv'
  <2>1. /\ before \in Keys \cup {Invalid} /\ ~(dir > 0)
        /\ before # Invalid => before \in I
    BY <1>1, <1>3, <1>9
  <2>2. before # Invalid => {before} = {i \in I : before <= i /\ i <= k}
    <3> HIDE DEF I
    <3>1. ASSUME before # Invalid, NEW i \in I
          PROVE  i = before <=> before <= i /\ i <= k
      <4>1. /\ j \in Nat /\ j > k /\ before \in Nat /\ i \in Nat
            /\ before < j /\ (i < j => i <= before) /\ (i >= k => j <= i)
        <5>1. j \in I /\ j >= k /\ \A e \in I : e >= k => j <= e
          BY <1>2, <1>9
        <5>2. before \in I /\ before < j /\ \A e \in I : e < j => e <= before
          BY <1>3, <3>1
        <5>3. j \in Nat /\ before \in Nat /\ i \in Nat
          BY <1>1, <3>1, <5>1, <5>2
        <5> QED
          BY <1>1, <1>9, <3>1, <5>1, <5>2, <5>3
      <4>2. before < k
        <5>1. before \in I /\ \A e \in I : e >= k => j <= e
          BY <1>2, <1>3, <1>9, <3>1
        <5> QED
          BY <1>1, <4>1, <5>1
      <4> QED
        BY <1>1, <4>1, <4>2
    <3> QED
      BY <1>3, <3>1
  <2> QED
    BY <1>9, <2>1, <2>2, SoughtInv
<1> QED
  BY <1>5, <1>6, <1>7, <1>8, <1>9

(* Every step of the store and of its cursors keeps the invariant.          *)
LEMMA NextInv == IInv /\ [Next]_vars => IInv'
<1> SUFFICES ASSUME IInv, [Next]_vars PROVE IInv'
  OBVIOUS
<1>1. Empty \in Contents /\ NoIterator \in Cursor /\ Scanned(NoIterator)
  BY DEF Empty, Contents, NoIterator, Cursor, Ways, Scanned
<1>2. CASE UNCHANGED vars \/ Open \/ Close \/ \E v \in Cookies : PutMeta(v)
  BY <1>2 DEF IInv, vars, Open, Close, PutMeta
<1>3. CASE OpenFails
  BY <1>1, <1>3 DEF IInv, OpenFails
<1>4. ASSUME NEW k \in Keys, NEW v \in Vals, Replace(k, v) PROVE IInv'
  BY <1>4 DEF IInv, Replace, Contents
<1>5. ASSUME NEW c \in Cursors, Delete(c) PROVE IInv'
  <2>1. it' = it /\ \/ db' = db
                    \/ db' = [db EXCEPT ![it[c].key] = NoVal]
    BY <1>5 DEF Delete
  <2>2. db' \in Contents
    BY <2>1 DEF IInv, Contents
  <2> QED
    BY <2>1, <2>2 DEF IInv
<1>6. ASSUME NEW c \in Cursors, OpenCursor(c) PROVE IInv'
  <2>1. Iterator(db) \in Cursor /\ Iterator(db).way = "none"
    BY DEF IInv, Iterator, Cursor, Ways
  <2>2. Scanned(Iterator(db))
    BY <2>1 DEF Scanned
  <2> QED
    BY <1>6, <2>1, <2>2, OneCursor DEF OpenCursor
<1>7. ASSUME NEW c \in Cursors, CloseCursor(c) PROVE IInv'
  BY <1>1, <1>7, OneCursor DEF CloseCursor
<1> QED
  BY <1>2, <1>3, <1>4, <1>5, <1>6, <1>7, NextEntryInv, PrevEntryInv, SeekInv
  DEF Next

(* A scan stops at each entry that was there when its cursor was opened,    *)
(* once, in order, from the probe to where it is now, whatever is replaced  *)
(* or deleted through the store or through cursors meanwhile.               *)
THEOREM ScanAlwaysSeesSnapshot == Spec => []ScanSeesSnapshot
<1>1. Init => IInv
  BY DEF Init, IInv, Empty, Contents, NoIterator, Cursor, Ways, Scanned
<1>2. IInv => ScanSeesSnapshot
  BY DEF IInv, Scanned, ScanSeesSnapshot
<1> QED
  BY <1>1, <1>2, NextInv, PTL DEF Spec
=============================================================================

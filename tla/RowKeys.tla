------------------------------ MODULE RowKeys ------------------------------
(***************************************************************************)
(* Rows turned into entries of an index or of a sorter by OP_MakeKey and   *)
(* OP_MakeRecord (vdbe.c), and what the opcodes that read keys make of     *)
(* them: the order of the store, OP_GrpCompare, OP_IsUnique and OP_SeekPk  *)
(* (through sqlite4VdbeShortKey), OP_AnalyzeKey, OP_Rowid and OP_Column.   *)
(*                                                                         *)
(* An index is a record of nIn, the columns a row has; ki, its KeyInfo;    *)
(* iRoot, its table number; seq, whether OP_MakeKey appends a sequence     *)
(* number (the GROUP BY sorter); start, the sequence number of the cursor  *)
(* before these rows; and vals, for each column the set of ValueSets it    *)
(* takes its values from.                                                  *)
(***************************************************************************)
EXTENDS KeyCodec

CONSTANTS Indexes,      \* the indexes a program may write to
          ValueSets,    \* a function from names to sets of values
          MaxRows       \* bound on the rows of a behaviour: one more in a sorter

VARIABLES ix,           \* the index the program writes to
          made          \* the entries made, in order: row, key and record

keyVars == <<ix, made>>

KeyInit == ix \in Indexes /\ made = <<>>

\* The seven-bit groups of a sequence number, the first with the top bit set.
RECURSIVE SevenBits(_)
SevenBits(i) == IF i < 128 THEN <<i>> ELSE Append(SevenBits(i \div 128), i % 128)

\* Mutant: every byte has the top bit set.
SeqBytesMarked(i) == LET s == SevenBits(i) IN [k \in DOMAIN s |-> 128 + s[k]]

SeqBytes(i) == LET s == SevenBits(i) IN <<128 + Head(s)>> \o Tail(s)

MakeKey(row, iSeq) ==
  sqlite4VdbeEncodeKey(row, ix.iRoot, ix.ki) \o (IF ix.seq THEN SeqBytes(iSeq) ELSE <<>>)

MakeEntry(row) ==
  made' = Append(made, [row |-> row, key |-> MakeKey(row, ix.start + Len(made)),
                        data |-> sqlite4VdbeEncodeData(row)])

Rows == {r \in [1..ix.nIn -> UNION {ValueSets[ix.vals[i]] : i \in 1..ix.nIn}] :
           \A i \in 1..ix.nIn : r[i] \in ValueSets[ix.vals[i]]}

KeyNext ==
  /\ Len(made) < (IF ix.seq THEN MaxRows + 1 ELSE MaxRows)
  /\ \E row \in Rows : MakeEntry(row)
  /\ UNCHANGED ix

---------------------------------------------------------------------------
(* What the opcodes read.                                                  *)

\* OP_GrpCompare: the key without its sequence number.
GroupKey(key) == SubSeq(key, 1, Max({i \in DOMAIN key : key[i] >= 128}) - 1)

\* The entries in the order of the store, by their places in made.
Sorted == SortSeq([i \in DOMAIN made |-> i],
                  LAMBDA i, j : KeyCompare(made[i].key, made[j].key) < 0)

\* The number of the group of each place in Sorted: a new one when the group
\* key differs from that of the entry before.
RECURSIVE GroupAt(_, _)
GroupAt(s, k) ==
  IF k = 1 THEN 1
  ELSE GroupAt(s, k - 1) +
       (IF GroupKey(made[s[k]].key) = GroupKey(made[s[k - 1]].key) THEN 0 ELSE 1)

\* OP_AnalyzeKey: the fields that the bytes two keys share make up.
nEq(new, old) ==
  LET common == {n \in 0..Min({Len(new), Len(old)}) :
                   SubSeq(new, 1, n) = SubSeq(old, 1, n)}
  IN sqlite4VdbeShortKey(new, Max(common), 1000).fields

---------------------------------------------------------------------------
(* The order of two rows by the comparison of values.                      *)

ColumnOrder(r, s, i) ==
  LET c == sqlite4MemCompare(r[i], s[i], ix.ki.coll[i])
  IN IF ix.ki.so[i] = "desc" THEN -c ELSE c

\* The first column that differs, 0 when none does.
FirstDifference(r, s) ==
  LET D == {i \in DOMAIN r : ColumnOrder(r, s, i) # 0}
  IN IF D = {} THEN 0 ELSE Min(D)

RowOrder(r, s) ==
  LET i == FirstDifference(r, s) IN IF i = 0 THEN 0 ELSE ColumnOrder(r, s, i)

\* NaN, and an infinity and itself, are not compared (sqlite4_num_compare).
Comparable(r, s) ==
  \A i \in DOMAIN r : r[i].t = "num" /\ s[i].t = "num" =>
                        N!sqlite4_num_compare(r[i].num, s[i].num) # 0

\* The last field is a blob with no end mark.
OpenEnded(r) == ix.nIn = ix.ki.nField /\ r[ix.nIn].t = "blob"

SameSign(a, b) == (a < 0 <=> b < 0) /\ (a > 0 <=> b > 0)

(* memcmp() puts the keys of rows in the order in which sqlite4MemCompare() puts *)
(* the rows, column by column, under each column's collation and sort order, and *)
(* two keys are the same exactly when the rows compare equal: an index scan, the *)
(* uniqueness check and a WHERE clause evaluated row by row agree.               *)
KeysSortLikeRows ==
  ~ ix.seq => \A i, j \in DOMAIN made :
    Comparable(made[i].row, made[j].row) =>
      SameSign(KeyCompare(made[i].key, made[j].key), RowOrder(made[i].row, made[j].row))

(* sqlite4VdbeShortKey() finds where the first fields of a key end, whatever   *)
(* bytes the values hold: the key of the first columns is that prefix, so that *)
(* OP_IsUnique and OP_SeekPk split an entry between index columns and primary  *)
(* key; and the fields OP_AnalyzeKey finds two keys to share are the leading   *)
(* columns in which the rows compare equal, unless the last is a blob that     *)
(* ends the key, which sqlite4VdbeShortKey() takes to be shared when its first *)
(* byte is.                                                                    *)
FieldsFound ==
  /\ \A i \in DOMAIN made : \A k \in 0..ix.nIn :
       LET full == sqlite4VdbeEncodeKey(made[i].row, ix.iRoot, ix.ki)
           part == sqlite4VdbeEncodeKey(SubSeq(made[i].row, 1, k), ix.iRoot, ix.ki)
       IN sqlite4VdbeShortKey(made[i].key, Len(full), k) = [n |-> Len(part), fields |-> k]
  /\ ~ ix.seq => \A i, j \in DOMAIN made :
       Comparable(made[i].row, made[j].row) /\ ~ OpenEnded(made[i].row) =>
         LET d == FirstDifference(made[i].row, made[j].row)
         IN nEq(made[i].key, made[j].key) = IF d = 0 THEN ix.nIn ELSE d - 1

(* The rows a GROUP BY sorter gives in one group, a run of entries with the same *)
(* key once OP_GrpCompare has taken the sequence number off, are the rows that   *)
(* compare equal: no group is split and no two are joined, although the sequence *)
(* numbers do not sort in order once they take more than one byte.               *)
GroupsAreClasses ==
  ix.seq => \A k, l \in DOMAIN made :
    LET r == made[Sorted[k]].row
        s == made[Sorted[l]].row
    IN Comparable(r, s) => (GroupAt(Sorted, k) = GroupAt(Sorted, l) <=> RowOrder(r, s) = 0)

(* What a record or a key was made of is what is read back: every column of the  *)
(* record by OP_Column, the default for the columns an older record lacks, and   *)
(* the integer that the first column of a table's key holds by OP_Rowid, at      *)
(* every size of integer, number and text.                                       *)
ReadsBack ==
  \A i \in DOMAIN made :
    LET e == made[i]
        rest == SubSeq(e.key, sqlite4GetVarint64(e.key).n + 1, Len(e.key))
        d == sqlite4VdbeDecodeNumericKey(rest)
        v == e.row[1]
    IN /\ \A k \in 1..ix.nIn : sqlite4VdbeDecoderGetColumn(e.data, k - 1, Null) = e.row[k]
       /\ sqlite4VdbeDecoderGetColumn(e.data, ix.nIn, Text(<<68>>)) = Text(<<68>>)
       /\ v.integer =>
            /\ N!sqlite4_num_to_int64(d.num) = N!sqlite4_num_to_int64(v.num)
            /\ d.n = Len(encodeNumericKey(v.num))
=============================================================================

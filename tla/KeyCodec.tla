----------------------------- MODULE KeyCodec -----------------------------
(***************************************************************************)
(* How values become the bytes of keys and records: vdbecodec.c, varint.c, *)
(* the built-in collations of main.c and sqlite4MemCompare().              *)
(*                                                                         *)
(* A byte is 0..255 and an encoding is a sequence of bytes.  A value is    *)
(* a record of t ("null", "num", "text" or "blob"), a number and a         *)
(* sequence of bytes; integer is the flag MEM_Int.  Text is UTF-8.  A      *)
(* KeyInfo is nField, the sort orders so ("asc" or "desc") and the         *)
(* collations coll.                                                        *)
(***************************************************************************)
EXTENDS Integers, Sequences, SequencesExt

\* The words of the numbers in keys; the arithmetic on them is in NumCalc.
N == INSTANCE Num WITH Half <- 32768, MX_EXP <- 999, Far <- 40, RoundFar <- 30

Zero == N!Number(0, 0, 0)
Null == [t |-> "null", integer |-> FALSE, num |-> Zero, s |-> <<>>]
Integer(i) == [t |-> "num", integer |-> TRUE, num |-> N!sqlite4_num_from_int64(i), s |-> <<>>]
Real(x) == [t |-> "num", integer |-> FALSE, num |-> x, s |-> <<>>]
Text(s) == [t |-> "text", integer |-> FALSE, num |-> Zero, s |-> s]
Blob(s) == [t |-> "blob", integer |-> FALSE, num |-> Zero, s |-> s]

Invert(s) == [i \in DOMAIN s |-> 255 - s[i]]

\* x, below 2^31, as n bytes, the most significant first.
BigEndian(x, n) == [i \in 1..n |-> (x \div 256^(n - i)) % 256]

---------------------------------------------------------------------------
(* varint.c, for what fits in 31 bits.                                     *)

sqlite4PutVarint64(x) ==
  CASE x <= 240 -> <<x>>
    [] x > 240 /\ x <= 2287 -> <<(x - 240) \div 256 + 241, (x - 240) % 256>>
    [] x > 2287 /\ x <= 67823 -> <<249, (x - 2288) \div 256, (x - 2288) % 256>>
    [] x > 67823 /\ x <= 16777215 -> <<250>> \o BigEndian(x, 3)
    [] OTHER -> <<251>> \o BigEndian(x, 4)

\* [n, x]: the size, 0 when z is too short, and the value.
sqlite4GetVarint64(z) ==
  LET None == [n |-> 0, x |-> 0]
      need == IF z[1] <= 240 THEN 1 ELSE IF z[1] <= 248 THEN 2 ELSE z[1] - 246
  IN CASE z = <<>> -> None
       [] z # <<>> /\ Len(z) < need -> None
       [] z # <<>> /\ Len(z) >= need /\ need = 1 -> [n |-> 1, x |-> z[1]]
       [] z # <<>> /\ Len(z) >= need /\ need = 2 ->
            [n |-> 2, x |-> (z[1] - 241) * 256 + z[2] + 240]
       [] z # <<>> /\ Len(z) >= need /\ need = 3 ->
            [n |-> 3, x |-> 2288 + 256 * z[2] + z[3]]
       [] OTHER ->
            [n |-> need, x |-> FoldLeft(LAMBDA v, b : v * 256 + b, 0, SubSeq(z, 2, need))]

---------------------------------------------------------------------------
(* Numbers in keys.                                                        *)

\* The base-100 digits of m, the least significant first.
RECURSIVE Centimals(_)
Centimals(m) == IF m = 0 THEN <<>> ELSE <<m % 100>> \o Centimals(m \div 100)

RECURSIVE NoTrailingZeros(_)
NoTrailingZeros(x) ==
  IF x.m % 10 = 0 THEN NoTrailingZeros([x EXCEPT !.m = @ \div 10, !.e = @ + 1]) ELSE x

\* Division and remainder of C: towards zero.
CDiv(a, b) == IF a < 0 THEN -((-a) \div b) ELSE a \div b
COdd(a) == a % 2 # 0

\* Mutant: the exponent is not made even before it is halved.
DigitsAndExponentOdd(num) ==
  LET x == NoTrailingZeros(num)
      d == IF COdd(x.e) THEN <<10 * (x.m % 10)>> \o Centimals(x.m \div 10) ELSE Centimals(x.m)
  IN [d |-> d, e |-> Len(d) + CDiv(x.e, 2)]

\* aDigit[], the least significant digit first, and the exponent: for an odd
\* exponent the last digit is shifted one place.
DigitsAndExponent(num) ==
  LET x == NoTrailingZeros(num)
      odd == COdd(x.e)
      d == IF odd THEN <<10 * (x.m % 10)>> \o Centimals(x.m \div 10) ELSE Centimals(x.m)
      e == IF odd THEN x.e - 1 ELSE x.e
  IN [d |-> d, e |-> Len(d) + CDiv(e, 2)]

encodeNumericKey(num) ==
  LET de == DigitsAndExponent(num)
      e == de.e
      pos == num.sign = 0
      head == CASE e >= 11 -> IF pos THEN <<34>> \o sqlite4PutVarint64(e)
                              ELSE <<8>> \o Invert(sqlite4PutVarint64(e))
                [] e >= 0 /\ e < 11 -> IF pos THEN <<23 + e>> ELSE <<19 - e>>
                [] OTHER -> IF pos THEN <<22>> \o Invert(sqlite4PutVarint64(-e))
                            ELSE <<20>> \o sqlite4PutVarint64(-e)
      m == [i \in 1..Len(de.d) |->
              2 * de.d[Len(de.d) + 1 - i] + (IF i # Len(de.d) THEN 1 ELSE 0)]
  IN CASE N!sqlite4_num_isnan(num) -> <<6>>
       [] num.m = 0 /\ ~ N!sqlite4_num_isnan(num) -> <<21>>
       [] N!sqlite4_num_isinf(num) -> IF pos THEN <<35>> ELSE <<7>>
       [] OTHER -> head \o (IF pos THEN m ELSE Invert(m))

\* The bytes of M up to the one with the low bit clear.
RECURSIVE Mantissa(_, _, _, _)
Mantissa(a, i, m, e) ==
  IF a[i] % 2 = 1
  THEN Mantissa(a, i + 1, m * 100 + a[i] \div 2, e - 1)
  ELSE [n |-> i, num |-> N!Number(0, m * 100 + a[i] \div 2, 2 * (e - 1))]

\* The exponent after the first byte of a: at most two bytes are read.
VarintAt(a, inv) ==
  LET two == SubSeq(a, 2, IF Len(a) < 3 THEN Len(a) ELSE 3)
  IN sqlite4GetVarint64(IF inv THEN Invert(two) ELSE two)

\* [n, num]: the bytes read, 0 on an error, and the number.  A key starts
\* with the same byte whether it is descending or not, complemented.
sqlite4VdbeDecodeNumericKey(a) ==
  LET c == a[1]
      Fixed(num) == [n |-> 1, num |-> num]
      Read(i, e, sign, xor) ==
        LET r == Mantissa(IF xor THEN Invert(a) ELSE a, i, 0, e)
        IN [r EXCEPT !.num.sign = sign, !.n = IF r.num.m = 0 THEN 0 ELSE @]
      v == VarintAt(a, FALSE)
      w == VarintAt(a, TRUE)
  IN CASE c \in {6, 249} -> Fixed(N!Number(0, 0, 1000))
       [] c \in {7, 248} -> Fixed(N!Number(1, 1, 1000))
       [] c \in {21, 234} -> Fixed(Zero)
       [] c \in {35, 220} -> Fixed(N!Number(0, 1, 1000))
       [] c \in 9..19 -> Read(2, 19 - c, 1, TRUE)
       [] c \in 236..246 -> Read(2, c - 236, 1, FALSE)
       [] c \in 23..33 -> Read(2, c - 23, 0, FALSE)
       [] c \in 222..232 -> Read(2, 232 - c, 0, TRUE)
       [] c \in {20, 233} -> Read(2 + v.n, -v.x, 0, TRUE)
       [] c \in {22, 235} -> Read(2 + w.n, -w.x, 0, FALSE)
       [] c \in {8, 221} -> Read(2 + w.n, w.x, 0, TRUE)
       [] c \in {34, 247} -> Read(2 + v.n, v.x, 0, FALSE)
       [] OTHER -> [n |-> 0, num |-> Zero]

---------------------------------------------------------------------------
(* Collations and the comparison of values.                                *)

\* memcmp() over the length of the shorter.
memcmp(s, t) ==
  LET D == {i \in 1..Min({Len(s), Len(t)}) : s[i] # t[i]}
  IN IF D = {} THEN 0 ELSE s[Min(D)] - t[Min(D)]

\* The order of the keys in a store.
KeyCompare(s, t) == IF memcmp(s, t) # 0 THEN memcmp(s, t) ELSE Len(s) - Len(t)

tolower(b) == IF b \in 65..90 THEN b + 32 ELSE b
Lower(s) == [i \in DOMAIN s |-> tolower(s[i])]

RECURSIVE RTrim(_)
RTrim(s) == IF s # <<>> /\ Last(s) = 32 THEN RTrim(Front(s)) ELSE s

allSpaces(s) == \A i \in DOMAIN s : s[i] = 32

xMkKey(coll, s) ==
  CASE coll = "RTRIM" -> RTrim(s)
    [] coll = "NOCASE" -> Lower(s)
    [] coll = "BINARY" ->   \* no callback: the text up to a zero byte
         LET Z == {i \in DOMAIN s : s[i] = 0}
         IN IF Z = {} THEN s ELSE SubSeq(s, 1, Min(Z) - 1)

binCollFunc(pad, s, t) ==
  LET n == Min({Len(s), Len(t)})
      Rest(x) == SubSeq(x, n + 1, Len(x))
  IN CASE memcmp(s, t) # 0 -> memcmp(s, t)
       [] memcmp(s, t) = 0 /\ pad /\ allSpaces(Rest(s)) /\ allSpaces(Rest(t)) -> 0
       [] OTHER -> Len(s) - Len(t)

xCmp(coll, s, t) ==
  IF coll = "NOCASE" THEN KeyCompare(Lower(s), Lower(t))
  ELSE binCollFunc(coll = "RTRIM", s, t)

sqlite4MemCompare(v, w, coll) ==
  LET nulls == {x \in {v, w} : x.t = "null"}
      Class(x) == CASE x.t = "num" -> 1 [] x.t = "text" -> 2 [] x.t = "blob" -> 3
  IN CASE nulls # {} -> (IF v.t = "null" THEN -1 ELSE 0) + (IF w.t = "null" THEN 1 ELSE 0)
       [] nulls = {} /\ v.t # w.t -> Class(v) - Class(w)
       [] nulls = {} /\ v.t = w.t /\ v.t = "num" ->
            N!sqlite4_num_compare(v.num, w.num) - 2
       [] nulls = {} /\ v.t = w.t /\ v.t = "text" -> xCmp(coll, v.s, w.s)
       [] OTHER -> KeyCompare(v.s, w.s)

---------------------------------------------------------------------------
(* Keys.                                                                   *)

\* A blob that other columns follow: seven bits to a byte, the top bit set.
BlobBits(s) ==
  LET bit(k) == IF k > 8 * Len(s) THEN 0
                ELSE (s[(k - 1) \div 8 + 1] \div 2^(7 - ((k - 1) % 8))) % 2
      n == (8 * Len(s) + 6) \div 7
  IN [i \in 1..n |-> FoldLeft(LAMBDA v, j : 2 * v + bit(7 * (i - 1) + j), 1,
                              <<1, 2, 3, 4, 5, 6, 7>>)]

encodeOneKeyValue(v, sortOrder, isLastValue, coll) ==
  LET z == CASE v.t = "null" -> <<5>>
             [] v.t = "num" -> encodeNumericKey(v.num)
             [] v.t = "text" -> <<36>> \o xMkKey(coll, v.s) \o <<0>>
             [] v.t = "blob" /\ isLastValue -> <<38>> \o v.s
             [] OTHER -> <<37>> \o BlobBits(v.s) \o <<0>>
  IN IF sortOrder = "desc" THEN Invert(z) ELSE z

\* The columns aIn, which may be fewer than ki has fields, of table iTabno.
sqlite4VdbeEncodeKey(aIn, iTabno, ki) ==
  sqlite4PutVarint64(iTabno) \o
  FlattenSeq([i \in DOMAIN aIn |->
    encodeOneKeyValue(aIn[i], ki.so[i], i = ki.nField, ki.coll[i])])

\* Mutant: the exponent is taken to be one byte long.
MantissaStartOne(z, p) ==
  IF z[p] \in {34, 221, 20, 235, 22, 233, 8, 247} THEN p + 2 ELSE p + 1

\* Where the mantissa starts in the number at p: after the exponent of a large
\* or small number, a varint, complemented or not.
MantissaStart(z, p) ==
  LET c == z[p]
      d == IF c \in {22, 8, 221, 235} THEN 255 - z[p + 1] ELSE z[p + 1]
      skip == IF d > 248 THEN d - 246 ELSE IF d > 240 THEN 2 ELSE 1
  IN IF c \in {34, 221, 20, 235, 22, 233, 8, 247} THEN p + 1 + skip ELSE p + 1

\* Where the field that starts at p ends: the position after it.
FieldEnd(z, p, pEnd) ==
  LET c == z[p]
      After(from, P(_)) == Min({i \in from..Len(z) : P(z[i])}) + 1
  IN CASE c \in {5, 250, 6, 249, 7, 248, 21, 234, 35, 220} -> p + 1
       [] c \in {36, 37} -> After(p + 1, LAMBDA b : b = 0)
       [] c \in {219, 218} -> After(p + 1, LAMBDA b : b = 255)
       [] c \in {38, 217} -> pEnd
       [] OTHER -> IF c < 21 \/ (c > 220 /\ c < 234)
                   THEN After(MantissaStart(z, p), LAMBDA b : b % 2 = 1)
                   ELSE After(MantissaStart(z, p), LAMBDA b : b % 2 = 0)

RECURSIVE SkipFields(_, _, _, _, _)
SkipFields(z, p, pEnd, i, nField) ==
  IF i < nField /\ p < pEnd
  THEN LET q == FieldEnd(z, p, pEnd)
       IN IF q > pEnd THEN [n |-> q - 1, fields |-> i]
          ELSE SkipFields(z, q, pEnd, i + 1, nField)
  ELSE [n |-> p - 1, fields |-> i]

\* The length of the first nField fields of the key in the first nKey bytes
\* of z, and the number of complete fields.
sqlite4VdbeShortKey(z, nKey, nField) ==
  SkipFields(z, 1 + sqlite4GetVarint64(z).n, nKey + 1, 0, nField)

---------------------------------------------------------------------------
(* Records.                                                                *)

\* Mutant: the bound of a byte is one too high.
significantBytesHigh(v) ==
  LET Fits(n) == IF v < 0 THEN v \div 256^(n - 1) >= -128 ELSE v <= 128 * 256^(n - 1)
  IN CHOOSE n \in 1..4 : Fits(n) /\ \A k \in 1..(n - 1) : ~ Fits(k)

\* The positive bounds are 127 * 256^k, not 2^(8k+7) - 1.
significantBytes(v) ==
  LET Fits(n) == IF v < 0 THEN v \div 256^(n - 1) >= -128 ELSE v <= 127 * 256^(n - 1)
  IN CHOOSE n \in 1..4 : Fits(n) /\ \A k \in 1..(n - 1) : ~ Fits(k)

\* Bytes of a signed integer; and an integer from its bytes.
IntBytes(v, n) == [i \in 1..n |-> (v \div 256^(n - i)) % 256]
IntOf(z) ==
  FoldLeft(LAMBDA v, b : v * 256 + b, IF z[1] >= 128 THEN z[1] - 256 ELSE z[1], Tail(z))

\* A first byte that a char compares as less than 3 gets a zero in front.
Marked(s) == s # <<>> /\ (s[1] < 3 \/ s[1] >= 128)

NumBytes(x) ==
  sqlite4PutVarint64((IF x.e < 0 THEN -4 * x.e + 2 ELSE 4 * x.e) + x.sign)
    \o sqlite4PutVarint64(x.m)

Payload(v) ==
  LET i == N!sqlite4_num_to_int64(v.num).i
  IN CASE v.t = "null" -> <<>>
       [] v.t = "num" /\ v.integer -> IntBytes(i, significantBytes(i))
       [] v.t = "num" /\ ~ v.integer -> NumBytes(v.num)
       [] v.t = "text" -> IF Marked(v.s) THEN <<0>> \o v.s ELSE v.s
       [] OTHER -> v.s

HeaderCode(v) ==
  LET n == Len(Payload(v))
  IN CASE v.t = "null" -> <<0>>
       [] v.t = "num" -> <<IF v.integer THEN n + 2 ELSE n + 9>>
       [] v.t = "text" -> sqlite4PutVarint64(22 + 4 * n)
       [] OTHER -> sqlite4PutVarint64(23 + 4 * n)

sqlite4VdbeEncodeData(aIn) ==
  LET hdr == FlattenSeq([i \in DOMAIN aIn |-> HeaderCode(aIn[i])])
  IN sqlite4PutVarint64(Len(hdr)) \o hdr \o
     FlattenSeq([i \in DOMAIN aIn |-> Payload(aIn[i])])

PayloadSize(type) ==
  CASE type >= 22 -> (type - 22) \div 4
    [] type <= 2 -> 0
    [] type >= 3 /\ type <= 10 -> type - 2
    [] OTHER -> type - 9

\* The number in the bytes z, NULL when they do not hold exactly one.
NumOf(z) ==
  LET e == sqlite4GetVarint64(z)
      m == sqlite4GetVarint64(SubSeq(z, e.n + 1, Len(z)))
      x == IF (e.x \div 2) % 2 = 1 THEN -(e.x \div 4) ELSE e.x \div 4
  IN IF e.n + m.n = Len(z) THEN Real(N!Number(e.x % 2, m.x, x)) ELSE Null

ColumnValue(type, z) ==
  CASE type = 0 -> Null
    [] type \in 1..2 -> Integer(type - 1)
    [] type \in 3..10 -> Integer(IntOf(z))
    [] type \in 11..21 -> NumOf(z)
    [] type >= 22 /\ (type - 22) % 4 = 0 ->
         Text(IF z # <<>> /\ z[1] <= 2 THEN Tail(z) ELSE z)
    [] OTHER -> Blob(z)

\* The columns still to pass, the place in the header and in the payload.
RECURSIVE ColumnAt(_, _, _, _, _, _)
ColumnAt(z, iVal, n, endHdr, ofst, default) ==
  LET type == sqlite4GetVarint64(SubSeq(z, n + 1, Len(z)))
      size == PayloadSize(type.x)
  IN CASE n >= endHdr -> default
       [] n < endHdr /\ iVal = 0 -> ColumnValue(type.x, SubSeq(z, ofst + 1, ofst + size))
       [] OTHER -> ColumnAt(z, iVal - 1, n + type.n, endHdr, ofst + size, default)

sqlite4VdbeDecoderGetColumn(z, iVal, default) ==
  LET h == sqlite4GetVarint64(z)
  IN ColumnAt(z, iVal, h.n, h.n + h.x, h.n + h.x, default)
=============================================================================

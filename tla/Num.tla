-------------------------------- MODULE Num --------------------------------
(***************************************************************************)
(* Decimal numbers: math.c.                                                *)
(*                                                                         *)
(* An sqlite4_num is sign, approx, e, m: the value (-1)^sign * m * 10^e,   *)
(* m an unsigned word.  An exponent above MX_EXP makes it infinite (m # 0) *)
(* or NaN (m = 0).  The word has Half * Half values (2^64 in the code);    *)
(* Far and RoundFar are the gaps, in decimal digits, beyond which the code *)
(* takes the smaller number for nothing (40 and 30 in the code).  Loops    *)
(* of the code are recursive operators.                                    *)
(***************************************************************************)
EXTENDS Integers

CONSTANTS Half, MX_EXP, Far, RoundFar

Word == Half * Half
TENTH_MAX == (Word - 1) \div 10
LARGEST_INT64 == Word \div 2 - 1
NAN_EXP == 2 * MX_EXP + 2

Number(sign, m, e) == [sign |-> sign, approx |-> 0, e |-> e, m |-> m]

\* The result is exact only if both operands are.
Or(a, b) == IF a = 1 \/ b = 1 THEN 1 ELSE 0
Xor(a, b) == IF a = b THEN 0 ELSE 1

sqlite4_num_isinf(A) == A.e > MX_EXP /\ A.m # 0
sqlite4_num_isnan(A) == A.e > MX_EXP /\ A.m = 0
Finite(A) == A.e <= MX_EXP

---------------------------------------------------------------------------
(* adjustExponent() and its three loops.                                   *)

RECURSIVE Strip(_, _)
Strip(B, e) ==
  IF e > B.e /\ B.m % 10 = 0
  THEN Strip([B EXCEPT !.m = @ \div 10, !.e = @ + 1], e)
  ELSE B

RECURSIVE Scale(_, _)
Scale(A, e) ==
  IF A.e > e /\ A.m <= TENTH_MAX
  THEN Scale([A EXCEPT !.m = @ * 10, !.e = @ - 1], e)
  ELSE A

\* Mutant: digits are dropped without a mark.
RECURSIVE TruncateSilently(_, _)
TruncateSilently(B, e) ==
  IF e > B.e THEN TruncateSilently([B EXCEPT !.m = @ \div 10, !.e = @ + 1], e) ELSE B

RECURSIVE Truncate(_, _)
Truncate(B, e) ==
  IF e > B.e
  THEN Truncate([B EXCEPT !.m = @ \div 10, !.e = @ + 1, !.approx = 1], e)
  ELSE B

\* For A.e >= B.e.
Align(A, B) ==
  CASE B.m = 0 -> <<A, [B EXCEPT !.e = A.e]>>
    [] B.m # 0 /\ A.m = 0 -> <<[A EXCEPT !.e = B.e], B>>
    [] B.m # 0 /\ A.m # 0 /\ A.e > B.e + Far ->
         <<A, [B EXCEPT !.approx = 1, !.e = A.e, !.m = 0]>>
    [] OTHER ->
         LET B1 == Strip(B, A.e)
             A1 == Scale(A, B1.e)
         IN <<A1, Truncate(B1, A1.e)>>

adjustExponent(A, B) ==
  IF A.e < B.e
  THEN LET p == Align(B, A) IN <<p[2], p[1]>>
  ELSE Align(A, B)

---------------------------------------------------------------------------
(* Addition and subtraction.                                               *)

\* The word overflows when the sum is Word or more.
AddMagnitudes(A, B) ==
  CASE ~ Finite(A) -> IF sqlite4_num_isnan(B) THEN B ELSE A
    [] Finite(A) /\ ~ Finite(B) -> B
    [] OTHER ->
         LET p == adjustExponent(A, B)
             a == p[1]
             b == p[2]
             approx == Or(a.approx, b.approx)
             lost == IF a.m % 10 # 0 THEN 1 ELSE approx
             up == [a EXCEPT !.approx = lost, !.m = @ \div 10, !.e = @ + 1]
         IN CASE a.m + b.m < Word ->
                   [a EXCEPT !.approx = approx, !.m = @ + b.m]
              [] a.m + b.m >= Word /\ ~ Finite(up) -> up
              [] OTHER -> [up EXCEPT !.m = @ + b.m \div 10,
                                     !.approx = IF b.m % 10 # 0 THEN 1 ELSE @]

SubMagnitudes(A, B) ==
  IF ~ Finite(A) \/ ~ Finite(B)
  THEN [A EXCEPT !.e = NAN_EXP, !.m = 0]
  ELSE LET p == adjustExponent(A, B)
           a == p[1]
           b == p[2]
           approx == Or(a.approx, b.approx)
       IN IF b.m > a.m
          THEN [b EXCEPT !.sign = 1 - @, !.m = @ - a.m, !.approx = approx]
          ELSE [a EXCEPT !.m = @ - b.m, !.approx = approx]

sqlite4_num_add(A, B) ==
  CASE A.sign = B.sign -> AddMagnitudes(A, B)
    [] A.sign # B.sign /\ A.sign = 1 -> SubMagnitudes(B, [A EXCEPT !.sign = 0])
    [] OTHER -> SubMagnitudes(A, [B EXCEPT !.sign = 0])

sqlite4_num_sub(A, B) ==
  IF A.sign # B.sign
  THEN AddMagnitudes(A, [B EXCEPT !.sign = A.sign])
  ELSE SubMagnitudes(A, B)

---------------------------------------------------------------------------
(* Multiplication.                                                         *)

multWillOverflow(x, y) ==
  LET xHi == x \div Half
      yHi == y \div Half
      xLo == x % Half
      yLo == y % Half
  IN xHi * yHi # 0 \/ xHi * yLo + yHi * xLo + (xLo * yLo) \div Half > Half - 1

RECURSIVE StripAll(_)
StripAll(A) ==
  IF A.m % 10 = 0 THEN StripAll([A EXCEPT !.m = @ \div 10, !.e = @ + 1]) ELSE A

\* A factor 5 of A and a factor 2 of B become a power of ten.
RECURSIVE Cancel(_, _)
Cancel(A, B) ==
  IF A.m % 5 = 0 /\ B.m % 2 = 0
  THEN Cancel([A EXCEPT !.m = @ \div 5, !.e = @ + 1], [B EXCEPT !.m = @ \div 2])
  ELSE <<A, B>>

RECURSIVE Product(_, _, _)
Product(A, B, approx) ==
  CASE ~ multWillOverflow(A.m, B.m) ->
         [sign |-> Xor(A.sign, B.sign), approx |-> approx,
          m |-> A.m * B.m, e |-> A.e + B.e]
    [] multWillOverflow(A.m, B.m) /\ A.m > B.m ->
         Product([A EXCEPT !.m = @ \div 10, !.e = @ + 1], B, 1)
    [] OTHER -> Product(A, [B EXCEPT !.m = @ \div 10, !.e = @ + 1], 1)

sqlite4_num_mul(A, B) ==
  CASE ~ Finite(A) \/ ~ Finite(B) ->
         [sign |-> Xor(A.sign, B.sign), approx |-> 0, e |-> MX_EXP + 1,
          m |-> IF A.m # 0 /\ B.m # 0 THEN 1 ELSE 0]
    [] Finite(A) /\ Finite(B) /\ A.m = 0 -> A
    [] Finite(A) /\ Finite(B) /\ A.m # 0 /\ B.m = 0 -> B
    [] OTHER ->
         LET p == Cancel(StripAll(A), StripAll(B))
             q == Cancel(p[2], p[1])
         IN Product(q[2], q[1], Or(A.approx, B.approx))

---------------------------------------------------------------------------
(* Division.                                                               *)

RECURSIVE ScaleAll(_)
ScaleAll(A) ==
  IF A.m < TENTH_MAX THEN ScaleAll([A EXCEPT !.m = @ * 10, !.e = @ - 1]) ELSE A

sqlite4_num_div(A, B) ==
  CASE ~ Finite(A) -> [A EXCEPT !.m = 0]
    [] Finite(A) /\ sqlite4_num_isinf(B) ->
         [sign |-> 0, approx |-> 1, e |-> 0, m |-> 0]
    [] Finite(A) /\ sqlite4_num_isnan(B) -> B
    [] Finite(A) /\ Finite(B) /\ B.m = 0 ->
         [sign |-> Xor(A.sign, B.sign), approx |-> 1, e |-> NAN_EXP, m |-> 0]
    [] Finite(A) /\ Finite(B) /\ B.m # 0 /\ A.m = 0 -> A
    [] OTHER ->
         LET a == ScaleAll(A)
             b == StripAll(B)
         IN [sign |-> Xor(A.sign, B.sign),
             approx |-> IF a.m % b.m # 0 THEN 1 ELSE Or(A.approx, B.approx),
             m |-> a.m \div b.m, e |-> a.e - b.e]

---------------------------------------------------------------------------
(* Comparison, rounding and integers.                                      *)

\* 1 for A < B, 2 for A = B, 3 for A > B, 0 for what cannot be compared.
sqlite4_num_compare(A, B) ==
  LET p == adjustExponent(A, B)
      a == IF A.sign = 1 THEN p[2] ELSE p[1]
      b == IF A.sign = 1 THEN p[1] ELSE p[2]
      Order(x, y) == IF x < y THEN 1 ELSE 3
  IN CASE sqlite4_num_isnan(A) \/ sqlite4_num_isnan(B) -> 0
       [] sqlite4_num_isinf(A) /\ ~ sqlite4_num_isnan(B) ->
            IF sqlite4_num_isinf(B) /\ A.sign = B.sign THEN 0
            ELSE IF A.sign = 1 THEN 1 ELSE 3
       [] Finite(A) /\ sqlite4_num_isinf(B) -> IF B.sign = 1 THEN 3 ELSE 1
       [] Finite(A) /\ Finite(B) /\ A.sign # B.sign ->
            IF A.m = 0 /\ B.m = 0 THEN 2 ELSE IF A.sign = 1 THEN 1 ELSE 3
       [] OTHER ->
            IF a.e # b.e THEN Order(a.e, b.e)
            ELSE IF a.m # b.m THEN Order(a.m, b.m) ELSE 2

RECURSIVE DropDigits(_, _)
DropDigits(x, e) ==
  IF x.e < e THEN DropDigits([x EXCEPT !.m = @ \div 10, !.e = @ + 1], e) ELSE x

\* At most N digits after the decimal point.
sqlite4_num_round(x, n) ==
  LET N == IF n < 0 THEN 0 ELSE n
      y == DropDigits(x, -(N + 1))
  IN CASE x.e >= -N -> x
       [] x.e < -(N + RoundFar) -> Number(0, 0, 0)
       [] OTHER -> [y EXCEPT !.m = (@ + 5) \div 10, !.e = @ + 1]

sqlite4_num_from_int64(n) ==
  Number(IF n < 0 THEN 1 ELSE 0, IF n < 0 THEN -n ELSE n, 0)

\* The word after the loops of sqlite4_num_to_int64(): [over, lossy, m].
RECURSIVE IntWord(_, _, _)
IntWord(m, e, lossy) ==
  CASE e = 0 \/ m = 0 -> [over |-> FALSE, lossy |-> lossy, m |-> m]
    [] e > 0 /\ m # 0 ->
         IF m > LARGEST_INT64 \div 10
         THEN [over |-> TRUE, lossy |-> 1, m |-> m]
         ELSE IntWord(m * 10, e - 1, lossy)
    [] OTHER -> IntWord(m \div 10, e + 1, IF m % 10 # 0 THEN 1 ELSE lossy)

\* [i, lossy]: rounded towards 0 and clamped to the signed range.
sqlite4_num_to_int64(x) ==
  LET w == IntWord(x.m, x.e, x.approx)
      over == w.over \/ w.m > LARGEST_INT64 + x.sign
  IN IF over
     THEN [i |-> IF x.sign = 1 THEN -LARGEST_INT64 - 1 ELSE LARGEST_INT64,
           lossy |-> 1]
     ELSE [i |-> IF x.sign = 1 THEN -w.m ELSE w.m, lossy |-> w.lossy]
=============================================================================

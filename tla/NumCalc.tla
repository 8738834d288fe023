------------------------------ MODULE NumCalc ------------------------------
(***************************************************************************)
(* A register on which the arithmetic opcodes of vdbe.c work: OP_Add,      *)
(* OP_Subtract, OP_Multiply, OP_Divide and OP_Remainder, and round() of    *)
(* func.c.  Each step applies one operation to the register and an         *)
(* operand.  A value is NULL, an integer (MEM_Int) or a number (MEM_Real). *)
(* Integers are computed by util.c in the signed half of the word, and as  *)
(* decimal numbers when that overflows.                                    *)
(***************************************************************************)
EXTENDS Num

CONSTANTS Operands,     \* the values a program works with
          MaxOps        \* bound on the operations of a behaviour

VARIABLES acc,          \* the register
          last          \* history: the last operation, its operands and result

calcVars == <<acc, last>>

NULL == [type |-> "null", num |-> Number(0, 0, 0)]
IntMem(i) == [type |-> "int", num |-> sqlite4_num_from_int64(i)]
RealMem(x) == [type |-> "real", num |-> x]

SMALLEST_INT64 == -LARGEST_INT64 - 1

\* Division of C, towards zero, and its remainder.
Quotient(a, b) ==
  LET q == (IF a < 0 THEN -a ELSE a) \div (IF b < 0 THEN -b ELSE b)
  IN IF (a < 0) = (b < 0) THEN q ELSE -q
Remains(a, b) == a - b * Quotient(a, b)

\* [over, i]: whether the call reports an overflow, and the integer otherwise.
sqlite4AddInt64(iA, iB) ==
  [over |-> IF iB >= 0 THEN iA > 0 /\ LARGEST_INT64 - iA < iB
            ELSE iA < 0 /\ -(iA + LARGEST_INT64) > iB + 1,
   i |-> iA + iB]

sqlite4SubInt64(iA, iB) ==
  IF iB = SMALLEST_INT64 THEN [over |-> iA >= 0, i |-> iA - iB]
  ELSE sqlite4AddInt64(iA, -iB)

\* Mutant: the product of the high and low halves may need one bit more.
sqlite4MulInt64Wide(iA, iB) ==
  LET a1 == Quotient(iA, Half)
      b1 == Quotient(iB, Half)
      r == a1 * Remains(iB, Half) + Remains(iA, Half) * b1
      s == sqlite4AddInt64(r * Half, Remains(iA, Half) * Remains(iB, Half))
  IN IF a1 * b1 # 0 \/ r < -Half \/ r >= Half THEN [over |-> TRUE, i |-> 0] ELSE s

\* By halves of the word: the product of the high and low halves must fit in one.
sqlite4MulInt64(iA, iB) ==
  LET a1 == Quotient(iA, Half)
      b1 == Quotient(iB, Half)
      r == a1 * Remains(iB, Half) + Remains(iA, Half) * b1
      s == sqlite4AddInt64(r * Half, Remains(iA, Half) * Remains(iB, Half))
  IN IF a1 * b1 # 0 \/ r < -(Half \div 2) \/ r >= Half \div 2
     THEN [over |-> TRUE, i |-> 0] ELSE s

\* iB op iA for two integers, iA # 0 in a division.
IntMath(op, iB, iA) ==
  CASE op = "add" -> sqlite4AddInt64(iB, iA)
    [] op = "sub" -> sqlite4SubInt64(iB, iA)
    [] op = "mul" -> sqlite4MulInt64(iB, iA)
    [] op = "div" -> IF iA = -1 /\ iB = SMALLEST_INT64 THEN [over |-> TRUE, i |-> 0]
                     ELSE [over |-> FALSE, i |-> Quotient(iB, iA)]
    [] op = "rem" -> [over |-> FALSE, i |-> Remains(iB, IF iA = -1 THEN 1 ELSE iA)]

\* num2 op num1 for numbers; a remainder by 0 is NaN.
FpMath(op, num2, num1) ==
  LET iA == sqlite4_num_to_int64(num1).i
      iB == sqlite4_num_to_int64(num2).i
  IN CASE op = "add" -> sqlite4_num_add(num1, num2)
       [] op = "sub" -> sqlite4_num_sub(num2, num1)
       [] op = "mul" -> sqlite4_num_mul(num1, num2)
       [] op = "div" -> sqlite4_num_div(num2, num1)
       [] op = "rem" ->
            IF iA = 0 THEN Number(0, 0, NAN_EXP)
            ELSE sqlite4_num_from_int64(Remains(iB, IF iA = -1 THEN 1 ELSE iA))

sqlite4VdbeIntegerAffinity(mem) ==
  LET i == sqlite4_num_to_int64(mem.num)
  IN IF i.lossy = 0 THEN IntMem(i.i) ELSE mem

FpResult(op, in2, in1) ==
  LET r == FpMath(op, in2.num, in1.num)
  IN CASE sqlite4_num_isnan(r) -> NULL
       [] ~ sqlite4_num_isnan(r) /\ "real" \in {in1.type, in2.type} -> RealMem(r)
       [] OTHER -> sqlite4VdbeIntegerAffinity(RealMem(r))

\* in2 op in1.
Arithmetic(op, in2, in1) ==
  LET iA == sqlite4_num_to_int64(in1.num).i
      iB == sqlite4_num_to_int64(in2.num).i
      ints == in1.type = "int" /\ in2.type = "int"
      byZero == op \in {"div", "rem"} /\ iA = 0
      r == IF ints /\ ~ byZero THEN IntMath(op, iB, iA) ELSE [over |-> TRUE, i |-> 0]
  IN CASE "null" \in {in1.type, in2.type} \/ (ints /\ byZero) -> NULL
       [] ~ r.over -> IntMem(r.i)
       [] OTHER -> FpResult(op, in2, in1)

NoOp == [op |-> "none", a |-> NULL, b |-> NULL, r |-> NULL, n |-> 0]

CalcInit == acc \in Operands /\ last = NoOp

Calculate ==
  /\ last.n < MaxOps
  /\ \E op \in {"add", "sub", "mul", "div", "rem"}, b \in Operands :
       /\ acc' = Arithmetic(op, acc, b)
       /\ last' = [op |-> op, a |-> acc, b |-> b, r |-> acc', n |-> last.n + 1]

\* round(X, Y): a negative Y counts as 0.
Round ==
  /\ last.n < MaxOps
  /\ \E n \in -1..2 :
       /\ acc' = IF acc.type = "null" THEN NULL
                 ELSE RealMem(sqlite4_num_round(acc.num, IF n < 0 THEN 0 ELSE n))
       /\ last' = [op |-> "round", a |-> acc, b |-> IntMem(n), r |-> acc', n |-> last.n + 1]

CalcNext == Calculate \/ Round

---------------------------------------------------------------------------
(* The exact value of a finite number, as a reduced fraction.              *)

RECURSIVE Gcd(_, _)
Gcd(x, y) == IF y = 0 THEN x ELSE Gcd(y, x % y)

Abs(x) == IF x < 0 THEN -x ELSE x

Sign(x) == IF x < 0 THEN -1 ELSE 1

Fraction(n, d) ==
  LET g == Gcd(Abs(n), d) IN <<Sign(n) * (Abs(n) \div g), d \div g>>

Value(x) ==
  LET m == IF x.sign = 1 THEN -x.m ELSE x.m
  IN IF x.e >= 0 THEN Fraction(m * 10^x.e, 1) ELSE Fraction(m, 10^(-x.e))

Plus(p, q) ==
  LET g == Gcd(p[2], q[2])
  IN Fraction(p[1] * (q[2] \div g) + q[1] * (p[2] \div g), (p[2] \div g) * q[2])
Minus(p, q) == Plus(p, <<-q[1], q[2]>>)
Times(p, q) == Fraction(p[1] * q[1], p[2] * q[2])
Over(p, q) == Fraction(Sign(q[1]) * p[1] * q[2], p[2] * Abs(q[1]))

\* Half a unit and more of the last place goes up, away from zero.
Nearest(p, n) ==
  LET t == (2 * Abs(p[1]) * 10^n + p[2]) \div (2 * p[2])
  IN Fraction(Sign(p[1]) * t, 10^n)

Exact(l) ==
  LET p == Value(l.a.num)
      q == Value(l.b.num)
  IN CASE l.op = "add" -> Plus(p, q)
       [] l.op = "sub" -> Minus(p, q)
       [] l.op = "mul" -> Times(p, q)
       [] l.op = "div" -> Over(p, q)
       [] l.op = "round" -> Nearest(p, IF l.b.num.sign = 1 THEN 0 ELSE l.b.num.m)

\* x < y: of two significands, the one Far + 1 places to the left is larger.
Less(x, y) ==
  LET Signed(z) == IF z.sign = 1 THEN -z.m ELSE z.m
      g == x.e - y.e
  IN CASE x.m = 0 \/ y.m = 0 \/ g = 0 -> Signed(x) < Signed(y)
       [] x.m # 0 /\ y.m # 0 /\ g > 0 ->
            IF g > Far THEN x.sign = 1 ELSE Signed(x) * 10^g < Signed(y)
       [] OTHER ->
            IF -g > Far THEN y.sign = 0 ELSE Signed(x) < Signed(y) * 10^(-g)

ZeroExactly(x) == x.m = 0 /\ x.approx = 0

Truncated(v) == Sign(v[1]) * (Abs(v[1]) \div v[2])
InRange(i) == i >= SMALLEST_INT64 /\ i <= LARGEST_INT64

(* A number that is not marked approximate is the exact result, at every limit *)
(* of the significand and of the exponent: no digit is dropped, by aligning    *)
(* two exponents (adjustExponent), by an overflow of the word                  *)
(* (sqlite4_num_add, sqlite4_num_mul) or by a division, without approx being   *)
(* set, and an approximate operand marks the result, unless zero makes it      *)
(* irrelevant.  Comparison and conversion to an integer agree with the exact   *)
(* values for every finite number, although both drop digits on the way.       *)
NumbersExact ==
  LET a == last.a.num
      b == last.b.num
      r == last.r.num
  IN /\ last.op \notin {"none", "rem"} /\ last.r.type = "real" /\ Finite(r) /\ r.approx = 0 =>
          \/ /\ Finite(a) /\ a.approx = 0
             /\ Finite(b) /\ b.approx = 0
             /\ Value(r) = Exact(last)
          \/ last.op = "mul" /\ (ZeroExactly(a) \/ ZeroExactly(b)) /\ r.m = 0
          \/ last.op = "div" /\ ZeroExactly(a) /\ r.m = 0
          \/ last.op = "round" /\ a.approx = 1 /\ r.m = 0
     /\ acc.type # "null" /\ Finite(acc.num) =>
          /\ \A o \in Operands : Finite(o.num) =>
               sqlite4_num_compare(acc.num, o.num) =
                 (IF Less(acc.num, o.num) THEN 1 ELSE IF Less(o.num, acc.num) THEN 3 ELSE 2)
          /\ LET v == Value(acc.num)
                 t == Truncated(v)
                 c == IF InRange(t) THEN t ELSE IF t > 0 THEN LARGEST_INT64 ELSE SMALLEST_INT64
                 i == sqlite4_num_to_int64(acc.num)
             IN /\ i.i = c
                /\ i.lossy = 0 <=> acc.num.approx = 0 /\ v = <<c, 1>>

(* Arithmetic on two integers gives the exact integer, division rounding       *)
(* towards zero, whenever that is in the signed range, and a number otherwise: *)
(* the overflow checks of util.c, made before the sum or the product, neither  *)
(* let a wrapped integer through nor, with the way back through                *)
(* sqlite4VdbeIntegerAffinity(), lose one that fits; only a division by zero   *)
(* gives NULL.                                                                 *)
IntegersExact ==
  last.op \in {"add", "sub", "mul", "div", "rem"} /\ last.a.type = "int" /\ last.b.type = "int" =>
    LET x == Value(last.a.num)[1]
        y == Value(last.b.num)[1]
        t == IF last.op = "rem" THEN x - y * Truncated(Over(<<x, 1>>, <<y, 1>>))
             ELSE Truncated(Exact(last))
    IN IF last.op \in {"div", "rem"} /\ y = 0 THEN last.r = NULL
       ELSE IF InRange(t) THEN last.r = IntMem(t) ELSE last.r.type = "real"
=============================================================================

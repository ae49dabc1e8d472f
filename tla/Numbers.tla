------------------------------ MODULE Numbers ------------------------------
(***************************************************************************)
(* Arithmetic and comparisons (src/builtins.c, src/include/number.h).  A   *)
(* number is an integer of limited width or a float.  Floats are quotients *)
(* num/den, exact but for one thing: an integer beyond FloatExact becomes  *)
(* the float next to it.  x/0 is an infinity, 0/0 no number.  What C       *)
(* leaves undefined has the outcome "undefined".                           *)
(***************************************************************************)
EXTENDS Values

CONSTANTS IntMax,      \* INT64_MAX
          FloatExact   \* 2^53: up to here every integer is a float, then every other one

ASSUME NumbersAssumption == IntMax \in Nat /\ FloatExact \in 1..IntMax

Int64 == -IntMax - 1..IntMax

IntNum(i)     == [type |-> "int", i |-> i]
Float(n, d)   == [type |-> "float", num |-> n, den |-> d]
IsFloat(n)    == n.type = "float"
IsNumber(v)   == v.t = "num"

\* Of two neighbours the even one; enough up to 4 * FloatExact.
NearestFloat(i) ==
  IF i \in -FloatExact..FloatExact \/ i % 2 = 0 THEN i
  ELSE IF (i - 1) % 4 = 0 THEN i - 1 ELSE i + 1

\* sm_number_as_float
AsFloat(n) == IF IsFloat(n) THEN n ELSE Float(NearestFloat(n.i), 1)

\* Division of integers in C.
Magnitude(x)    == IF x < 0 THEN -x ELSE x
Truncated(a, b) == LET m == Magnitude(a) \div Magnitude(b) IN IF (a < 0) = (b < 0) THEN m ELSE -m

\* parse_integer: the sign comes last, after the tests for overflow.
RECURSIVE ParseDigits(_, _)
ParseDigits(n, digits) ==
  IF digits = << >> THEN Ok(n)
  ELSE IF IntMax \div 10 < n \/ IntMax - 10 * n < Head(digits) THEN Failed("InvalidLiteral")
  ELSE ParseDigits(10 * n + Head(digits), Tail(digits))

ParseInteger(negative, digits) ==
  LET r == ParseDigits(0, digits) IN
  IF IsOk(r) THEN Ok(Num(IntNum(IF negative THEN -r.v ELSE r.v))) ELSE r

Undefined == Failed("undefined")

IntStep(op, a, b) ==
  LET result == CASE op = "+" -> a + b
                  [] op = "-" -> a - b
                  [] op = "*" -> a * b
                  [] op = "/" -> IF b = 0 THEN IntMax + 1 ELSE Truncated(a, b) IN
  IF result \in Int64 THEN Ok(Num(IntNum(result))) ELSE Undefined

FloatStep(op, a, b) ==
  CASE op = "+" -> Float(a.num * b.den + b.num * a.den, a.den * b.den)
    [] op = "-" -> Float(a.num * b.den - b.num * a.den, a.den * b.den)
    [] op = "*" -> Float(a.num * b.num, a.den * b.den)
    [] op = "/" -> IF b.num < 0 THEN Float(-(a.num * b.den), -(a.den * b.num))
                   ELSE Float(a.num * b.den, a.den * b.num)

\* The second loop of each operation, when there has been a float.
RECURSIVE FoldFloats(_, _, _)
FoldFloats(op, res, items) ==
  IF items = << >> THEN Ok(Num(res))
  ELSE IF ~IsNumber(Head(items)) THEN Failed("InvalidArgument")
  ELSE FoldFloats(op, FloatStep(op, res, AsFloat(Head(items).num)), Tail(items))

RECURSIVE FoldSkipping(_, _, _)
FoldSkipping(op, res, items) ==   \* seeded fault: the float that ends the first loop is lost
  IF items = << >> THEN Ok(Num(res))
  ELSE IF ~IsNumber(Head(items)) THEN Failed("InvalidArgument")
  ELSE IF IsFloat(res) THEN FoldFloats(op, res, items)
  ELSE IF IsFloat(Head(items).num) THEN FoldFloats(op, AsFloat(res), Tail(items))
  ELSE LET r == IntStep(op, res.i, Head(items).num.i) IN
       IF IsOk(r) THEN FoldSkipping(op, r.v.num, Tail(items)) ELSE r

\* The first: it goes on as long as all are integers.
RECURSIVE Fold(_, _, _)
Fold(op, res, items) ==
  IF items = << >> THEN Ok(Num(res))
  ELSE IF ~IsNumber(Head(items)) THEN Failed("InvalidArgument")
  ELSE IF IsFloat(res) \/ IsFloat(Head(items).num) THEN FoldFloats(op, AsFloat(res), items)
  ELSE LET r == IntStep(op, res.i, Head(items).num.i) IN
       IF IsOk(r) THEN Fold(op, r.v.num, Tail(items)) ELSE r

\* + and *, of the list of the arguments; what follows a dot is not looked at.
Add(v) == Fold("+", IntNum(0), Items(v))
Mul(v) == Fold("*", IntNum(1), Items(v))

\* - and /, which have at least one argument: the first is where they start,
\* unless there is no other.
FromFirst(op, start, items) ==
  IF ~IsNumber(items[1]) THEN Failed("InvalidArgument")
  ELSE IF Len(items) = 1
  THEN Fold(op, IF IsFloat(items[1].num) THEN Float(start, 1) ELSE IntNum(start), items)
  ELSE Fold(op, items[1].num, Tail(items))

Sub(v) == FromFirst("-", 0, Items(v))
Div(v) == FromFirst("/", 1, Items(v))

-----------------------------------------------------------------------------
True == Sym(":true")

DifferenceOfInts(lhs, rhs) ==   \* seeded fault: the common type is the integers
  LET int(n) == IF IsFloat(n) THEN Truncated(n.num, n.den) ELSE n.i IN int(lhs) - int(rhs)

\* lhs - rhs, as a quotient or an integer, compares with 0 as lhs does with rhs.
Difference(lhs, rhs) ==
  IF IsFloat(lhs) \/ IsFloat(rhs) THEN FloatStep("-", AsFloat(lhs), AsFloat(rhs)).num
  ELSE lhs.i - rhs.i

Holds(op, d) ==
  CASE op = "="  -> d = 0
    [] op = "!=" -> d # 0
    [] op = "<"  -> d < 0
    [] op = "<=" -> d <= 0
    [] op = ">"  -> d > 0
    [] op = ">=" -> d >= 0

\* The six comparisons of two arguments.
Comparison(op, lhs, rhs) ==
  IF ~IsNumber(lhs) \/ ~IsNumber(rhs) THEN Failed("InvalidArgument")
  ELSE Ok(IF Holds(op, Difference(lhs.num, rhs.num)) THEN True ELSE Nil)

Eq(v)   == Comparison("=",  v.car, v.cdr.car)
Neq(v)  == Comparison("!=", v.car, v.cdr.car)
Lt(v)   == Comparison("<",  v.car, v.cdr.car)
LtEq(v) == Comparison("<=", v.car, v.cdr.car)
Gt(v)   == Comparison(">",  v.car, v.cdr.car)
GtEq(v) == Comparison(">=", v.car, v.cdr.car)
=============================================================================

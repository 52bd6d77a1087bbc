------------------------------ MODULE Numerics ------------------------------
(***************************************************************************)
(* Exact numbers (runtime/numerics.go), the identity under which they are  *)
(* keys (value_hash.go), and the lists of longs of range (seq.go).  A long *)
(* is one of the 2 * Half integers from -Half, where Go's arithmetic wraps *)
(* around.  A number is [tag, num, den]: a long, a big integer, or a ratio *)
(* in lowest terms whose denominator may be 1.  Doubles are left out.      *)
(***************************************************************************)
EXTENDS Integers, Sequences

CONSTANT Half   \* 2^63

Number(tag, num, den) == [tag |-> tag, num |-> num, den |-> den]
NewLong(n) == Number("long", n, 1)
NewBigInt(n) == Number("bigint", n, 1)
NilValue == Number("nil", 0, 1)
Text == Number("string", 0, 1)
Panic == Number("panic", 0, 1)

IsLong(n) == -Half <= n /\ n < Half
Wrap(n) == ((n + Half) % (2 * Half)) - Half

Magnitude(n) == IF n < 0 THEN -n ELSE n
\* Division toward zero, of big integers; of longs the result wraps.
Truncated(n, d) == IF (n < 0) = (d < 0) THEN Magnitude(n) \div Magnitude(d)
                   ELSE -(Magnitude(n) \div Magnitude(d))

Divides(g, n) == n % g = 0
\* big.Rat keeps lowest terms and a positive denominator.
Rat(n, d) ==
    LET common == {g \in 1 .. Magnitude(d) : Divides(g, Magnitude(d)) /\ Divides(g, Magnitude(n))}
        gcd == CHOOSE g \in common : \A h \in common : h <= g
    IN  Number("ratio", Truncated(n, IF d < 0 THEN -gcd ELSE gcd), Magnitude(d) \div gcd)

Numeric(v) == v.tag \in {"long", "bigint", "ratio"}
IsInteger(v) == v.tag \in {"long", "bigint"}

(******************************** Integers ********************************)

\* newIntegerValueFromBigInt.
Integer(n) == IF IsLong(n) THEN NewLong(n) ELSE NewBigInt(n)

AddLongs(l, r) ==
    LET sum == Wrap(l + r)
    IN  IF (r > 0 /\ sum < l) \/ (r < 0 /\ sum > l) THEN NewBigInt(l + r) ELSE NewLong(sum)
SubLongs(l, r) ==
    LET diff == Wrap(l - r)
    IN  IF (r < 0 /\ diff < l) \/ (r > 0 /\ diff > l) THEN NewBigInt(l - r) ELSE NewLong(diff)
\* Mutant: without the case whose check overflows itself.
MulLongsByCheck(l, r) ==
    LET product == Wrap(l * r)
    IN  IF l = 0 \/ r = 0 THEN NewLong(0)
        ELSE IF Wrap(Truncated(product, r)) # l THEN NewBigInt(l * r)
        ELSE NewLong(product)
MulLongs(l, r) ==
    LET product == Wrap(l * r)
    IN  IF l = 0 \/ r = 0 THEN NewLong(0)
        ELSE IF (l = -Half /\ r = -1) \/ (l = -1 /\ r = -Half) THEN NewBigInt(l * r)
        ELSE IF Wrap(Truncated(product, r)) # l THEN NewBigInt(l * r)
        ELSE NewLong(product)

BothLong(l, r) == l.tag = "long" /\ r.tag = "long"
BothInteger(l, r) == IsInteger(l) /\ IsInteger(r)
BothNumeric(l, r) == Numeric(l) /\ Numeric(r)

(******************************* Arithmetic *******************************)

Add(l, r) == CASE ~BothNumeric(l, r) -> Panic
               [] BothLong(l, r) -> AddLongs(l.num, r.num)
               [] BothInteger(l, r) /\ ~BothLong(l, r) -> Integer(l.num + r.num)
               [] BothNumeric(l, r) /\ ~BothInteger(l, r) -> Rat(l.num * r.den + r.num * l.den, l.den * r.den)
Sub(l, r) == CASE ~BothNumeric(l, r) -> Panic
               [] BothLong(l, r) -> SubLongs(l.num, r.num)
               [] BothInteger(l, r) /\ ~BothLong(l, r) -> Integer(l.num - r.num)
               [] BothNumeric(l, r) /\ ~BothInteger(l, r) -> Rat(l.num * r.den - r.num * l.den, l.den * r.den)
Mul(l, r) == CASE ~BothNumeric(l, r) -> Panic
               [] BothLong(l, r) -> MulLongs(l.num, r.num)
               [] BothInteger(l, r) /\ ~BothLong(l, r) -> Integer(l.num * r.num)
               [] BothNumeric(l, r) /\ ~BothInteger(l, r) -> Rat(l.num * r.num, l.den * r.den)
\* big.Rat panics at a division by zero.
Div(l, r) == IF ~BothNumeric(l, r) \/ r.num = 0 THEN Panic ELSE Rat(l.num * r.den, l.den * r.num)

Compared(m, n) == CASE m < n -> -1 [] m = n -> 0 [] m > n -> 1
CompareNumeric(l, r) ==
    CASE BothInteger(l, r) /\ l.tag = r.tag -> Compared(l.num, r.num)
      [] l.tag = "long" /\ r.tag = "bigint" ->
             IF IsLong(r.num) THEN Compared(l.num, r.num) ELSE IF r.num > 0 THEN -1 ELSE 1
      [] l.tag = "bigint" /\ r.tag = "long" ->
             -(IF IsLong(l.num) THEN Compared(r.num, l.num) ELSE IF l.num > 0 THEN -1 ELSE 1)
      [] OTHER -> Compared(l.num * r.den, r.num * l.den)

Quot(l, r) == IF ~BothNumeric(l, r) \/ r.num = 0 THEN Panic
              ELSE Integer(Truncated(l.num * r.den, l.den * r.num))
Rem(l, r) == IF ~BothNumeric(l, r) \/ r.num = 0 THEN Panic ELSE Sub(l, Mul(Quot(l, r), r))
Mod(l, r) ==
    LET m == Rem(l, r)
    IN  IF ~BothNumeric(l, r) \/ r.num = 0 \/ m.num = 0 THEN m
        ELSE IF (CompareNumeric(m, NewLong(0)) < 0) = (CompareNumeric(r, NewLong(0)) < 0) THEN m
        ELSE Add(m, r)

Abs(v) == CASE v.tag = "long" -> IF v.num >= 0 THEN v ELSE IF v.num = -Half THEN NewBigInt(Half) ELSE NewLong(-v.num)
            [] v.tag \in {"bigint", "ratio"} -> [v EXCEPT !.num = Magnitude(@)]
            [] OTHER -> Panic
Best(l, r, stays(_)) == IF ~BothNumeric(l, r) THEN Panic ELSE IF stays(CompareNumeric(l, r)) THEN l ELSE r
Max(l, r) == Best(l, r, LAMBDA c : c > 0)
Min(l, r) == Best(l, r, LAMBDA c : c < 0)
Numerator(v) == CASE IsInteger(v) -> v [] v.tag = "ratio" -> Integer(v.num) [] OTHER -> Panic
Denominator(v) == CASE IsInteger(v) -> NewLong(1) [] v.tag = "ratio" -> Integer(v.den) [] OTHER -> Panic

Compare(l, r) ==
    CASE l = NilValue \/ r = NilValue -> NewLong(IF l = r THEN 0 ELSE IF l = NilValue THEN -1 ELSE 1)
      [] BothNumeric(l, r) -> NewLong(CompareNumeric(l, r))
      [] l = Text /\ r = Text -> NewLong(0)
      [] OTHER -> Panic

\* valueIdentity: what two numbers must share to be one key.
Identity(v) == IF v.tag = "ratio" /\ v.den = 1 THEN <<IF IsLong(v.num) THEN "long" ELSE "bigint", v.num, 1>>
               ELSE <<v.tag, v.num, v.den>>
Eq(l, r) == IF BothNumeric(l, r) THEN CompareNumeric(l, r) = 0 ELSE l = r

(********************************** range *********************************)

RangeCount(start, end, step) ==
    IF step > 0
    THEN IF start >= end THEN 0 ELSE Wrap(Truncated(Wrap(end - start + step - 1), step))
    ELSE IF start <= end THEN 0 ELSE Wrap(Truncated(Wrap(start - end - step - 1), Wrap(-step)))

\* The items the producer gives from "current" on, endless lists as far as
\* there are longs.
Items(start, end, step) ==
    LET at[i \in 0 .. 2 * Half] == IF i = 0 THEN start ELSE Wrap(at[i - 1] + step)
        over(i) == (step > 0 /\ at[i] >= end) \/ (step < 0 /\ at[i] <= end)
        n == CHOOSE n \in 0 .. 2 * Half : /\ n = 2 * Half \/ over(n)
                                          /\ \A i \in 0 .. n - 1 : ~over(i)
    IN  [i \in 1 .. n |-> at[i - 1]]
Range(start, end, step) ==
    IF step = 0 THEN IF start = end THEN [count |-> 0, items |-> << >>]
                     ELSE [count |-> -1, items |-> Items(start, end, 0)]
    ELSE IF RangeCount(start, end, step) <= 0 THEN [count |-> 0, items |-> << >>]
    ELSE [count |-> RangeCount(start, end, step), items |-> Items(start, end, step)]

Calculate(fn, a) ==
    CASE fn = "+" -> Add(a[1], a[2]) [] fn = "-" -> Sub(a[1], a[2]) [] fn = "*" -> Mul(a[1], a[2])
      [] fn = "/" -> Div(a[1], a[2]) [] fn = "quot" -> Quot(a[1], a[2]) [] fn = "rem" -> Rem(a[1], a[2])
      [] fn = "mod" -> Mod(a[1], a[2]) [] fn = "max" -> Max(a[1], a[2]) [] fn = "min" -> Min(a[1], a[2])
      [] fn = "compare" -> Compare(a[1], a[2]) [] fn = "=" -> Eq(a[1], a[2])
      [] fn = "abs" -> Abs(a[1]) [] fn = "numerator" -> Numerator(a[1])
      [] fn = "denominator" -> Denominator(a[1])
      [] fn = "range" -> Range(a[1].num, a[2].num, a[3].num)
=============================================================================

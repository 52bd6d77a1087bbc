----------------------------- MODULE Arithmetic ------------------------------
(***************************************************************************)
(* What the functions of Numerics should give: the exact result, whatever  *)
(* representation its arguments have (flag-lang.md, "Arithmetic promotes   *)
(* as needed across numeric types" and the table of quot, rem and mod).    *)
(***************************************************************************)
EXTENDS Numerics, FiniteSets

\* v is the number n / d.
Is(v, n, d) == Numeric(v) /\ v.num * d = n * v.den
\* The difference of two numbers, over the product of their denominators.
Over(l, r) == l.den * r.den
Minus(l, r) == l.num * r.den - r.num * l.den
NotAbove(l, r) == Minus(l, r) <= 0
SmallerThan(l, r) == Magnitude(l.num) * r.den < Magnitude(r.num) * l.den

\* An integer is a long when it fits, and a ratio is in lowest terms.
Fits(v) == IsInteger(v) => (v.tag = "long" <=> IsLong(v.num))
WellFormed(v) == IF v.tag = "ratio" THEN v.den > 0 /\ \A g \in 2 .. v.den : ~(Divides(g, v.den) /\ v.num % g = 0)
                 ELSE v.den = 1 /\ (v.tag = "long" => IsLong(v.num))
Whole(n, d) == Divides(Magnitude(d), Magnitude(n))

\* The sign of one number and of zero fits every other.
SignOf(l, r) == l.num = 0 \/ (l.num < 0) = (r.num < 0)
\* Whether l - m is a whole number of times r.
Times(l, m, r) == Whole(Minus(l, m) * r.den, Over(l, m) * r.num)

Exact(fn, l, r, v) ==
    CASE fn = "+" -> Is(v, l.num * r.den + r.num * l.den, Over(l, r))
      [] fn = "-" -> Is(v, Minus(l, r), Over(l, r))
      [] fn = "*" -> Is(v, l.num * r.num, Over(l, r))
      [] fn = "rem" -> SmallerThan(v, r) /\ SignOf(v, l) /\ Times(l, v, r)
      [] fn = "mod" -> SmallerThan(v, r) /\ SignOf(v, r) /\ Times(l, v, r)

RightPair(fn, l, r, v) ==
    CASE fn \in {"/", "quot", "rem", "mod"} /\ r.num = 0 -> v = Panic
      [] fn = "/" /\ r.num # 0 -> v.tag = "ratio" /\ Is(v, l.num * r.den, l.den * r.num)
      [] fn = "quot" /\ r.num # 0 ->   \* toward zero, and the rest is smaller than r
             LET n == l.num * r.den
                 d == l.den * r.num
             IN  /\ IsInteger(v) /\ Fits(v) /\ (v.num = 0 \/ (v.num < 0) = ((n < 0) # (d < 0)))
                 /\ Magnitude(v.num * d) <= Magnitude(n)
                 /\ Magnitude(n) < Magnitude(v.num * d) + Magnitude(d)
      [] fn \in {"max", "min"} ->
             /\ v \in {l, r}
             /\ \A w \in {l, r} : IF fn = "max" THEN NotAbove(w, v) ELSE NotAbove(v, w)
      [] fn = "compare" -> v = NewLong(IF Minus(l, r) = 0 THEN 0 ELSE IF NotAbove(l, r) THEN -1 ELSE 1)
      [] OTHER -> Exact(fn, l, r, v) /\ Fits(v) /\ (IsInteger(v) <=> BothInteger(l, r))

\* Numbers are equal exactly when they are one number, and they are then one
\* key, unless one of them is a big integer that need not be one.
RightEq(l, r, equal) ==
    /\ equal <=> IF BothNumeric(l, r) THEN Minus(l, r) = 0 ELSE l = r
    /\ Identity(l) = Identity(r) => equal
    /\ equal /\ Fits(l) /\ Fits(r) => Identity(l) = Identity(r)

RightSingle(fn, x, v) ==
    CASE fn = "abs" -> Is(v, Magnitude(x.num), x.den) /\ (v.tag = "ratio" <=> x.tag = "ratio")
      [] fn = "numerator" -> Is(v, x.num, 1) /\ IsInteger(v)
      [] fn = "denominator" -> Is(v, x.den, 1) /\ IsInteger(v)

\* A range counts on as far as the end.  It has the right length and items just
\* when neither the sum its length is computed from nor the number behind its
\* last item leaves the longs (there rangeCount and the producer wrap around; for
\* the smallest step the negated step does too, which may make up for it).
Fitting(start, end, step, n) ==
    /\ IsLong(IF step > 0 THEN end - start + step - 1 ELSE start - end - step - 1)
    /\ IsLong(start + n * step)
Before(i, end, step) == IF step > 0 THEN i < end ELSE i > end
RightRange(start, end, step, v) ==
    LET n == Cardinality({k \in 0 .. 2 * Half : Before(start + k * step, end, step)})
        right == v = [count |-> n, items |-> [i \in 1 .. n |-> start + (i - 1) * step]]
    IN  IF step = 0 THEN IF start = end THEN v.items = << >>
                         ELSE v.count = -1 /\ \A i \in DOMAIN v.items : v.items[i] = start
        ELSE /\ n = 0 \/ Fitting(start, end, step, n) => right
             /\ right => n = 0 \/ Fitting(start, end, step, n) \/ step = -Half

RightNumber(fn, a, v) ==
    CASE fn = "range" -> RightRange(a[1].num, a[2].num, a[3].num, v)
      [] fn = "=" -> RightEq(a[1], a[2], v)
      [] fn = "compare" /\ NilValue \in {a[1], a[2]} ->
             v = NewLong(IF a[1] = a[2] THEN 0 ELSE IF a[1] = NilValue THEN -1 ELSE 1)
      [] fn \notin {"range", "="} /\ (fn = "compare" => NilValue \notin {a[1], a[2]}) ->
             IF \E i \in DOMAIN a : ~Numeric(a[i])
             THEN v = (IF fn = "compare" /\ a[1] = a[2] THEN NewLong(0) ELSE Panic)
             ELSE /\ v # Panic => WellFormed(v)
                  /\ IF Len(a) = 1 THEN RightSingle(fn, a[1], v) /\ (Fits(a[1]) => Fits(v))
                     ELSE RightPair(fn, a[1], a[2], v)
=============================================================================

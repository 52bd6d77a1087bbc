---------------------------- MODULE ValueProofs -----------------------------
(***************************************************************************)
(* Theorems about the values of a program: about module Atom, for every    *)
(* set of goroutines, every set of values and every family of functions,   *)
(* and about module Numerics, for every size of a long.                    *)
(***************************************************************************)
EXTENDS Atom, Numerics, TLAPS

(***************************************************************************)
(* A value that changes: the slot of an atom.                              *)
(***************************************************************************)

\* What the second section stores is the function of what the first section
\* read; with the comparison in Store this makes the two sections one update.
ResultOfRead ==
    \A g \in Goroutines :
        /\ pc[g] \in {"apply", "store"} => old[g] \in Values
        /\ pc[g] = "store" => neu[g] = F(g, old[g])

IInv == TypeOK /\ ResultOfRead

\* The invariant holds initially and every step of every goroutine keeps it.
LEMMA InductiveInvariant == Spec => []IInv
<1> USE AtomAssumption
<1>1. Init => IInv
  BY DEF Init, IInv, TypeOK, ResultOfRead
<1>2. IInv /\ [Next]_vars => IInv'
  <2> SUFFICES ASSUME IInv, [Next]_vars PROVE IInv'
    OBVIOUS
  <2> USE DEF IInv, TypeOK, ResultOfRead
  <2>1. CASE UNCHANGED vars
    BY <2>1 DEF vars
  <2>2. ASSUME NEW g \in Goroutines, NEW v \in Values, Reset(g, v) PROVE IInv'
    BY <2>2 DEF Reset, Begin, Return
  <2>3. ASSUME NEW g \in Goroutines, SwapBegin(g) PROVE IInv'
    BY <2>3 DEF SwapBegin, Begin, Goto
  <2>4. ASSUME NEW g \in Goroutines, Read(g) PROVE IInv'
    BY <2>4 DEF Read, Goto
  <2>5. ASSUME NEW g \in Goroutines, Apply(g) PROVE IInv'
    BY <2>5 DEF Apply, Goto
  <2>6. ASSUME NEW g \in Goroutines, ApplyPanics(g) PROVE IInv'
    BY <2>6 DEF ApplyPanics, Goto, Forget, Return
  <2>7. ASSUME NEW g \in Goroutines, Store(g) PROVE IInv'
    BY <2>7 DEF Store, Goto, Forget, Return
  <2>8. ASSUME NEW g \in Goroutines, Retry(g) PROVE IInv'
    BY <2>8 DEF Retry, Goto, Forget
  <2>9. QED
    BY <2>1, <2>2, <2>3, <2>4, <2>5, <2>6, <2>7, <2>8 DEF Next, Swapping
<1>3. QED
  BY <1>1, <1>2, PTL DEF Spec

\* The slot always holds one of the atom's values and a swap! that is about to
\* store has a result to store.
THEOREM TypeCorrect == Spec => []TypeOK
BY InductiveInvariant, PTL DEF IInv

\* The retry loop of swap! is an atomic update: the atom implements the
\* register that swap! and reset! promise.  Store is the update, because the
\* slot still is what the function was applied to; beginning a swap! is the
\* call, a panic the failure, and the other steps of the loop are invisible.
THEOREM AtomImplementsRegister == Spec => ImplementsRegister
<1> USE AtomAssumption
<1> DEFINE swapping == {g \in Goroutines : pc[g] # "idle"}
<1>1. Init => AtomicRegister!Init
  BY DEF Init, AtomicRegister!Init
<1>2. IInv /\ [Next]_vars => [AtomicRegister!Next]_<<slot, swapping, result>>
  <2> SUFFICES ASSUME IInv, [Next]_vars
               PROVE  AtomicRegister!Next \/ UNCHANGED <<slot, swapping, result>>
    OBVIOUS
  <2> USE DEF IInv, TypeOK
  <2>1. ASSUME NEW g \in Goroutines, NEW v \in Values, Reset(g, v)
        PROVE AtomicRegister!Reset(g, v)
    BY <2>1 DEF Reset, Begin, Return, AtomicRegister!Reset
  <2>2. ASSUME NEW g \in Goroutines, SwapBegin(g) PROVE AtomicRegister!Call(g)
    BY <2>2 DEF SwapBegin, Begin, Goto, AtomicRegister!Call
  <2>3. ASSUME NEW g \in Goroutines, Store(g) PROVE AtomicRegister!Update(g)
    <3>1. g \in swapping /\ swapping' = swapping \ {g}
      BY <2>3 DEF Store, Goto
    <3>2. neu[g] = F(g, slot)
      BY <2>3 DEF Store, ResultOfRead
    <3>3. QED
      BY <2>3, <3>1, <3>2 DEF Store, Return, AtomicRegister!Update
  <2>4. ASSUME NEW g \in Goroutines, ApplyPanics(g) PROVE AtomicRegister!Fail(g)
    BY <2>4 DEF ApplyPanics, Goto, Return, AtomicRegister!Fail
  <2>5. ASSUME NEW g \in Goroutines, Read(g) \/ Apply(g) \/ Retry(g)
        PROVE UNCHANGED <<slot, swapping, result>>
    <3>1. swapping' = swapping
      BY <2>5 DEF Read, Apply, Retry, Goto
    <3>2. QED
      BY <2>5, <3>1 DEF Read, Apply, Retry
  <2>6. CASE UNCHANGED vars
    BY <2>6 DEF vars
  <2>7. QED
    BY <2>1, <2>2, <2>3, <2>4, <2>5, <2>6 DEF Next, Swapping, AtomicRegister!Next
<1>3. QED
  BY <1>1, <1>2, InductiveInvariant, PTL DEF Spec, ImplementsRegister, AtomicRegister!Spec

(***************************************************************************)
(* Values that do not: numbers.  The arithmetic of longs is exact for      *)
(* every size of a long.  A long is known by the turn it lies in           *)
(* (OneLong), so that a result that wrapped is a turn away from the true   *)
(* one, and each check notices a turn.                                     *)
(***************************************************************************)

\* What Go's remainder and quotient are, for a divisor above zero.
LEMMA Division ==
    ASSUME NEW a \in Int, NEW m \in Int, m > 0
    PROVE  /\ (a % m) \in 0 .. m - 1
           /\ (a \div m) \in Int
           /\ a = m * (a \div m) + (a % m)
BY Z3

\* Only one long is a whole number of turns away from an integer.
LEMMA OneLong ==
    ASSUME Half \in Nat \ {0}, NEW x \in Int, NEW y \in Int, NEW k \in Int,
           IsLong(x), IsLong(y), x = y + (2 * Half) * k
    PROVE  x = y
<1>1. k = 0
  <2>1. CASE k >= 1
    <3>1. (2 * Half) * k >= 2 * Half BY <2>1, Z3
    <3> QED BY <3>1 DEF IsLong
  <2>2. CASE k <= -1
    <3>1. (2 * Half) * k <= -(2 * Half) BY <2>2, Z3
    <3> QED BY <3>1 DEF IsLong
  <2> QED BY <2>1, <2>2
<1> QED BY <1>1

\* What wraps around is a long, a whole number of turns away.
LEMMA Wrapped ==
    ASSUME Half \in Nat \ {0}, NEW x \in Int
    PROVE  /\ Wrap(x) \in Int /\ IsLong(Wrap(x))
           /\ \E k \in Int : Wrap(x) = x + (2 * Half) * k
<1> DEFINE m == 2 * Half
           q == (x + Half) \div m
<1>1. m \in Int /\ m > 0 /\ x + Half \in Int OBVIOUS
<1>2. /\ ((x + Half) % m) \in 0 .. m - 1
      /\ q \in Int
      /\ x + Half = m * q + ((x + Half) % m)
  BY <1>1, Division
<1>3. Wrap(x) = x - m * q BY <1>2 DEF Wrap
<1>4. -q \in Int /\ m * (-q) = -(m * q) BY <1>1, <1>2
<1>5. Wrap(x) = x + m * (-q) BY <1>1, <1>2, <1>3, <1>4
<1>6. Wrap(x) \in Int /\ IsLong(Wrap(x)) BY <1>2 DEF Wrap, IsLong
<1> QED BY <1>4, <1>5, <1>6

\* So that long is the one it wraps to.
LEMMA WrapLong ==
    ASSUME Half \in Nat \ {0}, NEW x \in Int, NEW y \in Int, NEW k \in Int,
           IsLong(y), y = x + (2 * Half) * k
    PROVE  Wrap(x) = y
<1>1. PICK j \in Int : Wrap(x) = x + (2 * Half) * j BY Wrapped
<1>2. Wrap(x) \in Int /\ IsLong(Wrap(x)) BY Wrapped
<1>3. Wrap(x) = y + (2 * Half) * (j - k) BY <1>1
<1>4. j - k \in Int OBVIOUS
<1> QED BY <1>2, <1>3, <1>4, OneLong

\* A long wraps to itself, an integer a turn away to the long it is away from.
LEMMA WrapNear ==
    ASSUME Half \in Nat \ {0}, NEW x \in Int
    PROVE  /\ IsLong(x) => Wrap(x) = x
           /\ IsLong(x - 2 * Half) => Wrap(x) = x - 2 * Half
           /\ IsLong(x + 2 * Half) => Wrap(x) = x + 2 * Half
<1>1. ASSUME NEW y \in Int, NEW k \in Int, y = x + (2 * Half) * k
      PROVE  IsLong(y) => Wrap(x) = y
  BY <1>1, WrapLong
<1>2. PICK none \in Int, up \in Int, down \in Int : none = 0 /\ up = 1 /\ down = -1 OBVIOUS
<1>3. /\ x = x + (2 * Half) * none
      /\ x - 2 * Half = x + (2 * Half) * down
      /\ x + 2 * Half = x + (2 * Half) * up
  BY <1>2
<1>4. x - 2 * Half \in Int /\ x + 2 * Half \in Int OBVIOUS
<1> QED BY <1>1, <1>3, <1>4

\* addIntegerValues: the sum is exact, and a big integer only when it must be.
THEOREM SumExact ==
    ASSUME Half \in Nat \ {0}, NEW l \in Int, NEW r \in Int, IsLong(l), IsLong(r)
    PROVE  AddLongs(l, r) = Integer(l + r)
<1>1. l + r \in Int OBVIOUS
<1>2. CASE IsLong(l + r)
  <2>1. Wrap(l + r) = l + r BY <1>1, <1>2, WrapNear
  <2> QED BY <1>2, <2>1 DEF AddLongs, Integer
<1>3. CASE l + r >= Half
  <2>1. IsLong((l + r) - 2 * Half) BY <1>3 DEF IsLong
  <2>2. Wrap(l + r) = (l + r) - 2 * Half BY <1>1, <2>1, WrapNear
  <2> QED BY <1>3, <2>2 DEF AddLongs, Integer, IsLong
<1>4. CASE l + r < -Half
  <2>1. IsLong((l + r) + 2 * Half) BY <1>4 DEF IsLong
  <2>2. Wrap(l + r) = (l + r) + 2 * Half BY <1>1, <2>1, WrapNear
  <2> QED BY <1>4, <2>2 DEF AddLongs, Integer, IsLong
<1> QED BY <1>2, <1>3, <1>4 DEF IsLong

\* subIntegerValues: as for sums.
THEOREM DifferenceExact ==
    ASSUME Half \in Nat \ {0}, NEW l \in Int, NEW r \in Int, IsLong(l), IsLong(r)
    PROVE  SubLongs(l, r) = Integer(l - r)
<1>1. l - r \in Int OBVIOUS
<1>2. CASE IsLong(l - r)
  <2>1. Wrap(l - r) = l - r BY <1>1, <1>2, WrapNear
  <2> QED BY <1>2, <2>1 DEF SubLongs, Integer
<1>3. CASE l - r >= Half
  <2>1. IsLong((l - r) - 2 * Half) BY <1>3 DEF IsLong
  <2>2. Wrap(l - r) = (l - r) - 2 * Half BY <1>1, <2>1, WrapNear
  <2> QED BY <1>3, <2>2 DEF SubLongs, Integer, IsLong
<1>4. CASE l - r < -Half
  <2>1. IsLong((l - r) + 2 * Half) BY <1>4 DEF IsLong
  <2>2. Wrap(l - r) = (l - r) + 2 * Half BY <1>1, <2>1, WrapNear
  <2> QED BY <1>4, <2>2 DEF SubLongs, Integer, IsLong
<1> QED BY <1>2, <1>3, <1>4 DEF IsLong

\* Multiplying by a number above zero takes an integer away from zero.
LEMMA ProductBound ==
    ASSUME NEW b \in Int, NEW q \in Int, b > 0
    PROVE  (q <= -1 => b * q <= -b) /\ (q >= 0 => b * q >= q)
BY Z3

\* What division toward zero leaves is smaller than the divisor.
LEMMA TruncatedRest ==
    ASSUME NEW n \in Int, NEW d \in Int, d # 0
    PROVE  /\ Truncated(n, d) \in Int
           /\ Magnitude(Truncated(n, d)) <= Magnitude(n)
           /\ Magnitude(n - Truncated(n, d) * d) < Magnitude(d)
<1> DEFINE a == Magnitude(n)
           b == Magnitude(d)
           q == a \div b
<1>1. a \in Nat /\ b \in Nat /\ b > 0 BY DEF Magnitude
<1>2. (a % b) \in 0 .. b - 1 /\ q \in Int /\ a = b * q + (a % b) BY <1>1, Division
<1>3. PICK c \in 0 .. b - 1 : a = b * q + c BY <1>2
<1> HIDE DEF a, b, q
<1>4. q >= 0
  <2>1. CASE q <= -1
    <3>1. b * q <= -b BY <1>1, <1>2, <2>1, ProductBound
    <3> QED BY <1>1, <1>2, <1>3, <3>1
  <2> QED BY <1>2, <2>1
<1>5. q <= a
  <2>1. b * q >= q BY <1>1, <1>2, <1>4, ProductBound
  <2> QED BY <1>1, <1>2, <1>3, <2>1
<1>6. Truncated(n, d) = IF (n < 0) = (d < 0) THEN q ELSE -q BY DEF Truncated, a, b, q
<1>7. n - Truncated(n, d) * d = IF n < 0 THEN -c ELSE c
  <2>1. q * d = IF d < 0 THEN -(b * q) ELSE b * q BY <1>2 DEF Magnitude, b
  <2>2. (-q) * d = -(q * d) BY <1>2
  <2> QED BY <1>1, <1>2, <1>3, <1>6, <2>1, <2>2 DEF Magnitude, a, b
<1> QED BY <1>1, <1>2, <1>3, <1>4, <1>5, <1>6, <1>7 DEF Magnitude, a, b

\* An integer less than a turn from another and whole turns away is the other.
LEMMA WithinTurn ==
    ASSUME Half \in Nat \ {0}, NEW x \in Int, NEW y \in Int, NEW k \in Int,
           x = y + (2 * Half) * k, Magnitude(x - y) < 2 * Half
    PROVE  x = y
<1>1. CASE k >= 1
  <2>1. (2 * Half) * k >= 2 * Half BY <1>1, Z3
  <2> QED BY <2>1 DEF Magnitude
<1>2. CASE k <= -1
  <2>1. (2 * Half) * k <= -(2 * Half) BY <1>2, Z3
  <2> QED BY <2>1 DEF Magnitude
<1>3. CASE k = 0 BY <1>3
<1> QED BY <1>1, <1>2, <1>3

\* mulIntegerValues: dividing the product back tells whether it wrapped, but
\* for the smallest long and -1, where the division wraps as well.
THEOREM ProductExact ==
    ASSUME Half \in Nat \ {0}, NEW l \in Int, NEW r \in Int, IsLong(l), IsLong(r)
    PROVE  MulLongs(l, r) = Integer(l * r)
<1> DEFINE product == Wrap(l * r)
           back == Truncated(product, r)
<1>1. CASE l = 0 \/ r = 0
  <2>1. l * r = 0 BY <1>1
  <2> QED BY <1>1, <2>1 DEF MulLongs, Integer, IsLong
<1>2. CASE (l = -Half /\ r = -1) \/ (l = -1 /\ r = -Half)
  <2>1. l * r = Half BY <1>2
  <2> QED BY <1>2, <2>1 DEF MulLongs, Integer, IsLong
<1>3. CASE /\ l # 0 /\ r # 0
           /\ ~((l = -Half /\ r = -1) \/ (l = -1 /\ r = -Half))
  <2>1. l * r \in Int OBVIOUS
  <2>2. /\ product \in Int /\ IsLong(product)
        /\ \E k \in Int : product = l * r + (2 * Half) * k
    BY <2>1, Wrapped
  <2>3. /\ back \in Int /\ Magnitude(back) <= Magnitude(product)
        /\ Magnitude(product - back * r) < Magnitude(r)
    BY <1>3, <2>2, TruncatedRest
  <2> HIDE DEF product, back
  <2>4. CASE IsLong(l * r)
    <3>1. product = l * r BY <2>1, <2>4, WrapNear DEF product
    <3>2. back = l
      <4>1. product - back * r = (l - back) * r BY <2>3, <3>1
      <4>2. CASE l - back >= 1
        <5>1. Magnitude((l - back) * r) >= Magnitude(r) BY <1>3, <2>3, <4>2, Z3 DEF Magnitude
        <5> QED BY <2>3, <4>1, <5>1 DEF Magnitude
      <4>3. CASE l - back <= -1
        <5>1. Magnitude((l - back) * r) >= Magnitude(r) BY <1>3, <2>3, <4>3, Z3 DEF Magnitude
        <5> QED BY <2>3, <4>1, <5>1 DEF Magnitude
      <4> QED BY <2>3, <4>2, <4>3
    <3>3. Wrap(back) = l BY <3>2, WrapNear
    <3> QED BY <1>3, <2>4, <3>1, <3>3 DEF MulLongs, Integer, product, back
  <2>5. CASE ~IsLong(l * r)
    <3>1. Wrap(back) # l
      <4>1. SUFFICES ASSUME Wrap(back) = l PROVE FALSE OBVIOUS
      <4>2. IsLong(back)
        <5>1. -Half <= back /\ back <= Half BY <2>2, <2>3 DEF Magnitude, IsLong
        <5>2. CASE back = Half
          <6>1. IsLong(back - 2 * Half) BY <5>2 DEF IsLong
          <6>2. l = -Half BY <2>3, <4>1, <5>2, <6>1, WrapNear
          <6>3. r # -1 BY <1>3, <6>2
          <6>4. Magnitude(product) = Half BY <2>2, <2>3, <5>2 DEF Magnitude, IsLong
          <6>5. product = -Half BY <2>2, <6>4 DEF Magnitude, IsLong
          <6>6. Magnitude(-Half - Half * r) < Magnitude(r) BY <2>3, <5>2, <6>5
          <6>7. CASE r >= 1
            <7>1. Half * r >= r /\ Half * r >= 1 BY <6>7, Z3
            <7> QED BY <6>6, <6>7, <7>1 DEF Magnitude
          <6>8. CASE r <= -2
            <7> DEFINE s == -1 - r
            <7>1. s \in Int /\ s >= 1 /\ r = -1 - s BY <6>8
            <7> HIDE DEF s
            <7>2. -Half - Half * r = Half * s BY <7>1
            <7>3. Half * s < s + 1 /\ Half * s >= s BY <6>6, <7>1, <7>2, Z3 DEF Magnitude
            <7>4. Half = 1
              <8>1. CASE Half >= 2
                <9>1. Half * s >= 2 * s BY <7>1, <8>1, Z3
                <9> QED BY <7>1, <7>3, <9>1
              <8> QED BY <8>1
            <7> QED BY <6>8, <7>4 DEF IsLong
          <6> QED BY <1>3, <6>3, <6>7, <6>8
        <5> QED BY <2>3, <5>1, <5>2 DEF IsLong
      <4>3. back = l BY <2>3, <4>1, <4>2, WrapNear
      <4>4. Magnitude(product - l * r) < 2 * Half
        <5>1. Magnitude(r) <= Half BY DEF Magnitude, IsLong
        <5> QED BY <2>1, <2>2, <2>3, <4>3, <5>1 DEF Magnitude
      <4>5. product = l * r BY <2>1, <2>2, <4>4, WithinTurn
      <4> QED BY <2>2, <2>5, <4>5
    <3> QED BY <1>3, <2>5, <3>1 DEF MulLongs, Integer, product, back
  <2> QED BY <2>4, <2>5
<1> QED BY <1>1, <1>2, <1>3

\* A number as the operations take it: a long is in range.
Usable(v) == /\ v.tag \in {"long", "bigint"} => v.den = 1 /\ v.num \in Int
             /\ v.tag = "long" => IsLong(v.num)

\* Add, Sub and Mul of longs and big integers in every combination: the exact
\* result, and a long whenever it fits one.
THEOREM IntegersExact ==
    ASSUME Half \in Nat \ {0}, NEW l, NEW r, Usable(l), Usable(r), BothInteger(l, r)
    PROVE  /\ Add(l, r) = Integer(l.num + r.num)
           /\ Sub(l, r) = Integer(l.num - r.num)
           /\ Mul(l, r) = Integer(l.num * r.num)
<1>1. BothNumeric(l, r) /\ l.num \in Int /\ r.num \in Int
  BY DEF Usable, BothInteger, BothNumeric, IsInteger, Numeric
<1>2. CASE BothLong(l, r)
  <2>1. IsLong(l.num) /\ IsLong(r.num) BY <1>2 DEF BothLong, Usable
  <2>2. /\ AddLongs(l.num, r.num) = Integer(l.num + r.num)
        /\ SubLongs(l.num, r.num) = Integer(l.num - r.num)
        /\ MulLongs(l.num, r.num) = Integer(l.num * r.num)
    BY <1>1, <2>1, SumExact, DifferenceExact, ProductExact
  <2> QED BY <1>1, <1>2, <2>2 DEF Add, Sub, Mul
<1>3. CASE ~BothLong(l, r)
  BY <1>1, <1>3 DEF Add, Sub, Mul
<1> QED BY <1>2, <1>3

\* compareNumeric: longs and big integers compare by their numbers, although
\* the tests differ with the representation.
THEOREM ComparisonExact ==
    ASSUME Half \in Nat \ {0}, NEW l, NEW r, Usable(l), Usable(r), BothInteger(l, r)
    PROVE  CompareNumeric(l, r) = Compared(l.num, r.num)
<1>1. /\ l.num \in Int /\ r.num \in Int /\ l.den = 1 /\ r.den = 1
      /\ l.tag \in {"long", "bigint"} /\ r.tag \in {"long", "bigint"}
      /\ l.tag = "long" => IsLong(l.num)
      /\ r.tag = "long" => IsLong(r.num)
  BY DEF Usable, BothInteger, IsInteger
<1>2. CASE l.tag = r.tag BY <1>2 DEF CompareNumeric
<1>3. CASE l.tag = "long" /\ r.tag = "bigint"
  BY <1>1, <1>3 DEF CompareNumeric, Compared, IsLong, BothInteger, IsInteger
<1>4. CASE l.tag = "bigint" /\ r.tag = "long"
  BY <1>1, <1>4 DEF CompareNumeric, Compared, IsLong, BothInteger, IsInteger
<1> QED BY <1>1, <1>2, <1>3, <1>4

\* Rounding a quotient up: the steps of size s it takes to get d ahead.
LEMMA RoundedUp ==
    ASSUME NEW d \in Int, NEW s \in Int, d > 0, s > 0
    PROVE  LET c == Truncated(d + s - 1, s)
           IN  /\ c \in Int /\ 0 < c /\ c <= d + s - 1
               /\ (c - 1) * s < d /\ d <= c * s
<1> DEFINE n == d + s - 1
           c == Truncated(n, s)
<1>1. n \in Int /\ n >= s /\ n >= d BY Z3
<1>2. c = n \div s BY <1>1 DEF Truncated, Magnitude
<1>3. (n % s) \in 0 .. s - 1 /\ c \in Int /\ n = s * c + (n % s) BY <1>1, <1>2, Division
<1>4. PICK m \in 0 .. s - 1 : n = s * c + m BY <1>3
<1>5. n = d + s - 1 OBVIOUS
<1> HIDE DEF n, c
<1>6. c >= 0
  <2>1. CASE c <= -1
    <3>1. s * c <= -s BY <1>3, <2>1, ProductBound
    <3>2. s * c \in Int BY <1>3
    <3>3. n < 0 BY <1>1, <1>4, <3>1, <3>2
    <3> QED BY <1>1, <3>3
  <2> QED BY <1>3, <2>1
<1>7. c # 0 BY <1>1, <1>4
<1>8. s * c >= c BY <1>3, <1>6, ProductBound
<1>9. c * s = s * c /\ (c - 1) * s = s * c - s /\ s * c \in Int BY <1>3
<1>10. /\ c \in Int /\ 0 < c /\ c <= n
       /\ (c - 1) * s < d /\ d <= c * s
  BY <1>1, <1>3, <1>4, <1>5, <1>6, <1>7, <1>8, <1>9
<1> QED BY <1>5, <1>10 DEF n, c

\* rangeCount, away from the limits of the longs: the count is that of the
\* longs from the start that the end has not been reached at.
THEOREM RangeCountExact ==
    ASSUME Half \in Nat \ {0}, NEW start \in Int, NEW end \in Int, NEW step \in Int,
           IsLong(start), IsLong(end), IsLong(step),
           (step > 0 /\ start < end /\ IsLong(end - start + step - 1))
              \/ (step < 0 /\ end < start /\ IsLong(start - end - step - 1))
    PROVE  LET c == RangeCount(start, end, step)
           IN  /\ c \in Nat \ {0}
               /\ step > 0 => start + (c - 1) * step < end /\ end <= start + c * step
               /\ step < 0 => start + (c - 1) * step > end /\ end >= start + c * step
<1>1. CASE step > 0
  <2> DEFINE d == end - start
             c == Truncated(d + step - 1, step)
  <2>1. d \in Int /\ d > 0 /\ IsLong(d + step - 1) /\ d + step - 1 \in Int BY <1>1
  <2>2. /\ c \in Int /\ 0 < c /\ c <= d + step - 1
        /\ (c - 1) * step < d /\ d <= c * step
    BY <1>1, <2>1, RoundedUp
  <2>3. Wrap(end - start + step - 1) = d + step - 1 BY <2>1, WrapNear
  <2>4. IsLong(c) BY <2>1, <2>2 DEF IsLong
  <2>5. Wrap(c) = c BY <2>2, <2>4, WrapNear
  <2>6. RangeCount(start, end, step) = c BY <1>1, <2>1, <2>3, <2>5 DEF RangeCount
  <2>7. (c - 1) * step \in Int /\ c * step \in Int BY <2>2
  <2>8. d = end - start OBVIOUS
  <2> HIDE DEF c, d
  <2> QED BY <1>1, <2>2, <2>6, <2>7, <2>8
<1>2. CASE step < 0
  <2> DEFINE d == start - end
             s == -step
             c == Truncated(d + s - 1, s)
  <2>1. d \in Int /\ d > 0 /\ s \in Int /\ s > 0 BY <1>2
  <2>2. d + s - 1 = start - end - step - 1 /\ IsLong(d + s - 1) /\ d + s - 1 \in Int BY <1>2
  <2>3. /\ c \in Int /\ 0 < c /\ c <= d + s - 1
        /\ (c - 1) * s < d /\ d <= c * s
    BY <2>1, RoundedUp
  <2>4. Wrap(start - end - step - 1) = d + s - 1 BY <2>2, WrapNear
  <2>5. IsLong(s)
    BY <2>1, <2>2 DEF IsLong
  <2>6. Wrap(-step) = s BY <2>1, <2>5, WrapNear
  <2>7. IsLong(c) BY <2>2, <2>3 DEF IsLong
  <2>8. Wrap(c) = c BY <2>3, <2>7, WrapNear
  <2>9. RangeCount(start, end, step) = c BY <1>2, <2>1, <2>4, <2>6, <2>8 DEF RangeCount
  <2>10. /\ (c - 1) * s \in Int /\ c * s \in Int
         /\ (c - 1) * step = -((c - 1) * s) /\ c * step = -(c * s)
    BY <2>1, <2>3
  <2>11. d = start - end OBVIOUS
  <2> HIDE DEF c, d, s
  <2> QED BY <1>2, <2>3, <2>9, <2>10, <2>11
<1> QED BY <1>1, <1>2
=============================================================================

----------------------------- MODULE PMapProofs -----------------------------
(***************************************************************************)
(* Theorems about PMap, for every number of rows and of processors and     *)
(* every choice of the rows on which the function panics.                  *)
(***************************************************************************)
EXTENDS PMap, TLAPS

-----------------------------------------------------------------------------
(* Stripes: the numbers with the same remainder.                           *)

LEMMA DivMod ==
    ASSUME NEW a \in Nat, NEW m \in Nat, m > 0
    PROVE  /\ a \div m \in Int
           /\ a % m \in 0 .. m - 1
           /\ a = m * (a \div m) + (a % m)
  OBVIOUS

LEMMA Multiples ==
    ASSUME NEW m \in Nat, NEW p \in Int, NEW q \in Int, p < q
    PROVE  m * p + m <= m * q
<1>1. \E d \in Nat : q = p + 1 + d
  <2>1. q - p - 1 \in Nat /\ q = p + 1 + (q - p - 1)
    OBVIOUS
  <2>2. QED
    BY <2>1
<1>2. PICK d \in Nat : q = p + 1 + d
  BY <1>1
<1>3. m * q = m * p + m + m * d
  BY <1>2
<1>4. m * d >= 0
  OBVIOUS
<1>5. QED
  BY <1>3, <1>4

\* Two numbers of a stripe are m apart or more.
LEMMA StripeGap ==
    ASSUME NEW a \in Nat, NEW b \in Nat, NEW m \in Nat, m > 0,
           a % m = b % m, a < b
    PROVE  a + m <= b
<1> DEFINE p == a \div m
           q == b \div m
           r == a % m
<1>1. p \in Int /\ q \in Int /\ r \in Int
  BY DivMod
<1>2. a = m * p + r /\ b = m * q + r
  BY DivMod
<1> HIDE DEF p, q, r
<1>3. m * p \in Int /\ m * q \in Int
  BY <1>1
<1>4. p < q
  <2>1. CASE q < p
    BY <1>1, <1>2, <1>3, <2>1, Multiples
  <2>2. CASE p = q
    BY <1>1, <1>2, <2>2
  <2>3. QED
    BY <1>1, <2>1, <2>2
<1>5. m * p + m <= m * q
  BY <1>1, <1>4, Multiples
<1>6. QED
  BY <1>1, <1>2, <1>3, <1>5

\* Adding m stays in the stripe.
LEMMA StripeNext ==
    ASSUME NEW a \in Nat, NEW m \in Nat, m > 0
    PROVE  (a + m) % m = a % m
<1> DEFINE p == a \div m
           q == (a + m) \div m
           r == a % m
           s == (a + m) % m
<1>1. p \in Int /\ r \in 0 .. m - 1 /\ a = m * p + r
  BY DivMod
<1>2. q \in Int /\ s \in 0 .. m - 1 /\ a + m = m * q + s
  BY DivMod
<1> HIDE DEF p, q, r, s
<1>3. m * p \in Int /\ m * q \in Int /\ m * (p + 1) = m * p + m
  BY <1>1, <1>2
<1>4. q = p + 1
  <2>1. CASE q < p + 1
    <3>1. m * q + m <= m * (p + 1)
      BY <1>1, <1>2, <2>1, Multiples
    <3>2. QED
      BY <1>1, <1>2, <1>3, <3>1
  <2>2. CASE q > p + 1
    <3>1. m * (p + 1) + m <= m * q
      BY <1>1, <1>2, <2>2, Multiples
    <3>2. QED
      BY <1>1, <1>2, <1>3, <3>1
  <2>3. QED
    BY <1>1, <1>2, <2>1, <2>2
<1>5. r = s
  BY <1>1, <1>2, <1>3, <1>4
<1>6. QED
  BY <1>5 DEF r, s

\* The first row of worker w is w.
LEMMA StripeFirst ==
    ASSUME NEW w \in Nat, NEW m \in Nat, w < m
    PROVE  w % m = w
  OBVIOUS

-----------------------------------------------------------------------------
(* The invariant.                                                          *)

\* What is known of row i when its worker is at row a and in state where.
Row(i, a, where) ==
    /\ i < a => /\ calls[i] = 1
                /\ i \in ended
                /\ i \notin panics
                /\ results[i] = i
    /\ i = a => /\ where = "running" => calls[i] = 0 /\ i \notin ended
                /\ where = "calling" => calls[i] = 1 /\ i \notin ended
                /\ where \in {"panicking", "exiting", "done"} =>
                        calls[i] = 1 /\ i \in ended /\ i \in panics
    /\ i > a => calls[i] = 0 /\ i \notin ended

\* Each row is as the worker of its stripe has left it.
RowsInv ==
    workers > 0 =>
        \A i \in 0 .. rows - 1 : Row(i, at[i % workers], pc[i % workers])

\* Worker w stays in its stripe, calls with rows there are, and is done when its
\* stripe is, or after a panic that has been recorded.
WorkerInv ==
    workers > 0 =>
        \A w \in 0 .. workers - 1 :
            /\ at[w] \in Nat
            /\ at[w] % workers = w
            /\ pc[w] # "absent"
            /\ pc[w] \in {"calling", "panicking", "exiting"} => at[w] < rows
            /\ pc[w] = "exiting" => panicVal # None
            /\ pc[w] = "done" => at[w] >= rows \/ panicVal # None

\* Only numbered workers exist.
AbsentInv == \A w \in Index : w >= workers => pc[w] = "absent"

PanicInv == panicVal # None => panicVal \in ended \cap panics

\* The caller: nothing is called before the workers are started, and there is no
\* answer before the last one is done.
CallerInv ==
    /\ workers = 0 => /\ calls = [i \in Index |-> 0]
                      /\ ended = {}
                      /\ panicVal = None
                      /\ at = [w \in Index |-> w]
    /\ caller = "reading" => workers = 0
    /\ caller = "waiting" => workers > 0
    /\ caller = "over" => /\ \A w \in 0 .. workers - 1 : pc[w] = "done"
                          /\ workers = 0 => answer = Fails \/ rows = 0
    /\ caller # "over" => answer = None

IInv == TypeOK /\ RowsInv /\ WorkerInv /\ AbsentInv /\ PanicInv /\ CallerInv

LEMMA InvInit == Init => IInv
<1> SUFFICES ASSUME Init PROVE IInv
  OBVIOUS
<1> USE PMapAssumption DEF Init, Index
<1>1. TypeOK
  BY DEF TypeOK
<1>2. RowsInv /\ WorkerInv /\ AbsentInv /\ PanicInv /\ CallerInv
  BY DEF RowsInv, WorkerInv, AbsentInv, PanicInv, CallerInv
<1>3. QED
  BY <1>1, <1>2 DEF IInv

\* While the caller reads, the other parts of the invariant say nothing.
LEMMA ReadStep ==
    ASSUME IInv, ReadRow \/ ReadPanics \/ ReturnEmpty
    PROVE  IInv'
<1> USE PMapAssumption DEF IInv, ReadRow, ReadPanics, ReturnEmpty
<1>1. /\ workers = 0 /\ workers' = 0 /\ caller = "reading"
      /\ ended = {} /\ panicVal = None /\ answer = None
      /\ UNCHANGED <<cpus, panics, workers, pc, at, results, panicVal, calls, ended>>
  BY DEF CallerInv
<1>2. rows' \in 0 .. MaxRows /\ rows \in 0 .. MaxRows
  BY DEF TypeOK
<1>3. caller' \in {"reading", "over"}
  BY <1>1
<1>4. TypeOK'
  BY <1>1, <1>2, <1>3 DEF TypeOK
<1>5. RowsInv' /\ WorkerInv'
  BY <1>1 DEF RowsInv, WorkerInv
<1>6. AbsentInv' /\ PanicInv'
  BY <1>1 DEF AbsentInv, PanicInv
<1>7. CallerInv'
  <2>1. caller' = "over" => answer' = Fails \/ rows' = 0
    BY <1>1
  <2>2. caller' # "over" => answer' = None
    BY <1>1
  <2>3. QED
    BY <1>1, <1>3, <2>1, <2>2 DEF CallerInv
<1>8. QED
  BY <1>4, <1>5, <1>6, <1>7

\* The remainder of a row is not beyond the row.
LEMMA StripeBegins ==
    ASSUME NEW i \in Nat, NEW m \in Nat, m > 0
    PROVE  i % m \in 0 .. m - 1 /\ i % m <= i
<1>1. i % m \in 0 .. m - 1
  BY DivMod
<1>2. CASE i < m
  BY <1>2, StripeFirst
<1>3. CASE ~(i < m)
  BY <1>1, <1>3
<1>4. QED
  BY <1>1, <1>2, <1>3

LEMMA StartStep == ASSUME IInv, Start PROVE IInv'
<1> USE PMapAssumption DEF IInv
<1> DEFINE m == WorkerCount
<1>1. rows \in Nat /\ rows > 0 /\ rows <= MaxRows /\ cpus \in Nat /\ cpus > 0
  BY DEF Start, TypeOK
<1>2. m \in 1 .. rows
  BY <1>1 DEF WorkerCount
<1> HIDE DEF m
<1>3. /\ workers' = m
      /\ pc' = [w \in Index |-> IF w < m THEN "running" ELSE "absent"]
      /\ caller = "reading" /\ caller' = "waiting"
      /\ UNCHANGED <<cpus, panics, rows, at, results, panicVal, answer, calls, ended>>
  BY DEF Start, m
<1>4. /\ calls = [i \in Index |-> 0]
      /\ ended = {}
      /\ panicVal = None
      /\ answer = None
      /\ at = [w \in Index |-> w]
  BY <1>3 DEF CallerInv
<1>5. 0 .. m - 1 \subseteq Index /\ 0 .. rows - 1 \subseteq Index
  BY <1>1, <1>2 DEF Index
<1>6. TypeOK'
  BY <1>1, <1>2, <1>3 DEF TypeOK
<1>7. RowsInv'
  <2> SUFFICES ASSUME NEW i \in 0 .. rows - 1
               PROVE  Row(i, at[i % workers], pc[i % workers])'
    BY <1>3 DEF RowsInv
  <2>1. PICK v \in 0 .. m - 1 : v = i % workers' /\ v <= i
    BY <1>1, <1>2, <1>3, StripeBegins
  <2>2. v \in Index /\ i \in Index /\ v < m
    BY <1>2, <1>5
  <2>3. at'[v] = v /\ pc'[v] = "running" /\ calls'[i] = 0 /\ ended' = {}
    BY <1>3, <1>4, <2>2
  <2>4. QED
    BY <1>1, <2>1, <2>3 DEF Row
<1>8. WorkerInv'
  <2> SUFFICES ASSUME NEW w \in 0 .. m - 1
               PROVE  at'[w] = w /\ w % m = w /\ pc'[w] = "running" /\ w \in Nat
    BY <1>3 DEF WorkerInv
  <2>1. w \in Index /\ w < m /\ w \in Nat
    BY <1>2, <1>5
  <2>2. QED
    BY <1>2, <1>3, <1>4, <2>1, StripeFirst
<1>9. AbsentInv'
  BY <1>2, <1>3 DEF AbsentInv, Index
<1>10. PanicInv' /\ CallerInv'
  BY <1>2, <1>3, <1>4 DEF PanicInv, CallerInv
<1>11. QED
  BY <1>6, <1>7, <1>8, <1>9, <1>10

\* The end of the wait changes nothing that the workers have left.
LEMMA WaitStep == ASSUME IInv, ReturnResults \/ RaisePanic PROVE IInv'
<1> USE PMapAssumption DEF IInv
<1>1. /\ caller = "waiting" /\ caller' = "over" /\ AllDone
      /\ UNCHANGED <<cpus, panics, rows, workers, pc, at, results, panicVal, calls,
                     ended>>
  BY DEF ReturnResults, RaisePanic, WaitOver
<1>2. TypeOK'
  BY <1>1 DEF TypeOK
<1>3. RowsInv' /\ WorkerInv' /\ AbsentInv' /\ PanicInv'
  BY <1>1 DEF RowsInv, Row, WorkerInv, AbsentInv, PanicInv
<1>4. CallerInv'
  BY <1>1 DEF CallerInv, AllDone, TypeOK
<1>5. QED
  BY <1>2, <1>3, <1>4

-----------------------------------------------------------------------------
(* The workers.                                                            *)

\* A worker that takes a step is one of those that were started.
LEMMA WorkerFacts ==
    ASSUME IInv, NEW w \in Index, pc[w] # "absent"
    PROVE  /\ workers \in Nat /\ workers > 0 /\ rows \in Nat /\ workers <= rows
           /\ rows <= MaxRows /\ MaxRows \in Nat
           /\ w \in 0 .. workers - 1
           /\ at[w] \in Nat /\ at[w] % workers = w
           /\ caller = "waiting" \/ (caller = "over" /\ pc[w] = "done")
           /\ pc[w] \in {"calling", "panicking", "exiting"} => at[w] < rows
  <1> USE PMapAssumption DEF IInv
  <1>1. /\ workers \in Nat /\ rows \in Nat /\ workers <= rows
        /\ rows <= MaxRows /\ MaxRows \in Nat /\ w \in Nat
    BY DEF TypeOK, Index
  <1>2. w < workers
    BY <1>1 DEF AbsentInv
  <1>3. workers > 0 /\ w \in 0 .. workers - 1
    BY <1>1, <1>2
  <1>4. /\ at[w] \in Nat /\ at[w] % workers = w
        /\ pc[w] \in {"calling", "panicking", "exiting"} => at[w] < rows
    BY <1>3 DEF WorkerInv
  <1>5. caller = "waiting" \/ (caller = "over" /\ pc[w] = "done")
    BY <1>3 DEF CallerInv, TypeOK
  <1>6. QED
    BY <1>1, <1>3, <1>4, <1>5

\* The types of what a worker may write.
LEMMA WorkerTypes ==
    ASSUME IInv, NEW w \in Index,
           UNCHANGED <<cpus, panics, rows, workers, caller>>,
           pc' \in [Index -> {"absent", "running", "calling", "panicking", "exiting",
                             "done"}],
           at' \in [Index -> 0 .. 2 * MaxRows],
           results' \in [Index -> Index \cup {NoValue}],
           panicVal' \in Index \cup {None},
           calls' \in [Index -> Nat],
           ended' \subseteq 0 .. rows - 1
    PROVE  TypeOK'
  BY DEF IInv, TypeOK

\* A step of worker w that disturbs no row but its own leaves the others as they
\* were: it is enough to look at the stripe of w.
LEMMA OneStripe ==
    ASSUME IInv, NEW w \in Index, pc[w] # "absent",
           UNCHANGED <<panics, rows, workers>>,
           \A v \in Index \ {w} : pc'[v] = pc[v] /\ at'[v] = at[v],
           \A i \in Index \ {at[w]} : /\ calls'[i] = calls[i]
                                     /\ results'[i] = results[i]
                                     /\ (i \in ended' <=> i \in ended),
           \A i \in 0 .. rows - 1 :
               i % workers = w /\ Row(i, at[w], pc[w]) => Row(i, at[w], pc[w])'
    PROVE  RowsInv'
<1> SUFFICES ASSUME NEW i \in 0 .. rows - 1
             PROVE  Row(i, at[i % workers], pc[i % workers])'
  BY DEF RowsInv
<1>1. /\ workers \in Nat /\ workers > 0 /\ rows \in Nat /\ workers <= rows
      /\ rows <= MaxRows /\ MaxRows \in Nat /\ at[w] % workers = w
  BY WorkerFacts
<1>2. PICK v : v = i % workers
  OBVIOUS
<1>3. v \in Index /\ i \in Index /\ i \in Nat
  <2>1. v \in 0 .. workers - 1 /\ i \in Nat
    BY <1>1, <1>2, StripeBegins
  <2>2. QED
    BY <1>1, <2>1 DEF Index
<1>4. Row(i, at[v], pc[v])
  BY <1>1, <1>2 DEF IInv, RowsInv
<1>5. Row(i, at[v], pc[v])'
  <2>1. CASE v = w
    BY <1>2, <1>4, <2>1
  <2>2. CASE v # w
    <3>1. i # at[w]
      BY <1>1, <1>2, <2>2
    <3>2. at'[v] = at[v] /\ pc'[v] = pc[v]
      BY <1>3, <2>2
    <3>3. i \in Index \ {at[w]}
      BY <1>3, <3>1
    <3>4. calls'[i] = calls[i] /\ results'[i] = results[i]
      BY <3>3
    <3>5. i \in ended' <=> i \in ended
      BY <3>3
    <3>6. QED
      BY <1>4, <3>2, <3>4, <3>5 DEF Row
  <2>3. QED
    BY <2>1, <2>2
<1>6. v = i % workers'
  BY <1>2
<1>7. QED
  BY <1>5, <1>6

LEMMA CallStep ==
    ASSUME IInv, NEW w \in Index, Call(w) PROVE IInv'
<1> USE PMapAssumption DEF IInv
<1>1. /\ pc[w] = "running" /\ at[w] < rows
      /\ calls' = [calls EXCEPT ![at[w]] = @ + 1]
      /\ pc' = [pc EXCEPT ![w] = "calling"]
      /\ UNCHANGED <<cpus, panics, rows, workers, caller, at, results, panicVal, answer,
                     ended>>
  BY DEF Call, Goto
<1>2. /\ workers \in Nat /\ workers > 0 /\ rows \in Nat /\ rows <= MaxRows
      /\ MaxRows \in Nat /\ w \in 0 .. workers - 1
      /\ at[w] \in Nat /\ at[w] % workers = w /\ caller = "waiting"
  BY <1>1, WorkerFacts
<1>3. /\ pc \in [Index -> {"absent", "running", "calling", "panicking", "exiting", "done"}]
      /\ calls \in [Index -> Nat]
      /\ at[w] \in Index
  <2>1. /\ pc \in [Index -> {"absent", "running", "calling", "panicking", "exiting", "done"}]
        /\ calls \in [Index -> Nat]
    BY DEF TypeOK
  <2>2. at[w] \in Index
    BY <1>1, <1>2 DEF Index
  <2>3. QED
    BY <2>1, <2>2
<1>4. /\ \A i \in Index \ {at[w]} : calls'[i] = calls[i]
      /\ calls'[at[w]] = calls[at[w]] + 1
      /\ \A v \in Index \ {w} : pc'[v] = pc[v]
      /\ pc'[w] = "calling"
  BY <1>1, <1>3
<1>5. TypeOK'
  <2>1. calls' \in [Index -> Nat]
    BY <1>1, <1>3
  <2>2. pc' \in [Index -> {"absent", "running", "calling", "panicking", "exiting", "done"}]
    BY <1>1, <1>3
  <2>3. QED
    BY <1>1, <2>1, <2>2, WorkerTypes DEF TypeOK
<1>6. RowsInv'
  <2>1. ASSUME NEW i \in 0 .. rows - 1, i % workers = w, Row(i, at[w], pc[w])
        PROVE  Row(i, at[w], pc[w])'
    <3>1. i \in Index
      BY <1>2 DEF Index
    <3>2. CASE i = at[w]
      <4>1. calls[i] = 0 /\ i \notin ended
        BY <1>1, <2>1, <3>2 DEF Row
      <4>2. calls'[i] = 1 /\ i \notin ended'
        BY <1>1, <1>4, <3>2, <4>1
      <4>3. QED
        BY <1>1, <1>2, <1>4, <3>2, <4>2 DEF Row
    <3>3. CASE i # at[w]
      BY <1>1, <1>4, <2>1, <3>1, <3>3 DEF Row
    <3>4. QED
      BY <3>2, <3>3
  <2>2. QED
    BY <1>1, <1>4, <2>1, OneStripe
<1>7. WorkerInv'
  BY <1>1, <1>2, <1>3 DEF WorkerInv, Index
<1>8. AbsentInv'
  BY <1>1, <1>2, <1>3 DEF AbsentInv, Index
<1>9. PanicInv' /\ CallerInv'
  BY <1>1, <1>2 DEF PanicInv, CallerInv
<1>10. QED
  BY <1>5, <1>6, <1>7, <1>8, <1>9

LEMMA CallReturnsStep ==
    ASSUME IInv, NEW w \in Index, CallReturns(w) PROVE IInv'
<1> USE PMapAssumption DEF IInv
<1>1. /\ pc[w] = "calling" /\ at[w] \notin panics
      /\ ended' = ended \cup {at[w]}
      /\ results' = [results EXCEPT ![at[w]] = at[w]]
      /\ at' = [at EXCEPT ![w] = at[w] + workers]
      /\ pc' = [pc EXCEPT ![w] = "running"]
      /\ UNCHANGED <<cpus, panics, rows, workers, caller, panicVal, answer, calls>>
  BY DEF CallReturns, CallEnds, NextRow, Goto
<1>2. /\ workers \in Nat /\ workers > 0 /\ rows \in Nat /\ workers <= rows
      /\ rows <= MaxRows /\ MaxRows \in Nat /\ w \in 0 .. workers - 1
      /\ at[w] \in Nat /\ at[w] % workers = w /\ caller = "waiting"
      /\ at[w] < rows
  BY <1>1, WorkerFacts
<1>3. /\ pc \in [Index -> {"absent", "running", "calling", "panicking", "exiting", "done"}]
      /\ at \in [Index -> 0 .. 2 * MaxRows]
      /\ results \in [Index -> Index \cup {NoValue}]
      /\ at[w] \in Index
  <2>1. /\ pc \in [Index -> {"absent", "running", "calling", "panicking", "exiting", "done"}]
        /\ at \in [Index -> 0 .. 2 * MaxRows]
        /\ results \in [Index -> Index \cup {NoValue}]
    BY DEF TypeOK
  <2>2. at[w] \in Index
    BY <1>2 DEF Index
  <2>3. QED
    BY <2>1, <2>2
<1>4. /\ \A i \in Index \ {at[w]} : results'[i] = results[i]
      /\ results'[at[w]] = at[w]
      /\ \A v \in Index \ {w} : pc'[v] = pc[v] /\ at'[v] = at[v]
      /\ pc'[w] = "running" /\ at'[w] = at[w] + workers
      /\ \A i \in Index \ {at[w]} : i \in ended' <=> i \in ended
  BY <1>1, <1>3
<1>5. TypeOK'
  <2>1. results' \in [Index -> Index \cup {NoValue}]
    BY <1>1, <1>3
  <2>2. pc' \in [Index -> {"absent", "running", "calling", "panicking", "exiting", "done"}]
    BY <1>1, <1>3
  <2>3. at' \in [Index -> 0 .. 2 * MaxRows]
    <3>1. at[w] + workers \in 0 .. 2 * MaxRows
      BY <1>2
    <3>2. QED
      BY <1>1, <1>3, <3>1
  <2>4. ended' \subseteq 0 .. rows - 1
    <3>1. ended \subseteq 0 .. rows - 1
      BY DEF TypeOK
    <3>2. at[w] \in 0 .. rows - 1
      BY <1>2
    <3>3. QED
      BY <1>1, <3>1, <3>2
  <2>5. QED
    BY <1>1, <2>1, <2>2, <2>3, <2>4, WorkerTypes DEF TypeOK
<1>6. RowsInv'
  <2>1. ASSUME NEW i \in 0 .. rows - 1, i % workers = w, Row(i, at[w], pc[w])
        PROVE  Row(i, at[w], pc[w])'
    <3>1. i \in Index /\ i \in Nat
      BY <1>2 DEF Index
    <3>2. CASE i = at[w]
      <4>1. calls[i] = 1 /\ i < at'[w]
        BY <1>1, <1>2, <1>4, <2>1, <3>2 DEF Row
      <4>2. calls'[i] = 1 /\ i \in ended' /\ i \notin panics' /\ results'[i] = i
        BY <1>1, <1>4, <3>2, <4>1
      <4>3. QED
        BY <1>2, <1>4, <3>1, <4>1, <4>2 DEF Row
    <3>3. CASE i < at[w]
      <4>1. i < at'[w] /\ i # at[w]
        BY <1>2, <1>4, <3>1, <3>3
      <4>2. calls[i] = 1 /\ i \in ended /\ i \notin panics /\ results[i] = i
        BY <2>1, <3>3 DEF Row
      <4>3. calls'[i] = 1 /\ i \in ended' /\ i \notin panics' /\ results'[i] = i
        BY <1>1, <1>4, <3>1, <4>1, <4>2
      <4>4. QED
        BY <1>2, <1>4, <3>1, <4>1, <4>3 DEF Row
    <3>4. CASE i > at[w]
      <4>1. at'[w] <= i /\ i # at[w]
        <5>1. at[w] % workers = i % workers /\ at[w] < i
          BY <1>2, <2>1, <3>1, <3>4
        <5>2. at[w] + workers <= i
          BY <1>2, <3>1, <5>1, StripeGap
        <5>3. QED
          BY <1>2, <1>4, <3>1, <5>2
      <4>2. calls[i] = 0 /\ i \notin ended
        BY <2>1, <3>4 DEF Row
      <4>3. calls'[i] = 0 /\ i \notin ended'
        BY <1>1, <4>1, <4>2
      <4>4. QED
        BY <1>2, <1>4, <3>1, <4>1, <4>3 DEF Row
    <3>5. QED
      BY <1>2, <3>1, <3>2, <3>3, <3>4
  <2>2. QED
    BY <1>1, <1>4, <2>1, OneStripe
<1>7. WorkerInv'
  <2>1. at[w] + workers \in Nat
    BY <1>2
  <2>2. (at[w] + workers) % workers = at[w] % workers
    BY <1>2, StripeNext
  <2>3. QED
    BY <1>1, <1>2, <1>4, <2>1, <2>2 DEF WorkerInv, Index
<1>8. AbsentInv'
  BY <1>1, <1>2, <1>3 DEF AbsentInv, Index
<1>9. PanicInv' /\ CallerInv'
  BY <1>1, <1>2 DEF PanicInv, CallerInv
<1>10. QED
  BY <1>5, <1>6, <1>7, <1>8, <1>9

LEMMA CallPanicsStep ==
    ASSUME IInv, NEW w \in Index, CallPanics(w) PROVE IInv'
<1> USE PMapAssumption DEF IInv
<1>1. /\ pc[w] = "calling" /\ at[w] \in panics
      /\ ended' = ended \cup {at[w]}
      /\ pc' = [pc EXCEPT ![w] = "panicking"]
      /\ UNCHANGED <<cpus, panics, rows, workers, caller, at, results, panicVal, answer,
                     calls>>
  BY DEF CallPanics, CallEnds, Goto
<1>2. /\ workers \in Nat /\ workers > 0 /\ rows \in Nat /\ workers <= rows
      /\ rows <= MaxRows /\ MaxRows \in Nat /\ w \in 0 .. workers - 1
      /\ at[w] \in Nat /\ at[w] % workers = w /\ caller = "waiting"
      /\ at[w] < rows
  BY <1>1, WorkerFacts
<1>3. /\ pc \in [Index -> {"absent", "running", "calling", "panicking", "exiting", "done"}]
      /\ at[w] \in Index
  <2>1. /\ pc \in [Index -> {"absent", "running", "calling", "panicking", "exiting", "done"}]
    BY DEF TypeOK
  <2>2. at[w] \in Index
    BY <1>2 DEF Index
  <2>3. QED
    BY <2>1, <2>2
<1>4. /\ \A v \in Index \ {w} : pc'[v] = pc[v]
      /\ pc'[w] = "panicking"
      /\ \A i \in Index \ {at[w]} : i \in ended' <=> i \in ended
  BY <1>1, <1>3
<1>5. TypeOK'
  <2>1. pc' \in [Index -> {"absent", "running", "calling", "panicking", "exiting", "done"}]
    BY <1>1, <1>3
  <2>2. ended' \subseteq 0 .. rows - 1
    <3>1. ended \subseteq 0 .. rows - 1
      BY DEF TypeOK
    <3>2. at[w] \in 0 .. rows - 1
      BY <1>2
    <3>3. QED
      BY <1>1, <3>1, <3>2
  <2>3. QED
    BY <1>1, <2>1, <2>2, WorkerTypes DEF TypeOK
<1>6. RowsInv'
  <2>1. ASSUME NEW i \in 0 .. rows - 1, i % workers = w, Row(i, at[w], pc[w])
        PROVE  Row(i, at[w], pc[w])'
    <3>1. i \in Index
      BY <1>2 DEF Index
    <3>2. CASE i = at[w]
      <4>1. calls'[i] = 1 /\ i \in ended' /\ i \in panics'
        BY <1>1, <2>1, <3>2 DEF Row
      <4>2. QED
        BY <1>1, <1>2, <1>4, <3>2, <4>1 DEF Row
    <3>3. CASE i # at[w]
      BY <1>1, <1>4, <2>1, <3>1, <3>3 DEF Row
    <3>4. QED
      BY <3>2, <3>3
  <2>2. QED
    BY <1>1, <1>4, <2>1, OneStripe
<1>7. WorkerInv'
  BY <1>1, <1>2, <1>4 DEF WorkerInv, Index
<1>8. AbsentInv'
  BY <1>1, <1>2, <1>3 DEF AbsentInv, Index
<1>9. PanicInv' /\ CallerInv'
  BY <1>1, <1>2 DEF PanicInv, CallerInv
<1>10. QED
  BY <1>5, <1>6, <1>7, <1>8, <1>9

LEMMA RecordPanicStep ==
    ASSUME IInv, NEW w \in Index, RecordPanic(w) PROVE IInv'
<1> USE PMapAssumption DEF IInv
<1>1. /\ pc[w] = "panicking"
      /\ panicVal' = IF panicVal = None THEN at[w] ELSE panicVal
      /\ pc' = [pc EXCEPT ![w] = "exiting"]
      /\ UNCHANGED <<cpus, panics, rows, workers, caller, at, results, answer, calls,
                     ended>>
  BY DEF RecordPanic, Goto
<1>2. /\ workers \in Nat /\ workers > 0 /\ rows \in Nat /\ workers <= rows
      /\ rows <= MaxRows /\ MaxRows \in Nat /\ w \in 0 .. workers - 1
      /\ at[w] \in Nat /\ at[w] % workers = w /\ caller = "waiting"
      /\ at[w] < rows
  BY <1>1, WorkerFacts
<1>3. /\ pc \in [Index -> {"absent", "running", "calling", "panicking", "exiting", "done"}]
      /\ at[w] \in Index
      /\ panicVal \in Index \cup {None}
  <2>1. /\ pc \in [Index -> {"absent", "running", "calling", "panicking", "exiting", "done"}]
        /\ panicVal \in Index \cup {None}
    BY DEF TypeOK
  <2>2. at[w] \in Index
    BY <1>2 DEF Index
  <2>3. QED
    BY <2>1, <2>2
<1>4. /\ \A v \in Index \ {w} : pc'[v] = pc[v]
      /\ pc'[w] = "exiting"
  BY <1>1, <1>3
<1>5. panicVal' \in Index /\ panicVal' # None
  BY <1>1, <1>3 DEF Index
<1>6. TypeOK'
  <2>1. pc' \in [Index -> {"absent", "running", "calling", "panicking", "exiting", "done"}]
    BY <1>1, <1>3
  <2>2. QED
    BY <1>1, <1>5, <2>1, WorkerTypes DEF TypeOK
<1>7. RowsInv'
  <2>1. ASSUME NEW i \in 0 .. rows - 1, i % workers = w, Row(i, at[w], pc[w])
        PROVE  Row(i, at[w], pc[w])'
    BY <1>1, <1>4, <2>1 DEF Row
  <2>2. QED
    BY <1>1, <1>4, <2>1, OneStripe
<1>8. WorkerInv'
  BY <1>1, <1>2, <1>4, <1>5 DEF WorkerInv, Index
<1>9. AbsentInv'
  BY <1>1, <1>2, <1>3 DEF AbsentInv, Index
<1>10. PanicInv'
  <2>1. at[w] \in ended \cap panics
    <3>1. Row(at[w], at[w], pc[w])
      BY <1>2 DEF RowsInv
    <3>2. QED
      BY <1>1, <1>2, <3>1 DEF Row
  <2>2. QED
    BY <1>1, <2>1 DEF PanicInv
<1>11. CallerInv'
  BY <1>1, <1>2 DEF CallerInv
<1>12. QED
  BY <1>6, <1>7, <1>8, <1>9, <1>10, <1>11

LEMMA DoneStep ==
    ASSUME IInv, NEW w \in Index, Done(w) PROVE IInv'
<1> USE PMapAssumption DEF IInv
<1>1. /\ pc[w] = "exiting" \/ (pc[w] = "running" /\ at[w] >= rows)
      /\ pc' = [pc EXCEPT ![w] = "done"]
      /\ UNCHANGED <<cpus, panics, rows, workers, caller, at, results, panicVal, answer,
                     calls, ended>>
  BY DEF Done, Goto
<1>2. /\ workers \in Nat /\ workers > 0 /\ rows \in Nat /\ workers <= rows
      /\ rows <= MaxRows /\ MaxRows \in Nat /\ w \in 0 .. workers - 1
      /\ at[w] \in Nat /\ at[w] % workers = w /\ caller = "waiting"
      /\ pc[w] = "exiting" => panicVal # None
  BY <1>1, WorkerFacts DEF WorkerInv
<1>3. pc \in [Index -> {"absent", "running", "calling", "panicking", "exiting", "done"}]
  BY DEF TypeOK
<1>4. /\ \A v \in Index \ {w} : pc'[v] = pc[v]
      /\ pc'[w] = "done"
  BY <1>1, <1>3
<1>5. TypeOK'
  <2>1. pc' \in [Index -> {"absent", "running", "calling", "panicking", "exiting", "done"}]
    BY <1>1, <1>3
  <2>2. QED
    BY <1>1, <2>1, WorkerTypes DEF TypeOK
<1>6. RowsInv'
  <2>1. ASSUME NEW i \in 0 .. rows - 1, i % workers = w, Row(i, at[w], pc[w])
        PROVE  Row(i, at[w], pc[w])'
    <3>1. CASE pc[w] = "exiting"
      BY <1>1, <1>4, <2>1, <3>1 DEF Row
    <3>2. CASE at[w] >= rows
      <4>1. i < at[w]
        BY <1>2, <3>2
      <4>2. QED
        BY <1>1, <1>2, <2>1, <4>1 DEF Row
    <3>3. QED
      BY <1>1, <3>1, <3>2
  <2>2. QED
    BY <1>1, <1>4, <2>1, OneStripe
<1>7. WorkerInv'
  BY <1>1, <1>2, <1>4 DEF WorkerInv, Index
<1>8. AbsentInv'
  BY <1>1, <1>2, <1>3 DEF AbsentInv, Index
<1>9. PanicInv' /\ CallerInv'
  BY <1>1, <1>2 DEF PanicInv, CallerInv
<1>10. QED
  BY <1>5, <1>6, <1>7, <1>8, <1>9

-----------------------------------------------------------------------------
(* The theorems.                                                           *)

LEMMA InvStep == IInv /\ [Next]_vars => IInv'
<1> SUFFICES ASSUME IInv, [Next]_vars PROVE IInv'
  OBVIOUS
<1>1. CASE ReadRow \/ ReadPanics \/ ReturnEmpty
  BY <1>1, ReadStep
<1>2. CASE Start
  BY <1>2, StartStep
<1>3. CASE ReturnResults \/ RaisePanic
  BY <1>3, WaitStep
<1>4. ASSUME NEW w \in Index, Worker(w) PROVE IInv'
  BY <1>4, CallStep, CallReturnsStep, CallPanicsStep, RecordPanicStep, DoneStep DEF Worker
<1>5. CASE UNCHANGED vars
  BY <1>5 DEF vars, IInv, TypeOK, RowsInv, Row, WorkerInv, AbsentInv, PanicInv, CallerInv
<1>6. QED
  BY <1>1, <1>2, <1>3, <1>4, <1>5 DEF Next, Caller

LEMMA InductiveInvariant == Spec => []IInv
  BY InvInit, InvStep, PTL DEF Spec

\* The variables of pmap keep their types: no more workers than rows, no call beyond
\* the last row.
THEOREM TypeCorrect == Spec => []TypeOK
<1>1. IInv => TypeOK
  BY DEF IInv
<1>2. QED
  BY <1>1, InductiveInvariant, PTL

\* Where a worker that is done has left the rows of its stripe.
LEMMA OverRow ==
    ASSUME IInv, caller \in {"waiting", "over"}, AllDone, workers > 0,
           NEW i \in 0 .. rows - 1, NEW w, w = i % workers
    PROVE  /\ w \in 0 .. workers - 1 /\ at[w] \in Nat /\ at[w] % workers = w
           /\ i \in Nat /\ rows \in Nat /\ workers \in Nat
           /\ i < at[w] => calls[i] = 1 /\ i \in ended /\ i \notin panics /\ results[i] = i
           /\ i = at[w] => calls[i] = 1 /\ i \in ended /\ i \in panics
           /\ i > at[w] => calls[i] = 0 /\ i \notin ended
<1> USE PMapAssumption DEF IInv
<1>1. rows \in Nat /\ workers \in Nat /\ i \in Nat
  BY DEF TypeOK
<1>2. w \in 0 .. workers - 1
  BY <1>1, StripeBegins
<1>3. at[w] \in Nat /\ at[w] % workers = w /\ pc[w] = "done"
  BY <1>2 DEF WorkerInv, AllDone
<1>4. Row(i, at[w], pc[w])
  BY DEF RowsInv
<1>5. QED
  BY <1>1, <1>2, <1>3, <1>4 DEF Row

\* The rows that pmap never passes to the function are those that come after a
\* panic in the stripe of their worker, and no others.
THEOREM OnlyStripeAbandonedCorrect == Spec => []OnlyStripeAbandoned
<1>1. ASSUME IInv PROVE OnlyStripeAbandoned
  <2> SUFFICES ASSUME caller = "over", answer # Fails, NEW i \in 0 .. rows - 1
               PROVE  calls[i] = 0
                        <=> \E p \in ended \cap panics : p < i /\ p % workers = i % workers
    BY DEF OnlyStripeAbandoned
  <2>1. rows \in Nat /\ workers \in Nat /\ i \in Nat /\ ended \subseteq 0 .. rows - 1
    BY <1>1, PMapAssumption DEF IInv, TypeOK
  <2>2. workers > 0 /\ AllDone
    BY <1>1, <2>1 DEF IInv, CallerInv, AllDone
  <2>3. PICK w : w = i % workers
    OBVIOUS
  <2>4. /\ w \in 0 .. workers - 1 /\ at[w] \in Nat /\ at[w] % workers = w
        /\ i <= at[w] => calls[i] = 1
        /\ i > at[w] => calls[i] = 0
    BY <1>1, <2>1, <2>2, <2>3, OverRow
  <2>5. ASSUME calls[i] = 0
        PROVE  \E p \in ended \cap panics : p < i /\ p % workers = i % workers
    <3>1. at[w] < i
      BY <2>1, <2>4, <2>5
    <3>2. at[w] \in 0 .. rows - 1
      BY <2>1, <2>4, <3>1
    <3>3. w = at[w] % workers
      BY <2>4
    <3>4. at[w] \in ended /\ at[w] \in panics
      BY <1>1, <2>2, <3>2, <3>3, OverRow
    <3>5. QED
      BY <2>3, <2>4, <3>1, <3>4
  <2>6. ASSUME NEW p \in ended \cap panics, p < i, p % workers = i % workers
        PROVE  calls[i] = 0
    <3>1. p \in 0 .. rows - 1
      BY <2>1
    <3>2. w = p % workers
      BY <2>3, <2>6
    <3>3. p \in ended /\ p \in panics
      OBVIOUS
    <3>4. ~(p < at[w]) /\ ~(p > at[w])
      BY <1>1, <2>2, <3>1, <3>2, <3>3, OverRow
    <3>5. QED
      BY <2>1, <2>4, <2>6, <3>1, <3>4
  <2>7. QED
    BY <2>5, <2>6
<1>2. QED
  BY <1>1, InductiveInvariant, PTL

\* pmap is a parallel map: each row is passed to the function at most once, the
\* answer is that of map or the panic of one of the calls, and no call is running
\* when it comes.
THEOREM PMapImplementsMap == Spec => ImplementsMap
<1> USE DEF MapSpec!Rows
<1>1. Init => MapSpec!Init
  BY DEF Init, MapSpec!Init
<1>2. ASSUME IInv, [Next]_vars
      PROVE  [MapSpec!Next]_<<rows, panics, calls, ended, answer>>
  <2> USE PMapAssumption
  <2>1. ASSUME ReadRow PROVE MapSpec!Read
    BY <1>2, <2>1 DEF ReadRow, MapSpec!Read, IInv, CallerInv
  <2>2. ASSUME ReadPanics PROVE MapSpec!ReadFails
    BY <1>2, <2>2 DEF ReadPanics, MapSpec!ReadFails, IInv, CallerInv
  <2>3. ASSUME ReturnEmpty PROVE MapSpec!Return
    <3>1. answer = None /\ ended = {} /\ rows = 0
      BY <1>2, <2>3 DEF ReturnEmpty, IInv, CallerInv
    <3>2. 0 .. rows - 1 = {}
      BY <3>1
    <3>3. QED
      BY <2>3, <3>1, <3>2 DEF ReturnEmpty, MapSpec!Return
  <2>4. ASSUME ReturnResults \/ RaisePanic
        PROVE  MapSpec!Return \/ \E i \in 0 .. rows - 1 : MapSpec!Raise(i)
    <3>1. /\ caller = "waiting" /\ AllDone /\ answer = None /\ workers > 0
          /\ UNCHANGED <<rows, panics, calls, ended>>
      BY <1>2, <2>4 DEF ReturnResults, RaisePanic, WaitOver, IInv, CallerInv
    <3>2. /\ rows \in Nat /\ workers \in Nat /\ ended \subseteq 0 .. rows - 1
          /\ panicVal # None => panicVal \in ended \cap panics
      BY <1>2 DEF IInv, TypeOK, PanicInv
    <3>3. ASSUME NEW i \in 0 .. rows - 1
          PROVE  /\ (calls[i] = 1 <=> i \in ended)
                 /\ panicVal = None => i \in ended /\ i \notin panics /\ results[i] = i
      <4>1. PICK w : w = i % workers
        OBVIOUS
      <4>2. /\ w \in 0 .. workers - 1 /\ at[w] \in Nat /\ i \in Nat
            /\ i < at[w] => calls[i] = 1 /\ i \in ended /\ i \notin panics
                              /\ results[i] = i
            /\ i = at[w] => calls[i] = 1 /\ i \in ended
            /\ i > at[w] => calls[i] = 0 /\ i \notin ended
        BY <1>2, <3>1, <4>1, OverRow
      <4>3. (calls[i] = 1 <=> i \in ended)
        BY <4>2
      <4>4. panicVal = None => at[w] >= rows
        BY <1>2, <3>1, <4>2 DEF IInv, WorkerInv, AllDone
      <4>5. panicVal = None => i < at[w]
        BY <3>2, <4>2, <4>4
      <4>6. QED
        BY <4>2, <4>3, <4>5
    <3>4. ASSUME ReturnResults PROVE MapSpec!Return
      <4>1. panicVal = None /\ answer' = [i \in 0 .. rows - 1 |-> results[i]]
        BY <3>4 DEF ReturnResults
      <4>2. ended = 0 .. rows - 1 /\ ended \cap panics = {}
        BY <3>2, <3>3, <4>1
      <4>3. answer' = [i \in 0 .. rows - 1 |-> i]
        BY <3>3, <4>1
      <4>4. QED
        BY <3>1, <4>2, <4>3 DEF MapSpec!Return
    <3>5. ASSUME RaisePanic PROVE \E i \in 0 .. rows - 1 : MapSpec!Raise(i)
      <4>1. panicVal \in ended \cap panics /\ answer' = panicVal
        BY <3>2, <3>5 DEF RaisePanic
      <4>2. ended = {j \in 0 .. rows - 1 : calls[j] = 1}
        BY <3>2, <3>3
      <4>3. panicVal \in 0 .. rows - 1
        BY <3>2, <4>1
      <4>4. MapSpec!Raise(panicVal)
        BY <3>1, <4>1, <4>2 DEF MapSpec!Raise
      <4>5. QED
        BY <4>3, <4>4
    <3>6. QED
      BY <2>4, <3>4, <3>5
  <2>5. ASSUME NEW w \in Index, Worker(w)
        PROVE  \/ \E i \in 0 .. rows - 1 : MapSpec!Begin(i) \/ MapSpec!End(i)
               \/ UNCHANGED <<rows, panics, calls, ended, answer>>
    <3>1. CASE RecordPanic(w) \/ Done(w)
      BY <3>1 DEF RecordPanic, Done
    <3>2. CASE Call(w)
      <4>1. /\ pc[w] = "running" /\ at[w] < rows
            /\ calls' = [calls EXCEPT ![at[w]] = @ + 1]
            /\ UNCHANGED <<rows, panics, ended, answer>>
        BY <3>2 DEF Call
      <4>2. /\ workers \in Nat /\ workers > 0 /\ rows \in Nat /\ at[w] \in Nat
            /\ at[w] % workers = w /\ answer = None
        BY <1>2, <4>1, WorkerFacts DEF IInv, CallerInv
      <4>3. at[w] \in 0 .. rows - 1
        BY <4>1, <4>2
      <4>4. Row(at[w], at[w], pc[w])
        BY <1>2, <4>2, <4>3 DEF IInv, RowsInv
      <4>5. calls[at[w]] = 0
        BY <4>1, <4>4 DEF Row
      <4>6. calls' = [calls EXCEPT ![at[w]] = 1]
        BY <4>1, <4>5
      <4>7. MapSpec!Begin(at[w])
        BY <4>1, <4>2, <4>5, <4>6 DEF MapSpec!Begin
      <4>8. QED
        BY <4>3, <4>7
    <3>3. CASE CallReturns(w) \/ CallPanics(w)
      <4>1. /\ pc[w] = "calling" /\ ended' = ended \cup {at[w]}
            /\ UNCHANGED <<rows, panics, calls, answer>>
        BY <3>3 DEF CallReturns, CallPanics, CallEnds
      <4>2. /\ workers \in Nat /\ workers > 0 /\ rows \in Nat /\ at[w] \in Nat
            /\ at[w] % workers = w /\ at[w] < rows
        BY <1>2, <4>1, WorkerFacts
      <4>3. at[w] \in 0 .. rows - 1
        BY <4>2
      <4>4. Row(at[w], at[w], pc[w])
        BY <1>2, <4>2, <4>3 DEF IInv, RowsInv
      <4>5. calls[at[w]] = 1 /\ at[w] \notin ended
        BY <4>1, <4>4 DEF Row
      <4>6. MapSpec!End(at[w])
        BY <4>1, <4>5 DEF MapSpec!End
      <4>7. QED
        BY <4>3, <4>6
    <3>4. QED
      BY <2>5, <3>1, <3>2, <3>3 DEF Worker
  <2>6. ASSUME Start \/ UNCHANGED vars
        PROVE  UNCHANGED <<rows, panics, calls, ended, answer>>
    BY <2>6 DEF Start, vars
  <2>7. QED
    BY <1>2, <2>1, <2>2, <2>3, <2>4, <2>5, <2>6 DEF Next, Caller, MapSpec!Next
<1>3. QED
  BY <1>1, <1>2, InductiveInvariant, PTL DEF Spec, ImplementsMap, MapSpec!Spec
=============================================================================

--------------------------- MODULE LazyListProofs ---------------------------
(***************************************************************************)
(* Theorems about LazyList, for every set of goroutines, every number of   *)
(* elements and every choice of those on which the user's function panics. *)
(***************************************************************************)
EXTENDS LazyList, WellFoundedInduction, TLAPS

\* Whoever is in the producer holds the mutex, works on an element the producer
\* has moved past, and has not added it to the list yet.
ProducerHoldsLock ==
    \A g \in Goroutines :
        pc[g] = "producing" =>
            /\ lock = g
            /\ item[g] \in 1 .. K + 1
            /\ item[g] <= K => Len(nodes) + 1 < next

IInv == TypeOK /\ ProducerHoldsLock /\ OnlyTailLeaks

LEMMA ElementTyping ==
    ASSUME NEW S, NEW s \in Seq(S), NEW i \in 1 .. Len(s)
    PROVE  s[i] \in S
OBVIOUS

\* The variables of which an operation that returns changes only its own part.
LEMMA ReturnsTyping ==
    ASSUME TypeOK, NEW g \in Goroutines, NEW list \in Seq(1 .. K), Len(list) <= K,
           Returns(g, list)
    PROVE  /\ pc' \in [Goroutines -> {"idle", "enter", "producing"}]
           /\ op' \in [Goroutines -> {"peek", "tail"}]
           /\ view' \in [Goroutines -> Start .. End]
           /\ seen' \in [Goroutines -> Seq(1 .. K)]
           /\ pc'[g] # "producing"
           /\ \A h \in Goroutines : h # g => pc'[h] = pc[h]
<1> USE LazyListAssumption DEF TypeOK
<1>1. Here(g) \in Nat /\ Here(g) >= 1
  <2>1. view[g] \in 0 .. K + 1
    BY DEF Start, End
  <2>2. QED
    BY <2>1 DEF Here, Start
<1>2. CASE PeekReturns(g, list)
  <2>1. CASE view[g] # End /\ Here(g) <= Len(list)
    <3> DEFINE longer == Append(seen[g], list[Here(g)])
    <3>1. Here(g) \in 1 .. Len(list)
      BY <1>1, <2>1
    <3>2. list[Here(g)] \in 1 .. K
      BY <3>1, ElementTyping
    <3>3. longer \in Seq(1 .. K)
      BY <3>2
    <3>4. seen' = [seen EXCEPT ![g] = longer] /\ op' = [op EXCEPT ![g] = "tail"]
          /\ pc' = [pc EXCEPT ![g] = "enter"] /\ view' = view
      BY <1>2, <2>1 DEF PeekReturns, Goto
    <3> HIDE DEF longer
    <3>5. seen' \in [Goroutines -> Seq(1 .. K)]
      BY <3>3, <3>4
    <3>6. QED
      BY <3>4, <3>5
  <2>2. CASE ~(view[g] # End /\ Here(g) <= Len(list))
    BY <1>2, <2>2 DEF PeekReturns, Goto
  <2>3. QED
    BY <2>1, <2>2
<1>3. CASE TailReturns(g, list)
  <2>1. Wanted(g) \in Nat
    BY <1>1 DEF Wanted
  <2>2. (IF Wanted(g) <= Len(list) THEN Wanted(g) ELSE End) \in Start .. End
    BY <2>1 DEF Start, End
  <2>3. QED
    BY <1>3, <2>2 DEF TailReturns, Goto
<1>4. QED
  BY <1>2, <1>3 DEF Returns

\* Producing the next element moves the producer on, except at the end.
LEMMA ProduceTyping ==
    ASSUME TypeOK, NEW g \in Goroutines, Produce(g, next)
    PROVE  /\ next' \in 1 .. K + 1
           /\ next' >= next
           /\ item' \in [Goroutines -> 0 .. K + 1]
           /\ item'[g] = next
           /\ \A h \in Goroutines : h # g => item'[h] = item[h]
           /\ next <= K => next' = next + 1
BY LazyListAssumption DEF TypeOK, Produce

\* What the producer has returned fits behind the realized elements.
LEMMA GrownTyping ==
    ASSUME TypeOK, ProducerHoldsLock, NEW g \in Goroutines, pc[g] = "producing"
    PROVE  /\ Grown(g) \in Seq(1 .. K)
           /\ Len(Grown(g)) < next
           /\ Len(Grown(g)) <= K
           /\ Ended(g) \in BOOLEAN
<1> USE LazyListAssumption DEF TypeOK
<1>1. item[g] \in 1 .. K + 1 /\ (item[g] <= K => Len(nodes) + 1 < next)
  BY DEF ProducerHoldsLock
<1>2. CASE item[g] <= K
  <2>1. item[g] \in 1 .. K
    BY <1>1, <1>2
  <2>2. Append(nodes, item[g]) \in Seq(1 .. K) /\ Len(Append(nodes, item[g])) = Len(nodes) + 1
    BY <2>1
  <2>3. QED
    BY <1>1, <1>2, <2>2 DEF Grown, Ended
<1>3. CASE ~(item[g] <= K)
  BY <1>3 DEF Grown, Ended
<1>4. QED
  BY <1>2, <1>3

LEMMA InvInit == Init => IInv
<1> SUFFICES ASSUME Init PROVE IInv
  OBVIOUS
<1> USE LazyListAssumption DEF Init
<1>1. nodes \in Seq(1 .. K) /\ Len(nodes) < next /\ next \in 1 .. K + 1
  OBVIOUS
<1>2. seen \in [Goroutines -> Seq(1 .. K)]
  OBVIOUS
<1>3. /\ view \in [Goroutines -> Start .. End]
      /\ item \in [Goroutines -> 0 .. K + 1]
      /\ walks \in [Goroutines -> 0 .. MaxWalks]
  BY DEF Start, End
<1>4. TypeOK
  BY <1>1, <1>2, <1>3 DEF TypeOK
<1>5. ProducerHoldsLock /\ OnlyTailLeaks
  BY DEF ProducerHoldsLock, OnlyTailLeaks
<1>6. QED
  BY <1>4, <1>5 DEF IInv

LEMMA InvStep == IInv /\ [Next]_vars => IInv'
<1> SUFFICES ASSUME IInv, [Next]_vars PROVE IInv'
  OBVIOUS
<1> USE LazyListAssumption
<1> USE DEF IInv
<1>1. ASSUME NEW g \in Goroutines, Begin(g),
             op' \in [Goroutines -> {"peek", "tail"}],
             dropped' \in [Goroutines -> {0, 1}]
      PROVE  IInv'
  <2>1. TypeOK'
    <3>1. /\ panics' = panics /\ next' = next /\ nodes' = nodes /\ done' = done
          /\ lock' = lock /\ item' = item /\ leaked' = leaked
      BY <1>1 DEF Begin
    <3>2. /\ pc' \in [Goroutines -> {"idle", "enter", "producing"}]
          /\ view' \in [Goroutines -> Start .. End]
      BY <1>1 DEF TypeOK, Begin, Goto, Start, End
    <3>3. seen' \in [Goroutines -> Seq(1 .. K)]
      BY <1>1 DEF TypeOK, Begin
    <3>4. walks' \in [Goroutines -> 0 .. MaxWalks]
      <4>1. walks[g] + 1 \in 0 .. MaxWalks
        BY <1>1 DEF TypeOK, Begin
      <4>2. QED
        BY <1>1, <4>1 DEF TypeOK, Begin
    <3>5. QED
      BY <1>1, <3>1, <3>2, <3>3, <3>4 DEF TypeOK
  <2>2. ProducerHoldsLock'
    BY <1>1 DEF TypeOK, ProducerHoldsLock, Begin, Goto
  <2>3. OnlyTailLeaks'
    BY <1>1 DEF TypeOK, OnlyTailLeaks, Begin, Goto
  <2>4. QED
    BY <2>1, <2>2, <2>3
<1>2. ASSUME NEW g \in Goroutines, Walk(g) \/ WalkRest(g) PROVE IInv'
  <2>1. /\ op' \in [Goroutines -> {"peek", "tail"}]
        /\ dropped' \in [Goroutines -> {0, 1}]
        /\ Begin(g)
    BY <1>2 DEF Walk, WalkRest, TypeOK
  <2>2. QED
    BY <1>1, <2>1
<1>3. ASSUME NEW g \in Goroutines, EnterRealized(g) PROVE IInv'
  <2>1. nodes \in Seq(1 .. K) /\ Len(nodes) <= K
    BY DEF TypeOK
  <2>2. Returns(g, nodes)
    BY <1>3 DEF EnterRealized
  <2>3. /\ pc' \in [Goroutines -> {"idle", "enter", "producing"}]
        /\ op' \in [Goroutines -> {"peek", "tail"}]
        /\ view' \in [Goroutines -> Start .. End]
        /\ seen' \in [Goroutines -> Seq(1 .. K)]
        /\ pc'[g] # "producing"
        /\ \A h \in Goroutines : h # g => pc'[h] = pc[h]
    BY <2>1, <2>2, ReturnsTyping
  <2>4. TypeOK'
    BY <1>3, <2>3 DEF TypeOK, EnterRealized, Start, End
  <2>5. ProducerHoldsLock'
    BY <1>3, <2>3 DEF TypeOK, ProducerHoldsLock, EnterRealized
  <2>6. OnlyTailLeaks'
    BY <1>3 DEF OnlyTailLeaks, EnterRealized
  <2>7. QED
    BY <2>4, <2>5, <2>6
<1>4. ASSUME NEW g \in Goroutines, EnterProducer(g) PROVE IInv'
  <2>1. Produce(g, next) /\ next \in 1 .. K + 1
    BY <1>4 DEF EnterProducer, TypeOK
  <2>2. /\ next' \in 1 .. K + 1 /\ next' >= next
        /\ item' \in [Goroutines -> 0 .. K + 1] /\ item'[g] = next
        /\ next <= K => next' = next + 1
    BY <2>1, ProduceTyping
  <2>3. TypeOK'
    <3>1. /\ panics' = panics /\ nodes' = nodes /\ done' = done /\ lock' = g
          /\ op' = op /\ view' = view /\ seen' = seen /\ walks' = walks
          /\ dropped' = dropped /\ leaked' = leaked
      BY <1>4 DEF EnterProducer
    <3>2. pc' \in [Goroutines -> {"idle", "enter", "producing"}]
      BY <1>4 DEF TypeOK, EnterProducer, Goto
    <3>3. Len(nodes) < next'
      BY <2>1, <2>2 DEF TypeOK
    <3>4. QED
      BY <2>2, <3>1, <3>2, <3>3 DEF TypeOK
  <2>4. \A h \in Goroutines : h # g => pc[h] # "producing"
    BY <1>4 DEF ProducerHoldsLock, EnterProducer
  <2>5. ProducerHoldsLock'
    BY <1>4, <2>1, <2>2, <2>4 DEF TypeOK, ProducerHoldsLock, EnterProducer, Goto
  <2>6. OnlyTailLeaks'
    BY <1>4 DEF TypeOK, OnlyTailLeaks, EnterProducer, Goto
  <2>7. QED
    BY <2>3, <2>5, <2>6
<1>5. ASSUME NEW g \in Goroutines, ProducerReturns(g) PROVE IInv'
  <2>1. /\ Grown(g) \in Seq(1 .. K) /\ Len(Grown(g)) < next /\ Len(Grown(g)) <= K
        /\ Ended(g) \in BOOLEAN
    BY <1>5, GrownTyping DEF ProducerReturns, Produced
  <2>2. /\ pc' \in [Goroutines -> {"idle", "enter", "producing"}]
        /\ op' \in [Goroutines -> {"peek", "tail"}]
        /\ view' \in [Goroutines -> Start .. End]
        /\ seen' \in [Goroutines -> Seq(1 .. K)]
        /\ pc'[g] # "producing"
        /\ \A h \in Goroutines : h # g => pc'[h] = pc[h]
    BY <1>5, <2>1, ReturnsTyping DEF ProducerReturns
  <2>3. TypeOK'
    BY <1>5, <2>1, <2>2 DEF TypeOK, ProducerReturns, Produced, Start, End
  <2>4. \A h \in Goroutines : pc'[h] # "producing"
    BY <1>5, <2>2 DEF ProducerHoldsLock, ProducerReturns, Produced
  <2>5. ProducerHoldsLock'
    BY <2>4 DEF ProducerHoldsLock
  <2>6. OnlyTailLeaks'
    BY <1>5 DEF OnlyTailLeaks, ProducerReturns
  <2>7. QED
    BY <2>3, <2>5, <2>6
<1>6. ASSUME NEW g \in Goroutines, ProducesTwice(g) PROVE IInv'
  <2>1. /\ Grown(g) \in Seq(1 .. K) /\ Len(Grown(g)) < next /\ Len(Grown(g)) <= K
        /\ Ended(g) \in BOOLEAN
    BY <1>6, GrownTyping DEF ProducesTwice, Produced
  <2>2. Produce(g, next) /\ next \in 1 .. K + 1
    BY <1>6 DEF ProducesTwice, TypeOK
  <2>3. /\ next' \in 1 .. K + 1 /\ next' >= next
        /\ item' \in [Goroutines -> 0 .. K + 1] /\ item'[g] = next
        /\ next <= K => next' = next + 1
    BY <2>2, ProduceTyping
  <2>4. TypeOK'
    <3>1. /\ panics' = panics /\ nodes' = Grown(g) /\ done' = Ended(g)
          /\ lock' = lock /\ pc' = pc /\ op' = op /\ view' = view /\ seen' = seen
          /\ walks' = walks /\ dropped' = dropped /\ leaked' = leaked
      BY <1>6 DEF ProducesTwice, Produced
    <3>2. Len(Grown(g)) < next'
      BY <2>1, <2>2, <2>3
    <3>3. QED
      BY <2>1, <2>3, <3>1, <3>2 DEF TypeOK
  <2>5. \A h \in Goroutines : pc[h] = "producing" => h = g
    BY <1>6 DEF ProducerHoldsLock, ProducesTwice, Produced
  <2>6. ProducerHoldsLock'
    BY <1>6, <2>1, <2>2, <2>3, <2>5 DEF TypeOK, ProducerHoldsLock, ProducesTwice, Produced
  <2>7. OnlyTailLeaks'
    BY <1>6 DEF OnlyTailLeaks, ProducesTwice
  <2>8. QED
    BY <2>4, <2>6, <2>7
<1>7. ASSUME NEW g \in Goroutines, PeekPanics(g) \/ TailPanics(g) PROVE IInv'
  <2>1. TypeOK'
    BY <1>7 DEF TypeOK, PeekPanics, TailPanics, Panicked, Goto
  <2>2. \A h \in Goroutines : pc[h] = "producing" => h = g
    BY <1>7 DEF ProducerHoldsLock, PeekPanics, TailPanics, Panicked
  <2>3. \A h \in Goroutines : pc'[h] # "producing"
    BY <1>7, <2>2 DEF TypeOK, PeekPanics, TailPanics, Panicked, Goto
  <2>4. ProducerHoldsLock'
    BY <2>3 DEF ProducerHoldsLock
  <2>5. PeekPanics(g) => OnlyTailLeaks'
    BY DEF TypeOK, OnlyTailLeaks, PeekPanics
  <2>6. TailPanics(g) => OnlyTailLeaks'
    BY <2>2 DEF TypeOK, OnlyTailLeaks, ProducerHoldsLock, TailPanics, Panicked, Goto
  <2>7. QED
    BY <1>7, <2>1, <2>4, <2>5, <2>6
<1>8. CASE UNCHANGED vars
  BY <1>8 DEF vars, TypeOK, ProducerHoldsLock, OnlyTailLeaks
<1>9. QED
  BY <1>2, <1>3, <1>4, <1>5, <1>6, <1>7, <1>8 DEF Next, Operating

LEMMA InductiveInvariant == Spec => []IInv
BY InvInit, InvStep, PTL DEF Spec

\* The list never has more elements than its producer has worked on, and every
\* view is of a node the list may have.
THEOREM TypeCorrect == Spec => []TypeOK
BY InductiveInvariant, PTL DEF IInv

\* The mutex is locked only while its holder is in the producer, unless the holder
\* has left lazyTail by a panic.
THEOREM OnlyTailLeaksCorrect == Spec => []OnlyTailLeaks
BY InductiveInvariant, PTL DEF IInv

\* The producer, and the user's function in it, never runs twice at a time.
OneProducer ==
    \A g, h \in Goroutines : pc[g] = "producing" /\ pc[h] = "producing" => g = h

\* So two goroutines never realize the same list at the same time.
THEOREM OneProducerCorrect == Spec => []OneProducer
<1>1. IInv => OneProducer
  BY DEF IInv, ProducerHoldsLock, OneProducer
<1>2. QED
  BY <1>1, InductiveInvariant, PTL
-----------------------------------------------------------------------------
(* The elements of the list.                                               *)

\* Every set of numbers has a least one.
LEMMA LeastNumber ==
    ASSUME NEW T, T \subseteq Nat, T # {}
    PROVE  \E n \in T : \A m \in T : n <= m
<1>1. PICK n \in T : \A m \in T : ~ (<<m, n>> \in OpToRel(<, Nat))
  BY NatLessThanWellFounded, WFMin
<1>2. \A m \in T : ~(m < n)
  BY <1>1 DEF OpToRel
<1>3. QED
  BY <1>2

\* Induction, stated of the set of numbers that have the property.
LEMMA Induction ==
    ASSUME NEW T, T \subseteq Nat, 0 \in T, \A n \in T : n + 1 \in T
    PROVE  \A n \in Nat : n \in T
<1> SUFFICES ASSUME Nat \ T # {} PROVE FALSE
  OBVIOUS
<1>1. PICK n \in Nat \ T : \A m \in Nat \ T : n <= m
  BY LeastNumber
<1>2. n # 0 /\ n - 1 \in Nat /\ n - 1 < n
  OBVIOUS
<1>3. n - 1 \in T
  BY <1>1, <1>2
<1>4. QED
  BY <1>2, <1>3

\* The recursive definition of Kept defines a function.
LEMMA KeptDef ==
    /\ Kept[0] = << >>
    /\ \A n \in 1 .. K : Kept[n] = IF n \in panics THEN Kept[n - 1] ELSE Append(Kept[n - 1], n)
<1> USE LazyListAssumption
<1> DEFINE Longer(n, list) == IF n \in panics THEN list ELSE Append(list, n)
           UpTo(k, f) == f = [n \in 0 .. k |-> IF n = 0 THEN << >> ELSE Longer(n, f[n - 1])]
           Exists(k) == \E f : UpTo(k, f)
           T == {k \in Nat : Exists(k)}
<1>1. Exists(0)
  <2>1. UpTo(0, [n \in 0 .. 0 |-> << >>])
    OBVIOUS
  <2>2. QED
    BY <2>1
<1>2. ASSUME NEW k \in Nat, Exists(k) PROVE Exists(k + 1)
  <2>2. PICK f : UpTo(k, f)
    BY <1>2
  <2> HIDE DEF Longer
  <2> DEFINE h == [n \in 0 .. k + 1 |-> IF n = k + 1 THEN Longer(n, f[k]) ELSE f[n]]
  <2>3. \A n \in 0 .. k + 1 : h[n] = IF n = 0 THEN << >> ELSE Longer(n, h[n - 1])
    BY <2>2
  <2>4. h = [n \in 0 .. k + 1 |-> h[n]]
    OBVIOUS
  <2> HIDE DEF h, UpTo
  <2>5. UpTo(k + 1, h)
    BY <2>3, <2>4 DEF UpTo
  <2>6. QED
    BY <2>5
<1>3. Exists(K)
  <2> HIDE DEF Exists
  <2>1. T \subseteq Nat /\ 0 \in T /\ \A k \in T : k + 1 \in T
    BY <1>1, <1>2
  <2>2. K \in T
    BY <2>1, Induction
  <2>3. QED
    BY <2>2
<1>4. PICK f : UpTo(K, f)
  BY <1>3
<1>5. Kept = [n \in 0 .. K |-> IF n = 0 THEN << >> ELSE Longer(n, Kept[n - 1])]
  BY <1>4, Zenon DEF Kept
<1> HIDE DEF Longer
<1>6. Kept[0] = << >> /\ \A n \in 1 .. K : Kept[n] = Longer(n, Kept[n - 1])
  BY <1>5
<1>7. QED
  BY <1>6 DEF Longer

LEMMA AppendFacts ==
    ASSUME NEW S, NEW s \in Seq(S), NEW e \in S
    PROVE  /\ Append(s, e) \in Seq(S)
           /\ Len(Append(s, e)) = Len(s) + 1
           /\ \A i \in 1 .. Len(s) : Append(s, e)[i] = s[i]
           /\ Append(s, e)[Len(s) + 1] = e
OBVIOUS

\* The lists Kept[0], Kept[1] .. grow at their end only.
LEMMA KeptTyping == \A n \in 0 .. K : Kept[n] \in Seq(1 .. K) /\ Len(Kept[n]) <= n
<1> USE LazyListAssumption
<1> DEFINE P(n) == n <= K => Kept[n] \in Seq(1 .. K) /\ Len(Kept[n]) <= n
           T == {n \in Nat : P(n)}
<1>1. P(0)
  BY KeptDef
<1>2. ASSUME NEW n \in Nat, P(n) PROVE P(n + 1)
  <2>1. CASE n + 1 <= K
    <3>1. /\ n \in Nat /\ n + 1 \in 1 .. K
          /\ Kept[n] \in Seq(1 .. K) /\ Len(Kept[n]) <= n
      BY <1>2, <2>1
    <3>2. Kept[n + 1] = IF n + 1 \in panics THEN Kept[n] ELSE Append(Kept[n], n + 1)
      BY <3>1, KeptDef
    <3>3. /\ Append(Kept[n], n + 1) \in Seq(1 .. K)
          /\ Len(Append(Kept[n], n + 1)) = Len(Kept[n]) + 1
      BY <3>1, AppendFacts
    <3>4. CASE n + 1 \in panics
      <4>1. Kept[n + 1] = Kept[n]
        BY <3>2, <3>4
      <4>2. QED
        BY <3>1, <4>1
    <3>5. CASE n + 1 \notin panics
      <4>1. Kept[n + 1] = Append(Kept[n], n + 1)
        BY <3>2, <3>5
      <4>2. QED
        BY <3>1, <3>3, <4>1
    <3>6. QED
      BY <3>4, <3>5
  <2>2. QED
    BY <2>1
<1>3. \A n \in Nat : P(n)
  <2> HIDE DEF P
  <2>1. T \subseteq Nat /\ 0 \in T /\ \A n \in T : n + 1 \in T
    BY <1>1, <1>2
  <2>2. QED
    BY <2>1, Induction
<1>4. QED
  BY <1>3

\* The first of two lists is the beginning of the second.
Begins(s, t) == Len(s) <= Len(t) /\ \A i \in 1 .. Len(s) : t[i] = s[i]

LEMMA BeginsIsPrefix ==
    ASSUME NEW S, NEW s \in Seq(S), NEW t \in Seq(S), Begins(s, t)
    PROVE  IsPrefix(s, t)
<1>1. /\ Len(s) \in Nat /\ DOMAIN s = 1 .. Len(s) /\ DOMAIN t = 1 .. Len(t) /\ Len(t) \in Nat
      /\ Len(s) <= Len(t) /\ \A i \in 1 .. Len(s) : t[i] = s[i]
  BY DEF Begins
<1>2. /\ SubSeq(s, 1, Len(s)) = [i \in 1 .. Len(s) |-> s[i]]
      /\ SubSeq(t, 1, Len(s)) = [i \in 1 .. Len(s) |-> t[i]]
  BY <1>1
<1>3. QED
  BY <1>1, <1>2 DEF IsPrefix

LEMMA KeptBegins ==
    ASSUME NEW m \in 0 .. K, NEW n \in m .. K
    PROVE  Begins(Kept[m], Kept[n])
<1> USE LazyListAssumption
<1> DEFINE P(k) == m + k <= K => Begins(Kept[m], Kept[m + k])
           T == {k \in Nat : P(k)}
<1>0. \A k \in 0 .. K : Kept[k] \in Seq(1 .. K)
  BY KeptTyping
<1>1. P(0)
  BY <1>0 DEF Begins
<1>2. ASSUME NEW k \in Nat, P(k) PROVE P(k + 1)
  <2>1. CASE m + (k + 1) <= K
    <3> DEFINE l == m + k
    <3>1. l \in 0 .. K /\ l + 1 \in 1 .. K /\ m + (k + 1) = l + 1 /\ (l + 1) - 1 = l
      BY <2>1
    <3>2. Begins(Kept[m], Kept[l])
      BY <1>2, <2>1
    <3>3. Kept[l + 1] = IF l + 1 \in panics THEN Kept[l] ELSE Append(Kept[l], l + 1)
      BY <3>1, KeptDef
    <3> HIDE DEF l
    <3>4. Begins(Kept[l], Kept[l + 1])
      <4>1. Kept[l] \in Seq(1 .. K) /\ l + 1 \in 1 .. K
        BY <1>0, <3>1
      <4>2. CASE l + 1 \in panics
        BY <3>3, <4>1, <4>2 DEF Begins
      <4>3. CASE l + 1 \notin panics
        BY <3>3, <4>1, <4>3, AppendFacts DEF Begins
      <4>4. QED
        BY <4>2, <4>3
    <3>5. Begins(Kept[m], Kept[l + 1])
      <4>1. Len(Kept[m]) \in Nat /\ Len(Kept[l]) \in Nat /\ Len(Kept[l + 1]) \in Nat
        BY <1>0, <3>1
      <4>2. QED
        BY <3>2, <3>4, <4>1 DEF Begins
    <3>6. QED
      BY <3>1, <3>5
  <2>2. QED
    BY <2>1
<1>3. \A k \in Nat : P(k)
  <2> HIDE DEF P
  <2>1. T \subseteq Nat /\ 0 \in T /\ \A k \in T : k + 1 \in T
    BY <1>1, <1>2
  <2>2. QED
    BY <2>1, Induction
<1>4. n - m \in Nat /\ m + (n - m) = n
  OBVIOUS
<1>5. QED
  BY <1>3, <1>4
-----------------------------------------------------------------------------
(* Every walk finds the list.                                              *)

\* The realized elements are those that the user's function has returned for:
\* up to the one the producer works on, or the one it works on next.
ListSoFar ==
    /\ \A g \in Goroutines : pc[g] = "producing" =>
          /\ ~done
          /\ nodes = Kept[item[g] - 1]
          /\ next = IF item[g] <= K THEN item[g] + 1 ELSE K + 1
    /\ (\A g \in Goroutines : pc[g] # "producing") => nodes = Kept[next - 1]
    /\ done => nodes = Kept[K] /\ next = K + 1

\* The elements a goroutine has passed: its cursor has looked at the one it
\* stands at if it is to take the tail.
Passed(g) == IF op[g] = "peek" THEN Here(g) - 1 ELSE Here(g)

\* What a walk has found are the nodes it has passed, and it has passed all of
\* them when it has come to the end.
WalkSoFar(g) ==
    /\ \A i \in 1 .. Len(seen[g]) : /\ i + dropped[g] <= Len(nodes)
                                    /\ seen[g][i] = nodes[i + dropped[g]]
    /\ pc[g] # "idle" /\ view[g] # End => Len(seen[g]) + dropped[g] = Passed(g)
    /\ pc[g] # "idle" /\ view[g] = End => op[g] = "peek"
    /\ view[g] = End => done /\ Len(seen[g]) + dropped[g] >= Len(nodes)

WalkInv == IInv /\ ListSoFar /\ \A g \in Goroutines : WalkSoFar(g)

LEMMA KeptUnchanged == panics' = panics => Kept' = Kept
BY Zenon DEF Kept

\* What the producer has returned is the next of the lists Kept.
LEMMA GrownKept ==
    ASSUME IInv, ListSoFar, NEW g \in Goroutines, pc[g] = "producing", item[g] \notin panics
    PROVE  /\ Grown(g) = Kept[next - 1]
           /\ Ended(g) => Grown(g) = Kept[K] /\ next = K + 1
           /\ Begins(nodes, Grown(g))
<1> USE LazyListAssumption
<1>1. /\ item[g] \in 1 .. K + 1 /\ ~done
      /\ nodes = Kept[item[g] - 1]
      /\ next = IF item[g] <= K THEN item[g] + 1 ELSE K + 1
  BY DEF IInv, ProducerHoldsLock, ListSoFar
<1>2. CASE item[g] <= K
  <2>1. item[g] \in 1 .. K /\ next - 1 = item[g] /\ item[g] - 1 \in 0 .. K
    BY <1>1, <1>2
  <2>2. Kept[item[g]] = Append(Kept[item[g] - 1], item[g])
    BY <2>1, KeptDef
  <2>3. Grown(g) = Kept[item[g]]
    BY <1>1, <1>2, <2>2 DEF Grown
  <2>4. ~Ended(g)
    BY <1>1, <2>1 DEF Ended
  <2>5. item[g] \in item[g] - 1 .. K
    BY <2>1
  <2>6. QED
    BY <1>1, <2>1, <2>3, <2>4, <2>5, KeptBegins
<1>3. CASE item[g] = K + 1
  <2>1. Grown(g) = nodes /\ nodes = Kept[K] /\ next = K + 1 /\ (K + 1) - 1 = K
    BY <1>1, <1>3 DEF Grown
  <2>2. K \in 0 .. K /\ K \in K .. K
    OBVIOUS
  <2>3. Begins(Kept[K], Kept[K])
    BY <2>2, KeptBegins
  <2>4. QED
    BY <2>1, <2>3
<1>4. QED
  BY <1>1, <1>2, <1>3

\* What a walk has found is there when the list has grown.
LEMMA FoundStays ==
    ASSUME TypeOK, NEW g \in Goroutines, WalkSoFar(g), Begins(nodes, nodes'), nodes' \in Seq(1 .. K)
    PROVE  \A i \in 1 .. Len(seen[g]) : /\ i + dropped[g] <= Len(nodes')
                                       /\ seen[g][i] = nodes'[i + dropped[g]]
<1> SUFFICES ASSUME NEW i \in 1 .. Len(seen[g])
             PROVE  i + dropped[g] <= Len(nodes') /\ seen[g][i] = nodes'[i + dropped[g]]
  OBVIOUS
<1>1. nodes \in Seq(1 .. K) /\ seen[g] \in Seq(1 .. K) /\ dropped[g] \in {0, 1}
  BY DEF TypeOK
<1>2. i + dropped[g] <= Len(nodes) /\ seen[g][i] = nodes[i + dropped[g]]
  BY DEF WalkSoFar
<1>3. i + dropped[g] \in 1 .. Len(nodes) /\ Len(nodes) <= Len(nodes') /\ Len(nodes') \in Nat
  BY <1>1, <1>2 DEF Begins
<1>4. nodes'[i + dropped[g]] = nodes[i + dropped[g]]
  BY <1>3 DEF Begins
<1>5. QED
  BY <1>1, <1>2, <1>3, <1>4

\* A goroutine that does not take part in a step keeps what it has found: the
\* list grows at its end, and no more once the end has been reported.
LEMMA WalkKept ==
    ASSUME TypeOK, NEW g \in Goroutines, WalkSoFar(g),
           seen'[g] = seen[g], dropped'[g] = dropped[g], op'[g] = op[g], view'[g] = view[g],
           pc'[g] # "idle" => pc[g] # "idle",
           Begins(nodes, nodes'), nodes' \in Seq(1 .. K),
           done => done' /\ nodes' = nodes
    PROVE  WalkSoFar(g)'
<1> USE LazyListAssumption
<1>1. nodes \in Seq(1 .. K) /\ seen[g] \in Seq(1 .. K) /\ dropped[g] \in {0, 1}
  BY DEF TypeOK
<1>2. \A i \in 1 .. Len(seen[g]) : i + dropped[g] <= Len(nodes') /\ seen[g][i] = nodes'[i + dropped[g]]
  BY FoundStays
<1>3. Passed(g)' = Passed(g)
  BY DEF Passed, Here
<1>4. QED
  BY <1>1, <1>2, <1>3 DEF WalkSoFar

\* An operation that returns takes the walk one element further, or to its end.
LEMMA WalkReturns ==
    ASSUME TypeOK, NEW g \in Goroutines, WalkSoFar(g), pc[g] # "idle",
           Returns(g, nodes'), ~Lacks(g, nodes', done'), dropped'[g] = dropped[g],
           Begins(nodes, nodes'), nodes' \in Seq(1 .. K), Len(nodes') <= K,
           done => done' /\ nodes' = nodes
    PROVE  WalkSoFar(g)'
<1> USE LazyListAssumption
<1>1. /\ nodes \in Seq(1 .. K) /\ seen[g] \in Seq(1 .. K) /\ dropped[g] \in {0, 1}
      /\ view[g] \in 0 .. K + 1 /\ Len(nodes) \in Nat /\ Len(nodes') \in Nat
  BY DEF TypeOK, Start, End
<1>2. Here(g) \in Nat /\ Here(g) >= 1
  BY <1>1 DEF Here, Start
<1>3. \A i \in 1 .. Len(seen[g]) : i + dropped[g] <= Len(nodes') /\ seen[g][i] = nodes'[i + dropped[g]]
  BY FoundStays
<1>4. CASE PeekReturns(g, nodes') /\ view[g] # End /\ Here(g) <= Len(nodes')
  <2> DEFINE e == nodes'[Here(g)]
  <2>1. /\ seen'[g] = Append(seen[g], e) /\ op'[g] = "tail" /\ view'[g] = view[g]
        /\ op[g] = "peek"
    BY <1>4 DEF PeekReturns, TypeOK
  <2>2. Here(g) \in 1 .. Len(nodes')
    BY <1>1, <1>2, <1>4
  <2>3. e \in 1 .. K
    BY <2>2, ElementTyping
  <2>4. Len(seen[g]) + dropped[g] = Here(g) - 1
    BY <1>4, <2>1 DEF WalkSoFar, Passed
  <2>5. Here(g)' = Here(g)
    BY <2>1 DEF Here
  <2>6. (Len(seen[g]) + 1) + dropped[g] = Here(g)
    BY <1>1, <1>2, <2>4
  <2> HIDE DEF e
  <2>7. /\ Len(Append(seen[g], e)) = Len(seen[g]) + 1
        /\ \A i \in 1 .. Len(seen[g]) : Append(seen[g], e)[i] = seen[g][i]
        /\ Append(seen[g], e)[Len(seen[g]) + 1] = e
    BY <1>1, <2>3, AppendFacts
  <2>8. \A i \in 1 .. Len(seen'[g]) : i + dropped[g] <= Len(nodes') /\ seen'[g][i] = nodes'[i + dropped[g]]
    <3> SUFFICES ASSUME NEW i \in 1 .. Len(seen[g]) + 1
                 PROVE  i + dropped[g] <= Len(nodes') /\ seen'[g][i] = nodes'[i + dropped[g]]
      BY <2>1, <2>7
    <3>1. CASE i = Len(seen[g]) + 1
      BY <2>1, <2>2, <2>6, <2>7, <3>1 DEF e
    <3>2. CASE i \in 1 .. Len(seen[g])
      BY <1>3, <2>1, <2>7, <3>2
    <3>3. i = Len(seen[g]) + 1 \/ i \in 1 .. Len(seen[g])
      <4>1. Len(seen[g]) \in Nat
        BY <1>1
      <4>2. QED
        BY <4>1
    <3>4. QED
      BY <3>1, <3>2, <3>3
  <2>9. QED
    BY <1>4, <2>1, <2>5, <2>6, <2>7, <2>8 DEF WalkSoFar, Passed
<1>5. CASE PeekReturns(g, nodes') /\ ~(view[g] # End /\ Here(g) <= Len(nodes'))
  <2>1. /\ seen'[g] = seen[g] /\ view'[g] = view[g] /\ pc'[g] = "idle"
    BY <1>5 DEF PeekReturns, Goto, TypeOK
  <2>2. view[g] = End => done' /\ Len(seen[g]) + dropped[g] >= Len(nodes')
    BY DEF WalkSoFar
  <2>3. QED
    BY <1>3, <2>1, <2>2 DEF WalkSoFar
<1>6. CASE TailReturns(g, nodes')
  <2>1. /\ seen'[g] = seen[g] /\ op[g] = "tail" /\ op'[g] = "peek"
        /\ view'[g] = IF Wanted(g) <= Len(nodes') THEN Wanted(g) ELSE End
    BY <1>6 DEF TailReturns, TypeOK
  <2>2. view[g] # End /\ Len(seen[g]) + dropped[g] = Here(g) /\ Wanted(g) = Here(g) + 1
    BY <2>1 DEF WalkSoFar, Passed, Wanted
  <2>3. CASE Wanted(g) <= Len(nodes')
    <3>1. view'[g] = Here(g) + 1 /\ view'[g] # End /\ view'[g] # Start
      BY <1>2, <2>1, <2>2, <2>3 DEF End, Start
    <3>2. Passed(g)' = Here(g)
      BY <1>2, <2>1, <3>1 DEF Passed, Here
    <3>3. QED
      BY <1>3, <2>1, <2>2, <3>1, <3>2 DEF WalkSoFar
  <2>4. CASE ~(Wanted(g) <= Len(nodes'))
    <3>1. view'[g] = End
      BY <2>1, <2>4
    <3>2. done'
      BY <1>1, <1>2, <2>2, <2>4 DEF Lacks
    <3>3. Len(seen[g]) + dropped[g] >= Len(nodes')
      BY <1>1, <1>2, <2>2, <2>4
    <3>4. QED
      BY <1>3, <2>1, <3>1, <3>2, <3>3 DEF WalkSoFar
  <2>5. QED
    BY <2>3, <2>4
<1>7. QED
  BY <1>4, <1>5, <1>6 DEF Returns
LEMMA BeginsItself == ASSUME NEW S, NEW s \in Seq(S) PROVE Begins(s, s)
BY DEF Begins

LEMMA WalkInvInit == Init => WalkInv
<1> SUFFICES ASSUME Init PROVE WalkInv
  OBVIOUS
<1> USE LazyListAssumption
<1>1. IInv
  BY InvInit
<1>2. ListSoFar
  BY KeptDef DEF Init, ListSoFar
<1>3. ASSUME NEW g \in Goroutines PROVE WalkSoFar(g)
  BY DEF Init, WalkSoFar, Start, End
<1>4. QED
  BY <1>1, <1>2, <1>3 DEF WalkInv

\* A walk begins at the start of the list, or behind the first element.
LEMMA BeginStep ==
    ASSUME WalkInv, IInv', NEW g \in Goroutines, Walk(g) \/ WalkRest(g)
    PROVE  WalkInv'
<1> USE LazyListAssumption
<1>1. /\ panics' = panics /\ next' = next /\ nodes' = nodes /\ done' = done /\ item' = item
      /\ pc' = [pc EXCEPT ![g] = "enter"] /\ pc[g] = "idle"
      /\ seen' = [seen EXCEPT ![g] = << >>] /\ view' = [view EXCEPT ![g] = Start]
      /\ \/ op' = [op EXCEPT ![g] = "peek"] /\ dropped' = [dropped EXCEPT ![g] = 0]
         \/ op' = [op EXCEPT ![g] = "tail"] /\ dropped' = [dropped EXCEPT ![g] = 1]
  BY DEF Walk, WalkRest, Begin, Goto
<1>2. TypeOK
  BY DEF WalkInv, IInv
<1>3. Kept' = Kept
  BY <1>1, KeptUnchanged
<1>4. \A h \in Goroutines : pc'[h] = "producing" <=> pc[h] = "producing"
  BY <1>1, <1>2 DEF TypeOK
<1>5. ListSoFar'
  BY <1>1, <1>3, <1>4 DEF WalkInv, ListSoFar
<1>6. WalkSoFar(g)'
  <2>1. seen'[g] = << >> /\ view'[g] = Start /\ view'[g] # End
    BY <1>1, <1>2 DEF TypeOK, Start, End
  <2>2. Here(g)' = 1
    BY <2>1 DEF Here
  <2>3. Len(seen'[g]) + dropped'[g] = Passed(g)'
    BY <1>1, <1>2, <2>1, <2>2 DEF TypeOK, Passed
  <2>4. QED
    BY <2>1, <2>3 DEF WalkSoFar
<1>7. ASSUME NEW h \in Goroutines, h # g PROVE WalkSoFar(h)'
  <2>1. Begins(nodes, nodes') /\ nodes' \in Seq(1 .. K)
    BY <1>1, <1>2, BeginsItself DEF TypeOK
  <2>2. /\ seen'[h] = seen[h] /\ dropped'[h] = dropped[h] /\ op'[h] = op[h]
        /\ view'[h] = view[h] /\ pc'[h] = pc[h]
    BY <1>1, <1>2, <1>7 DEF TypeOK
  <2>3. QED
    BY <1>1, <1>2, <2>1, <2>2, WalkKept DEF WalkInv
<1>8. QED
  BY <1>5, <1>6, <1>7 DEF WalkInv

\* Steps that leave the list as it is.
LEMMA StillStep ==
    ASSUME WalkInv, IInv', NEW g \in Goroutines,
           EnterRealized(g) \/ EnterProducer(g) \/ PeekPanics(g) \/ TailPanics(g)
    PROVE  WalkInv'
<1> USE LazyListAssumption
<1>1. TypeOK /\ TypeOK' /\ ListSoFar /\ ProducerHoldsLock
  BY DEF WalkInv, IInv
<1>2. panics' = panics /\ nodes' = nodes /\ done' = done /\ dropped' = dropped
  BY DEF EnterRealized, EnterProducer, PeekPanics, TailPanics
<1>3. Kept' = Kept
  BY <1>2, KeptUnchanged
<1>4. Begins(nodes, nodes') /\ nodes' \in Seq(1 .. K) /\ Len(nodes') <= K
  BY <1>1, <1>2, BeginsItself DEF TypeOK
<1>5. ListSoFar'
  <2>1. CASE EnterRealized(g)
    <3>1. pc'[g] # "producing" /\ \A h \in Goroutines : h # g => pc'[h] = pc[h]
      BY <1>1, <1>2, <1>4, <2>1, ReturnsTyping DEF EnterRealized
    <3>2. next' = next /\ item' = item /\ pc[g] # "producing"
      BY <2>1 DEF EnterRealized
    <3>3. QED
      BY <1>1, <1>2, <1>3, <3>1, <3>2 DEF ListSoFar
  <2>2. CASE EnterProducer(g)
    <3>1. \A h \in Goroutines : pc[h] # "producing"
      BY <1>1, <2>2 DEF ProducerHoldsLock, EnterProducer
    <3>2. /\ item'[g] = next /\ ~done /\ pc'[g] = "producing"
          /\ next' = IF next <= K THEN next + 1 ELSE next
          /\ \A h \in Goroutines : h # g => pc'[h] = pc[h]
      BY <1>1, <2>2 DEF TypeOK, EnterProducer, Produce, Goto, Lacks
    <3>3. nodes = Kept[next - 1] /\ next \in 1 .. K + 1
      BY <1>1, <3>1 DEF ListSoFar, TypeOK
    <3>4. QED
      BY <1>2, <1>3, <3>1, <3>2, <3>3 DEF ListSoFar
  <2>3. CASE PeekPanics(g) \/ TailPanics(g)
    <3>1. /\ pc[g] = "producing" /\ item[g] \in panics /\ next' = next
          /\ pc' = [pc EXCEPT ![g] = "idle"]
      BY <2>3 DEF PeekPanics, TailPanics, Panicked, Goto
    <3>2. /\ ~done /\ nodes = Kept[item[g] - 1] /\ item[g] \in 1 .. K
          /\ next = item[g] + 1
      BY <1>1, <3>1 DEF TypeOK, ListSoFar
    <3>3. Kept[item[g]] = Kept[item[g] - 1] /\ next - 1 = item[g]
      BY <3>1, <3>2, KeptDef
    <3>4. \A h \in Goroutines : pc'[h] # "producing"
      BY <1>1, <3>1 DEF TypeOK, ProducerHoldsLock
    <3>5. QED
      BY <1>2, <1>3, <3>1, <3>2, <3>3, <3>4 DEF ListSoFar
  <2>4. QED
    BY <2>1, <2>2, <2>3
<1>6. ASSUME NEW h \in Goroutines PROVE WalkSoFar(h)'
  <2>1. CASE EnterRealized(g) /\ h = g
    <3>1. Returns(g, nodes') /\ ~Lacks(g, nodes', done') /\ pc[g] # "idle"
      BY <1>2, <2>1 DEF EnterRealized
    <3>2. QED
      BY <1>1, <1>2, <1>4, <2>1, <3>1, WalkReturns DEF WalkInv
  <2>2. CASE ~(EnterRealized(g) /\ h = g)
    <3>1. seen'[h] = seen[h] /\ op'[h] = op[h] /\ view'[h] = view[h]
      BY <1>1, <2>2 DEF TypeOK, EnterRealized, Returns, PeekReturns, TailReturns,
                        EnterProducer, PeekPanics, TailPanics
    <3>2. pc'[h] # "idle" => pc[h] # "idle"
      BY <1>1, <2>2 DEF TypeOK, EnterRealized, Returns, PeekReturns, TailReturns,
                        EnterProducer, PeekPanics, TailPanics, Panicked, Goto
    <3>3. QED
      BY <1>1, <1>2, <1>4, <3>1, <3>2, WalkKept DEF WalkInv
  <2>3. QED
    BY <2>1, <2>2
<1>7. QED
  BY <1>5, <1>6 DEF WalkInv

\* Steps on which the producer has returned.
LEMMA GrowStep ==
    ASSUME WalkInv, IInv', NEW g \in Goroutines, ProducerReturns(g) \/ ProducesTwice(g)
    PROVE  WalkInv'
<1> USE LazyListAssumption
<1>1. TypeOK /\ TypeOK' /\ ListSoFar /\ ProducerHoldsLock /\ IInv
  BY DEF WalkInv, IInv
<1>2. /\ panics' = panics /\ dropped' = dropped
      /\ pc[g] = "producing" /\ item[g] \notin panics
      /\ nodes' = Grown(g) /\ done' = Ended(g)
  BY DEF ProducerReturns, ProducesTwice, Produced
<1>3. /\ Kept' = Kept
      /\ ~done
  BY <1>1, <1>2, KeptUnchanged DEF ListSoFar
<1>4. /\ nodes' = Kept[next - 1]
      /\ done' => nodes' = Kept[K] /\ next = K + 1
      /\ Begins(nodes, nodes')
  BY <1>1, <1>2, GrownKept
<1>5. nodes' \in Seq(1 .. K) /\ Len(nodes') <= K
  BY <1>1, <1>2, GrownTyping
<1>6. CASE ProducerReturns(g)
  <2>1. Returns(g, nodes') /\ ~Lacks(g, nodes', done') /\ next' = next
    BY <1>2, <1>6 DEF ProducerReturns
  <2>2. pc'[g] # "producing" /\ \A h \in Goroutines : h # g => pc'[h] = pc[h]
    BY <1>1, <1>5, <2>1, ReturnsTyping
  <2>3. \A h \in Goroutines : pc'[h] # "producing"
    BY <1>1, <1>2, <2>2 DEF ProducerHoldsLock
  <2>4. ListSoFar'
    BY <1>3, <1>4, <2>1, <2>3 DEF ListSoFar
  <2>5. WalkSoFar(g)'
    BY <1>1, <1>2, <1>3, <1>4, <1>5, <2>1, WalkReturns DEF WalkInv
  <2>6. ASSUME NEW h \in Goroutines, h # g PROVE WalkSoFar(h)'
    <3>1. /\ seen'[h] = seen[h] /\ op'[h] = op[h] /\ view'[h] = view[h]
          /\ pc'[h] = pc[h]
      BY <1>1, <2>1, <2>2, <2>6 DEF TypeOK, Returns, PeekReturns, TailReturns
    <3>2. QED
      BY <1>1, <1>2, <1>3, <1>4, <1>5, <3>1, WalkKept DEF WalkInv
  <2>7. QED
    BY <2>4, <2>5, <2>6 DEF WalkInv
<1>7. CASE ProducesTwice(g)
  <2>1. /\ pc' = pc /\ op' = op /\ view' = view /\ seen' = seen
        /\ item'[g] = next /\ ~done'
        /\ next' = IF next <= K THEN next + 1 ELSE next
    BY <1>1, <1>2, <1>7 DEF TypeOK, ProducesTwice, Produce, Lacks
  <2>2. \A h \in Goroutines : pc[h] = "producing" => h = g
    BY <1>1, <1>2 DEF ProducerHoldsLock
  <2>3. next \in 1 .. K + 1
    BY <1>1 DEF TypeOK
  <2>4. ListSoFar'
    BY <1>2, <1>3, <1>4, <2>1, <2>2, <2>3 DEF ListSoFar
  <2>5. ASSUME NEW h \in Goroutines PROVE WalkSoFar(h)'
    BY <1>1, <1>2, <1>3, <1>4, <1>5, <2>1, WalkKept DEF WalkInv
  <2>6. QED
    BY <2>4, <2>5 DEF WalkInv
<1>8. QED
  BY <1>6, <1>7

LEMMA WalkInvStep == WalkInv /\ [Next]_vars => WalkInv'
<1> SUFFICES ASSUME WalkInv, [Next]_vars PROVE WalkInv'
  OBVIOUS
<1>1. IInv'
  BY InvStep DEF WalkInv
<1>2. CASE UNCHANGED vars
  <2>1. Kept' = Kept
    BY <1>2, KeptUnchanged DEF vars
  <2>2. QED
    BY <1>1, <1>2, <2>1 DEF vars, WalkInv, ListSoFar, WalkSoFar, Passed, Here
<1>3. QED
  BY <1>1, <1>2, BeginStep, StillStep, GrowStep DEF Next, Operating

LEMMA WalkInvariant == Spec => []WalkInv
BY WalkInvInit, WalkInvStep, PTL DEF Spec

\* The rest of a sequence, without none or one of its elements.
LEMMA RestFacts ==
    ASSUME NEW S, NEW s \in Seq(S), NEW d \in {0, 1}
    PROVE  /\ SubSeq(s, d + 1, Len(s)) \in Seq(S)
           /\ Len(SubSeq(s, d + 1, Len(s))) = IF d + 1 <= Len(s) THEN Len(s) - d ELSE 0
           /\ \A i \in 1 .. Len(SubSeq(s, d + 1, Len(s))) :
                 SubSeq(s, d + 1, Len(s))[i] = s[i + d]
OBVIOUS

LEMMA SameElements ==
    ASSUME NEW S, NEW s \in Seq(S), NEW t \in Seq(S), Len(s) = Len(t), Begins(s, t)
    PROVE  s = t
BY DEF Begins

LEMMA WalkInvImplies == WalkInv => WalksAgree
<1> SUFFICES ASSUME WalkInv PROVE WalksAgree
  OBVIOUS
<1> USE LazyListAssumption
<1>1. TypeOK /\ ListSoFar
  BY DEF WalkInv, IInv
<1>2. Elements \in Seq(1 .. K) /\ Begins(nodes, Elements)
  <2>1. PICK m \in 0 .. K : nodes = Kept[m]
    <3>1. CASE \E g \in Goroutines : pc[g] = "producing"
      <4>1. PICK g \in Goroutines : pc[g] = "producing"
        BY <3>1
      <4>2. nodes = Kept[item[g] - 1] /\ item[g] \in 1 .. K + 1
        BY <1>1, <4>1 DEF WalkInv, IInv, ProducerHoldsLock, ListSoFar
      <4>3. item[g] - 1 \in 0 .. K
        BY <4>2
      <4>4. QED
        BY <4>2, <4>3
    <3>2. CASE \A g \in Goroutines : pc[g] # "producing"
      <4>1. nodes = Kept[next - 1] /\ next - 1 \in 0 .. K
        BY <1>1, <3>2 DEF ListSoFar, TypeOK
      <4>2. QED
        BY <4>1
    <3>3. QED
      BY <3>1, <3>2
  <2>2. K \in m .. K /\ K \in 0 .. K
    OBVIOUS
  <2>3. QED
    BY <2>1, <2>2, KeptTyping, KeptBegins DEF Elements
<1>3. done => nodes = Elements
  BY <1>1 DEF ListSoFar, Elements
<1>4. ASSUME NEW g \in Goroutines
      PROVE  /\ ToWalk(g) \in Seq(1 .. K) /\ seen[g] \in Seq(1 .. K)
             /\ Begins(seen[g], ToWalk(g))
             /\ view[g] = End => Len(seen[g]) = Len(ToWalk(g))
  <2>1. /\ seen[g] \in Seq(1 .. K) /\ dropped[g] \in {0, 1} /\ nodes \in Seq(1 .. K)
        /\ Len(Elements) \in Nat /\ Len(nodes) \in Nat /\ Len(seen[g]) \in Nat
    BY <1>1, <1>2 DEF TypeOK
  <2> DEFINE d == dropped[g]
             L == Len(Elements)
  <2>2. /\ ToWalk(g) \in Seq(1 .. K)
        /\ Len(ToWalk(g)) = IF d + 1 <= L THEN L - d ELSE 0
        /\ \A i \in 1 .. Len(ToWalk(g)) : ToWalk(g)[i] = Elements[i + d]
    BY <1>2, <2>1, RestFacts DEF ToWalk
  <2>3. \A i \in 1 .. Len(seen[g]) : i + d <= L /\ seen[g][i] = Elements[i + d]
    <3> SUFFICES ASSUME NEW i \in 1 .. Len(seen[g]) PROVE i + d <= L /\ seen[g][i] = Elements[i + d]
      OBVIOUS
    <3>1. i + d <= Len(nodes) /\ seen[g][i] = nodes[i + d]
      BY DEF WalkInv, WalkSoFar
    <3>2. i + d \in 1 .. Len(nodes) /\ Len(nodes) <= L
      <4>1. d \in {0, 1} /\ i \in Nat /\ i >= 1
        BY <2>1
      <4>2. Len(nodes) <= L
        BY <1>2 DEF Begins
      <4>3. QED
        BY <2>1, <3>1, <4>1, <4>2
    <3>3. Elements[i + d] = nodes[i + d]
      BY <1>2, <3>2 DEF Begins
    <3>4. QED
      BY <2>1, <3>1, <3>2, <3>3
  <2>4. Len(seen[g]) <= Len(ToWalk(g))
    <3>1. CASE Len(seen[g]) = 0
      BY <2>1, <2>2, <3>1
    <3>2. CASE Len(seen[g]) \in 1 .. Len(seen[g])
      <4>1. Len(seen[g]) + d <= L
        BY <2>3, <3>2
      <4> HIDE DEF L
      <4>2. Len(ToWalk(g)) = (IF d + 1 <= L THEN L - d ELSE 0) /\ L \in Nat
        BY <2>1, <2>2 DEF L
      <4>3. QED
        BY <2>1, <3>2, <4>1, <4>2
    <3>3. QED
      BY <2>1, <3>1, <3>2
  <2>5. Begins(seen[g], ToWalk(g))
    BY <2>1, <2>2, <2>3, <2>4 DEF Begins
  <2>6. view[g] = End => Len(seen[g]) >= L - d
    BY <1>3, <2>1 DEF WalkInv, WalkSoFar
  <2>7. view[g] = End => Len(seen[g]) = Len(ToWalk(g))
    BY <2>1, <2>2, <2>4, <2>6
  <2>8. QED
    BY <2>1, <2>2, <2>5, <2>7
<1>5. ASSUME NEW g \in Goroutines PROVE IsPrefix(seen[g], ToWalk(g))
  BY <1>4, BeginsIsPrefix
<1>6. ASSUME NEW g \in Goroutines, view[g] = End PROVE seen[g] = ToWalk(g)
  BY <1>4, <1>6, SameElements
<1>7. QED
  BY <1>3, <1>5, <1>6 DEF WalksAgree

\* Every walk finds a beginning of the elements for which the user's function
\* returns, in order, and all of them when it has come to the end, however the
\* goroutines that realize the list interleave and wherever it panics.
THEOREM WalksAgreeCorrect == Spec => []WalksAgree
BY WalkInvariant, WalkInvImplies, PTL
=============================================================================

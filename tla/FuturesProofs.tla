--------------------------- MODULE FuturesProofs ---------------------------
(***************************************************************************)
(* Theorems about Futures, for every number of futures, every program of   *)
(* theirs and every set of forcers.                                        *)
(***************************************************************************)
EXTENDS Futures, WellFoundedInduction, TLAPS

-----------------------------------------------------------------------------
(* Numbers.                                                                *)

\* Every set of numbers has a least one.
LEMMA LeastNumber ==
    ASSUME NEW T, T \subseteq Nat, T # {}
    PROVE  \E n \in T : \A m \in T : n <= m
<1>1. PICK n \in T : \A m \in T : ~ (<<m, n>> \in OpToRel(<, Nat))
  BY NatLessThanWellFounded, WFMin
<1>2. \A m \in T : ~(m < n)
  BY <1>1 DEF OpToRel
<1>3. QED
  BY <1>2

LEMMA MinFacts ==
    ASSUME NEW T, T \subseteq Nat, T # {}
    PROVE  Min(T) \in T /\ \A m \in T : Min(T) <= m
<1>1. \E n \in T : \A m \in T : n <= m
  BY LeastNumber
<1>2. QED
  BY <1>1, Zenon DEF Min

\* Induction, stated of the set of numbers that have the property.
LEMMA Induction ==
    ASSUME NEW T, T \subseteq Nat, 0 \in T, \A n \in T : n + 1 \in T
    PROVE  \A n \in Nat : n \in T
<1> SUFFICES ASSUME Nat \ T # {} PROVE FALSE
  OBVIOUS
<1>1. PICK n \in Nat \ T : \A m \in Nat \ T : n <= m
  BY LeastNumber
<1>2. n # 0 /\ n - 1 \in Nat /\ n - 1 < n
  OBVIOUS
<1>3. n - 1 \in T
  BY <1>1, <1>2
<1>4. QED
  BY <1>2, <1>3

-----------------------------------------------------------------------------
(* Where a panic comes from.                                               *)

\* The futures that f forces and that panic, if o says where panics come from.
Failing(f, o) == {d \in plan.needs[f] : ~Piped(d) /\ o[d] # None}

OriginBody(f, o) ==
    IF Failing(f, o) # {} THEN o[Min(Failing(f, o))]
    ELSE IF f \in plan.throws THEN f ELSE None

LEMMA NeedsEarlier ==
    ASSUME plan \in Plans, NEW f \in Futures
    PROVE  plan.needs[f] \subseteq 1 .. f - 1 /\ plan.needs[f] \subseteq Futures
<1> USE FuturesAssumption
<1>1. plan.needs \in {n \in [Futures -> SUBSET Futures] : \A h \in Futures : \A d \in n[h] : d < h}
  BY DEF Plans
<1>2. plan.needs \in [Futures -> SUBSET Futures] /\ \A d \in plan.needs[f] : d < f
  BY <1>1
<1>3. plan.needs[f] \subseteq Futures
  BY <1>2
<1>4. f \in Nat /\ \A d \in Futures : d \in Nat /\ d >= 1
  BY DEF Futures
<1>5. ASSUME NEW d \in plan.needs[f] PROVE d \in 1 .. f - 1
  <2>1. d < f /\ d \in Nat /\ d >= 1 /\ f \in Nat
    BY <1>2, <1>3, <1>4
  <2>2. QED
    BY <2>1
<1>6. QED
  BY <1>3, <1>5

\* What a body makes of the origins depends on the futures made before it.
LEMMA BodyDependsOnEarlier ==
    ASSUME plan \in Plans, NEW f \in Futures, NEW o, NEW p,
           \A d \in 1 .. f - 1 : o[d] = p[d]
    PROVE  OriginBody(f, o) = OriginBody(f, p)
<1>1. plan.needs[f] \subseteq 1 .. f - 1
  BY NeedsEarlier
<1>2. Failing(f, o) = Failing(f, p)
  BY <1>1 DEF Failing
<1>3. CASE Failing(f, o) # {}
  <2>1. Failing(f, o) \subseteq 1 .. f - 1
    BY <1>1 DEF Failing
  <2>2. Failing(f, o) \subseteq Nat
    BY <2>1
  <2>3. Min(Failing(f, o)) \in 1 .. f - 1
    BY <1>3, <2>1, <2>2, MinFacts
  <2>4. QED
    BY <1>2, <2>3 DEF OriginBody
<1>4. CASE Failing(f, o) = {}
  BY <1>2, <1>4 DEF OriginBody
<1>5. QED
  BY <1>3, <1>4

\* The recursive definition of Origin defines a function.
LEMMA OriginDef ==
    ASSUME plan \in Plans
    PROVE  \A f \in Futures : Origin[f] = OriginBody(f, Origin)
<1> USE FuturesAssumption
<1> DEFINE UpTo(k, o) == o = [f \in 1 .. k |-> OriginBody(f, o)]
           Exists(k) == k <= Count => \E o : UpTo(k, o)
           T == {k \in Nat : Exists(k)}
<1>1. Exists(0)
  <2>1. UpTo(0, [f \in 1 .. 0 |-> None])
    OBVIOUS
  <2>2. QED
    BY <2>1
<1>2. ASSUME NEW k \in Nat, Exists(k) PROVE Exists(k + 1)
  <2> SUFFICES ASSUME k + 1 <= Count PROVE \E o : UpTo(k + 1, o)
    OBVIOUS
  <2>1. PICK o : UpTo(k, o)
    BY <1>2
  <2> DEFINE p == [f \in 1 .. k + 1 |-> IF f = k + 1 THEN OriginBody(f, o) ELSE o[f]]
  <2>2. \A f \in 1 .. k : p[f] = o[f]
    OBVIOUS
  <2>3. \A f \in 1 .. k + 1 : f \in Futures /\ \A d \in 1 .. f - 1 : d \in 1 .. k
    BY DEF Futures
  <2>4. \A f \in 1 .. k + 1 : OriginBody(f, o) = OriginBody(f, p)
    <3> HIDE DEF p
    <3>1. QED
      BY <2>2, <2>3, BodyDependsOnEarlier
  <2>5. \A f \in 1 .. k + 1 : p[f] = OriginBody(f, o)
    BY <2>1
  <2>6. p = [f \in 1 .. k + 1 |-> p[f]]
    OBVIOUS
  <2> HIDE DEF p
  <2>7. UpTo(k + 1, p)
    BY <2>4, <2>5, <2>6
  <2>8. QED
    BY <2>7
<1>3. Exists(Count)
  <2> HIDE DEF Exists
  <2>1. T \subseteq Nat /\ 0 \in T /\ \A k \in T : k + 1 \in T
    BY <1>1, <1>2
  <2>2. Count \in T
    BY <2>1, Induction
  <2>3. QED
    BY <2>2
<1>4. PICK o : UpTo(Count, o)
  BY <1>3
<1>5. Origin = [f \in Futures |-> OriginBody(f, Origin)]
  BY <1>4, Zenon DEF Origin, Futures, OriginBody, Failing
<1>6. QED
  BY <1>5

\* An origin is a future, or None.
LEMMA OriginTyping ==
    ASSUME plan \in Plans
    PROVE  \A f \in Futures : Origin[f] \in Futures \cup {None}
<1> USE FuturesAssumption
<1> DEFINE P(k) == \A f \in Futures : f <= k => Origin[f] \in Futures \cup {None}
           T == {k \in Nat : P(k)}
<1>1. P(0)
  BY DEF Futures
<1>2. ASSUME NEW k \in Nat, P(k) PROVE P(k + 1)
  <2> SUFFICES ASSUME NEW f \in Futures, f <= k + 1 PROVE Origin[f] \in Futures \cup {None}
    OBVIOUS
  <2>1. Origin[f] = OriginBody(f, Origin)
    BY OriginDef
  <2>2. CASE Failing(f, Origin) # {}
    <3>1. Failing(f, Origin) \subseteq 1 .. f - 1 /\ Failing(f, Origin) \subseteq Futures
      BY NeedsEarlier DEF Failing
    <3>2. Failing(f, Origin) \subseteq Nat
      BY <3>1
    <3>3. Min(Failing(f, Origin)) \in Futures /\ Min(Failing(f, Origin)) \in 1 .. f - 1
      BY <2>2, <3>1, <3>2, MinFacts
    <3>4. Min(Failing(f, Origin)) <= k
      BY <3>3 DEF Futures
    <3>5. QED
      BY <1>2, <2>1, <2>2, <3>3, <3>4 DEF OriginBody
  <2>3. CASE Failing(f, Origin) = {}
    BY <2>1, <2>3 DEF OriginBody
  <2>4. QED
    BY <2>2, <2>3
<1>3. P(Count)
  <2> HIDE DEF P
  <2>1. T \subseteq Nat /\ 0 \in T /\ \A k \in T : k + 1 \in T
    BY <1>1, <1>2
  <2>2. Count \in T
    BY <2>1, Induction
  <2>3. QED
    BY <2>2
<1>4. QED
  BY <1>3 DEF Futures

LEMMA OriginUnchanged ==
    ASSUME plan' = plan
    PROVE  Origin' = Origin
<1> DEFINE From(pl) == CHOOSE o : o = [f \in Futures |->
               LET failing == {d \in pl.needs[f] : ~(d \in pl.piped) /\ o[d] # None}
               IN  IF failing # {} THEN o[Min(failing)]
                   ELSE IF f \in pl.throws THEN f ELSE None]
<1>1. Origin = From(plan)
  BY Zenon DEF Origin, Piped
<1>2. Origin' = From(plan')
  BY Zenon DEF Origin, Piped
<1> HIDE DEF From
<1>3. QED
  BY <1>1, <1>2
-----------------------------------------------------------------------------
(* The inductive invariant.                                                *)

Ended(f) == pc[f] \in {"close", "exit"}

\* A body that still runs has forced the first of its futures, and none of them
\* has failed; one that unwinds does so with the panic of its origin.
BodySoFar(f) ==
    /\ todo[f] \subseteq plan.needs[f]
    /\ pc[f] \in {"none", "run"} => \A d \in plan.needs[f] \ todo[f] :
           /\ Piped(d) \/ Origin[d] = None
           /\ \A e \in todo[f] : d < e
    /\ pc[f] = "recover" => raised[f] = Origin[f] /\ Origin[f] # None
    /\ pc[f] = "send" => Piped(f) /\ Origin[f] = None

\* The cells of a called future are set when its body has ended, and the value
\* of a piped future is then in its buffer or has been received.
Cells(f) ==
    /\ ~Piped(f) => /\ panicVal[f] = IF Ended(f) THEN Origin[f] ELSE None
                    /\ result[f] = IF Ended(f) /\ Origin[f] = None THEN f ELSE None
    /\ Piped(f) => /\ result[f] \in {f, None}
                   /\ takes[f] = (IF Ended(f) /\ Origin[f] = None THEN 1 ELSE 0)
                                 - (IF result[f] = f THEN 1 ELSE 0)

Right(a) == ~Piped(a.of) => /\ a.panic = Origin[a.of]
                            /\ a.value = IF a.panic = None THEN a.of ELSE None

ToldRight == \A c \in Forcers : \A a \in told[c] : Right(a)

\* The futures that have not been made have no worker.
Unmade == \A f \in Futures : pc[f] = "none" <=> made < f

IInv == TypeOK /\ Unmade /\ ToldRight /\ \A f \in Futures : BodySoFar(f) /\ Cells(f)

LEMMA InvInit == Init => IInv
<1> SUFFICES ASSUME Init PROVE IInv
  OBVIOUS
<1> USE FuturesAssumption
<1>1. plan \in Plans /\ plan.needs \in [Futures -> SUBSET Futures]
  BY DEF Init, Plans
<1>2. TypeOK
  BY <1>1 DEF Init, TypeOK
<1>3. ASSUME NEW f \in Futures PROVE BodySoFar(f) /\ Cells(f)
  <2>1. f # None
    BY DEF Futures, None
  <2>2. QED
    BY <1>1, <2>1 DEF Init, BodySoFar, Cells, Ended
<1>4. ToldRight
  BY DEF Init, ToldRight
<1>5. Unmade
  BY DEF Init, Unmade, Futures
<1>6. QED
  BY <1>2, <1>3, <1>4, <1>5 DEF IInv

\* What is told of a future that is forced, and what that does to its cells.
LEMMA ForcedFacts ==
    ASSUME IInv, NEW d \in Futures, NEW value, NEW panic, Forced(d, value, panic)
    PROVE  /\ ~Piped(d) => /\ panic = Origin[d]
                           /\ value = IF panic = None THEN d ELSE None
           /\ Piped(d) => panic = None
           /\ result' \in [Futures -> Futures \cup {None}]
           /\ takes' \in [Futures -> Nat]
           /\ plan' = plan /\ pc' = pc /\ panicVal' = panicVal =>
                 \A f \in Futures : Cells(f)'
           /\ \A f \in Futures : f # d => result'[f] = result[f] /\ takes'[f] = takes[f]
           /\ ~Piped(d) => result' = result /\ takes' = takes
<1> USE FuturesAssumption
<1>1. TypeOK /\ Cells(d) /\ None \notin Futures
  BY DEF IInv, Futures, None
<1>2. CASE CallReturns(d, value, panic)
  <2>1. pc[d] = "exit"
    BY <1>1, <1>2 DEF CallReturns, TypeOK
  <2>2. ~Piped(d) /\ panic = panicVal[d] /\ result' = result /\ takes' = takes
        /\ value = IF panic = None THEN result[d] ELSE None
    BY <1>2 DEF CallReturns
  <2>3. panic = Origin[d] /\ value = IF panic = None THEN d ELSE None
    BY <1>1, <2>1, <2>2 DEF Cells, Ended
  <2>4. plan' = plan /\ pc' = pc /\ panicVal' = panicVal => \A f \in Futures : Cells(f)'
    BY <2>2, OriginUnchanged DEF IInv, Cells, Ended, Piped
  <2>5. QED
    BY <1>1, <2>2, <2>3, <2>4 DEF TypeOK
<1>3. CASE Receive(d, value, panic)
  <2>1. /\ Piped(d) /\ panic = None /\ value = result[d]
        /\ result' = [result EXCEPT ![d] = None]
        /\ takes' = IF value = None THEN takes ELSE [takes EXCEPT ![d] = @ + 1]
    BY <1>3 DEF Receive
  <2>2. result' \in [Futures -> Futures \cup {None}] /\ takes' \in [Futures -> Nat]
    BY <1>1, <2>1 DEF TypeOK
  <2>3. \A f \in Futures : f # d => result'[f] = result[f] /\ takes'[f] = takes[f]
    BY <1>1, <2>1 DEF TypeOK
  <2>4. ASSUME plan' = plan, pc' = pc, panicVal' = panicVal, NEW f \in Futures PROVE Cells(f)'
    <3>1. Origin' = Origin
      BY <2>4, OriginUnchanged
    <3>2. CASE f # d
      BY <2>3, <2>4, <3>1, <3>2 DEF IInv, Cells, Ended, Piped
    <3>3. CASE f = d
      <4>1. result'[d] = None /\ result[d] \in {d, None} /\ takes[d] \in Nat /\ d # None
        BY <1>1, <2>1 DEF Cells, TypeOK
      <4>2. takes'[d] = IF result[d] = None THEN takes[d] ELSE takes[d] + 1
        BY <1>1, <2>1 DEF TypeOK
      <4>3. takes[d] = (IF Ended(d) /\ Origin[d] = None THEN 1 ELSE 0)
                       - (IF result[d] = d THEN 1 ELSE 0)
        BY <1>1, <2>1 DEF Cells
      <4>4. Ended(d)' = Ended(d) /\ Piped(d)'
        BY <2>1, <2>4 DEF Ended, Piped
      <4>5. takes'[d] = (IF Ended(d)' /\ Origin'[d] = None THEN 1 ELSE 0) - 0
        BY <3>1, <4>1, <4>2, <4>3, <4>4
      <4>6. QED
        BY <3>3, <4>1, <4>4, <4>5 DEF Cells
    <3>4. QED
      BY <3>2, <3>3
  <2>5. QED
    BY <2>1, <2>2, <2>3, <2>4
<1>4. QED
  BY <1>2, <1>3 DEF Forced

\* Steps of forcers, and the start of a worker.
LEMMA OutsideStep ==
    ASSUME IInv,
           Make \/ \E c \in Forcers : ForceReturns(c) \/ \E f \in Futures : ForceBegin(c, f)
    PROVE  IInv'
<1> USE FuturesAssumption
<1>1. TypeOK /\ plan' = plan /\ Origin' = Origin /\ panicVal' = panicVal /\ raised' = raised
      /\ todo' = todo /\ closed' = closed
  BY OriginUnchanged DEF IInv, Make, ForceReturns, ForceBegin
<1>2. CASE Make
  <2>1. made + 1 \in Futures /\ made' \in 0 .. Count
    BY <1>1, <1>2 DEF TypeOK, Make, Futures
  <2>2. pc[made + 1] = "none"
    BY <1>1, <2>1 DEF IInv, Unmade, TypeOK
  <2>3. IInv'
    <3>1. /\ pc' = [pc EXCEPT ![made + 1] = "run"] /\ result' = result /\ takes' = takes
          /\ told' = told /\ forcing' = forcing /\ forces' = forces
      BY <1>2 DEF Make, Goto
    <3>2. TypeOK'
      BY <1>1, <2>1, <2>2, <3>1 DEF TypeOK
    <3>3. \A f \in Futures : BodySoFar(f)' /\ Cells(f)'
      BY <1>1, <2>1, <2>2, <3>1 DEF IInv, TypeOK, BodySoFar, Cells, Ended, Piped
    <3>4. ToldRight'
      BY <1>1, <3>1 DEF IInv, ToldRight, Right, Piped
    <3>5. made' = made + 1 /\ made \in Nat
      BY <1>1, <1>2 DEF Make, TypeOK
    <3>6. Unmade'
      BY <1>1, <2>1, <3>1, <3>5 DEF IInv, Unmade, TypeOK, Futures
    <3>7. QED
      BY <3>2, <3>3, <3>4, <3>6 DEF IInv
  <2>4. QED
    BY <2>3
<1>3. ASSUME NEW c \in Forcers, NEW f \in Futures, ForceBegin(c, f) PROVE IInv'
  <2>1. /\ pc' = pc /\ result' = result /\ takes' = takes /\ told' = told
        /\ made' = made /\ forces[c] + 1 \in 0 .. MaxForces
    BY <1>1, <1>3 DEF ForceBegin, TypeOK
  <2>2. TypeOK'
    BY <1>1, <1>3, <2>1 DEF TypeOK, ForceBegin
  <2>3. QED
    BY <1>1, <2>1, <2>2 DEF IInv, Unmade, BodySoFar, Cells, Ended, Piped, ToldRight, Right
<1>4. ASSUME NEW c \in Forcers, ForceReturns(c) PROVE IInv'
  <2>1. forcing[c] \in Futures /\ pc' = pc /\ made' = made /\ forces' = forces
        /\ forcing' = [forcing EXCEPT ![c] = None]
    BY <1>1, <1>4 DEF ForceReturns, TypeOK
  <2>2. PICK value, panic \in Futures \cup {None} :
          /\ Forced(forcing[c], value, panic)
          /\ told' = [told EXCEPT ![c] = @ \cup
                         {[of |-> forcing[c], value |-> value, panic |-> panic]}]
    BY <1>4 DEF ForceReturns
  <2> DEFINE a == [of |-> forcing[c], value |-> value, panic |-> panic]
  <2>3. /\ result' \in [Futures -> Futures \cup {None}] /\ takes' \in [Futures -> Nat]
        /\ \A f \in Futures : Cells(f)'
        /\ ~Piped(forcing[c]) => /\ panic = Origin[forcing[c]]
                                 /\ value = IF panic = None THEN forcing[c] ELSE None
    BY <1>1, <2>1, <2>2, ForcedFacts
  <2>4. a \in Answers
    BY <2>1 DEF Answers
  <2>5. told' \in [Forcers -> SUBSET Answers]
    BY <1>1, <2>2, <2>4 DEF TypeOK
  <2>6. TypeOK'
    BY <1>1, <2>1, <2>3, <2>5 DEF TypeOK
  <2>7. Right(a)
    BY <2>3 DEF Right
  <2>8. ToldRight'
    <3> SUFFICES ASSUME NEW b \in Forcers, NEW x \in told'[b] PROVE Right(x)'
      BY DEF ToldRight
    <3>1. x \in told[b] \/ x = a
      BY <1>1, <2>2 DEF TypeOK
    <3> HIDE DEF a
    <3>2. Right(x)
      BY <2>7, <3>1 DEF IInv, ToldRight
    <3>3. QED
      BY <1>1, <3>2 DEF Right, Piped
  <2>9. \A f \in Futures : BodySoFar(f)'
    BY <1>1, <2>1 DEF IInv, BodySoFar, Piped
  <2>10. QED
    BY <2>1, <2>3, <2>6, <2>8, <2>9 DEF IInv, Unmade
<1>5. QED
  BY <1>2, <1>3, <1>4
\* A body forces its next future.
LEMMA BodyForcesStep ==
    ASSUME IInv, NEW f \in Futures, BodyForces(f)
    PROVE  IInv'
<1> USE FuturesAssumption
<1> DEFINE d == Min(todo[f])
<1>1. TypeOK /\ plan' = plan /\ Origin' = Origin /\ panicVal' = panicVal /\ closed' = closed
      /\ made' = made /\ forcing' = forcing /\ forces' = forces /\ told' = told
      /\ pc[f] = "run" /\ todo[f] # {}
  BY OriginUnchanged DEF IInv, BodyForces
<1>2. todo[f] \subseteq Futures /\ todo[f] \subseteq Nat
  BY <1>1 DEF TypeOK, Futures
<1>3. d \in todo[f] /\ (\A e \in todo[f] : d <= e) /\ d \in Futures
  BY <1>1, <1>2, MinFacts
<1>4. PICK value, panic \in Futures \cup {None} :
        /\ Forced(d, value, panic)
        /\ todo' = [todo EXCEPT ![f] = @ \ {d}]
        /\ raised' = [raised EXCEPT ![f] = panic]
        /\ pc' = [pc EXCEPT ![f] = IF panic = None THEN "run" ELSE "recover"]
  BY DEF BodyForces, Goto
<1> HIDE DEF d
<1>5. /\ result' \in [Futures -> Futures \cup {None}] /\ takes' \in [Futures -> Nat]
      /\ ~Piped(d) => panic = Origin[d]
      /\ Piped(d) => panic = None
  BY <1>3, <1>4, ForcedFacts
<1>6. TypeOK'
  <2>1. /\ todo' \in [Futures -> SUBSET Futures] /\ raised' \in [Futures -> Futures \cup {None}]
        /\ pc' \in [Futures -> {"none", "run", "recover", "send", "close", "exit"}]
    BY <1>1, <1>4 DEF TypeOK
  <2>2. closed' = {g \in Futures : pc'[g] = "exit"}
    BY <1>1, <1>4 DEF TypeOK
  <2>3. QED
    BY <1>1, <1>5, <2>1, <2>2 DEF TypeOK
<1>7. \A g \in Futures : Ended(g)' <=> Ended(g)
  BY <1>1, <1>4 DEF TypeOK, Ended
<1>8. \A g \in Futures : Cells(g)'
  <2>1. CASE Piped(d)
    <3>1. panic = None /\ pc' = pc
      BY <1>1, <1>4, <1>5, <2>1 DEF TypeOK
    <3>2. QED
      BY <1>1, <1>3, <1>4, <3>1, ForcedFacts
  <2>2. CASE ~Piped(d)
    <3>1. result' = result /\ takes' = takes
      BY <1>3, <1>4, <2>2, ForcedFacts
    <3>2. QED
      BY <1>1, <1>7, <3>1 DEF IInv, Cells, Piped
  <2>3. QED
    BY <2>1, <2>2
<1>9. BodySoFar(f)'
  <2>1. /\ todo[f] \subseteq plan.needs[f] /\ todo'[f] = todo[f] \ {d} /\ raised'[f] = panic
        /\ \A e \in plan.needs[f] \ todo[f] : /\ Piped(e) \/ Origin[e] = None
                                              /\ \A h \in todo[f] : e < h
    BY <1>1, <1>4 DEF IInv, BodySoFar, TypeOK
  <2>2. CASE panic = None
    <3>1. pc'[f] = "run"
      BY <1>1, <1>4, <2>2 DEF TypeOK
    <3>2. Piped(d) \/ Origin[d] = None
      BY <1>5, <2>2
    <3>3. \A e \in todo[f] \ {d} : d < e
      BY <1>2, <1>3
    <3>4. QED
      BY <1>1, <2>1, <3>1, <3>2, <3>3 DEF BodySoFar, Piped
  <2>3. CASE panic # None
    <3>1. pc'[f] = "recover"
      BY <1>1, <1>4, <2>3 DEF TypeOK
    <3>2. ~Piped(d) /\ panic = Origin[d] /\ Origin[d] # None
      BY <1>5, <2>3
    <3>3. d \in Failing(f, Origin)
      BY <1>3, <2>1, <3>2 DEF Failing
    <3>4. Failing(f, Origin) \subseteq todo[f]
      BY <2>1 DEF Failing
    <3>5. Min(Failing(f, Origin)) = d
      <4>1. Min(Failing(f, Origin)) \in Failing(f, Origin)
            /\ Min(Failing(f, Origin)) <= d
        BY <1>2, <3>3, <3>4, MinFacts
      <4>2. Min(Failing(f, Origin)) \in Nat /\ d \in Nat /\ d <= Min(Failing(f, Origin))
        BY <1>2, <1>3, <3>4, <4>1
      <4>3. QED
        BY <4>1, <4>2
    <3>6. Origin[f] = panic
      BY <1>1, <3>2, <3>3, <3>5, OriginDef DEF OriginBody, TypeOK
    <3>7. QED
      BY <1>1, <2>1, <2>3, <3>1, <3>6 DEF BodySoFar
  <2>4. QED
    BY <2>2, <2>3
<1>10. ASSUME NEW g \in Futures, g # f PROVE BodySoFar(g)'
  <2>1. pc'[g] = pc[g] /\ todo'[g] = todo[g] /\ raised'[g] = raised[g]
    BY <1>1, <1>4, <1>10 DEF TypeOK
  <2>2. QED
    BY <1>1, <2>1 DEF IInv, BodySoFar, Piped
<1>11. ToldRight' /\ Unmade'
  BY <1>1, <1>4 DEF IInv, ToldRight, Right, Piped, Unmade, TypeOK
<1>12. QED
  BY <1>6, <1>8, <1>9, <1>10, <1>11 DEF IInv

\* The other steps of a worker change its own cells only.
LEMMA WorkerStep ==
    ASSUME IInv, NEW f \in Futures,
           BodyPanics(f) \/ BodyReturns(f) \/ Send(f) \/ Recover(f) \/ Close(f)
    PROVE  IInv'
<1> USE FuturesAssumption
<1>1. /\ TypeOK /\ plan' = plan /\ Origin' = Origin /\ made' = made /\ todo' = todo
      /\ forcing' = forcing /\ forces' = forces /\ told' = told /\ takes' = takes
      /\ BodySoFar(f) /\ Cells(f)
  BY OriginUnchanged DEF IInv, BodyPanics, BodyReturns, Send, Recover, Close
<1>2. f \in Futures /\ f # None /\ Origin[f] \in Futures \cup {None}
  BY <1>1, OriginTyping DEF TypeOK, Futures, None
<1>3. TypeOK'
  <2>1. /\ raised' \in [Futures -> Futures \cup {None}]
        /\ result' \in [Futures -> Futures \cup {None}]
        /\ panicVal' \in [Futures -> Futures \cup {None}]
    BY <1>1 DEF TypeOK, BodyPanics, BodyReturns, Send, Recover, Close
  <2>2. pc' \in [Futures -> {"none", "run", "recover", "send", "close", "exit"}]
    BY <1>1 DEF TypeOK, BodyPanics, BodyReturns, Send, Recover, Close, Goto
  <2>3. closed' = {g \in Futures : pc'[g] = "exit"}
    BY <1>1 DEF TypeOK, BodyPanics, BodyReturns, Send, Recover, Close, Goto
  <2>4. QED
    BY <1>1, <2>1, <2>2, <2>3 DEF TypeOK
<1>4. ASSUME NEW g \in Futures, g # f PROVE BodySoFar(g)' /\ Cells(g)'
  <2>1. /\ pc'[g] = pc[g] /\ raised'[g] = raised[g] /\ result'[g] = result[g]
        /\ panicVal'[g] = panicVal[g]
    BY <1>1, <1>4 DEF TypeOK, BodyPanics, BodyReturns, Send, Recover, Close, Goto
  <2>2. QED
    BY <1>1, <2>1 DEF IInv, BodySoFar, Cells, Ended, Piped
<1>5. ToldRight' /\ Unmade'
  <2>1. \A g \in Futures : pc'[g] = "none" <=> pc[g] = "none"
    BY <1>1 DEF TypeOK, BodyPanics, BodyReturns, Send, Recover, Close, Goto
  <2>2. QED
    BY <1>1, <2>1 DEF IInv, ToldRight, Right, Piped, Unmade
<1>6. todo[f] = {} /\ pc[f] = "run" => Origin[f] = IF f \in plan.throws THEN f ELSE None
  <2> SUFFICES ASSUME todo[f] = {}, pc[f] = "run"
               PROVE  Origin[f] = IF f \in plan.throws THEN f ELSE None
    OBVIOUS
  <2>1. Failing(f, Origin) = {}
    BY <1>1 DEF BodySoFar, Failing
  <2>2. QED
    BY <1>1, <2>1, OriginDef DEF OriginBody, TypeOK
<1>7. CASE BodyPanics(f)
  <2>1. /\ pc[f] = "run" /\ pc'[f] = "recover" /\ raised'[f] = f /\ Origin[f] = f
        /\ result' = result /\ panicVal' = panicVal
    BY <1>1, <1>6, <1>7 DEF BodyPanics, Goto, TypeOK
  <2>2. BodySoFar(f)' /\ Cells(f)'
    BY <1>1, <1>2, <2>1 DEF BodySoFar, Cells, Ended, Piped
  <2>3. QED
    BY <1>3, <1>4, <1>5, <2>2 DEF IInv
<1>8. CASE BodyReturns(f)
  <2>1. /\ pc[f] = "run" /\ Origin[f] = None /\ panicVal' = panicVal
    BY <1>6, <1>8 DEF BodyReturns
  <2>2. CASE Piped(f)
    <3>1. pc'[f] = "send" /\ result' = result
      BY <1>1, <1>8, <2>2 DEF BodyReturns, Goto, TypeOK
    <3>2. QED
      BY <1>1, <1>3, <1>4, <1>5, <2>1, <2>2, <3>1 DEF IInv, BodySoFar, Cells, Ended, Piped
  <2>3. CASE ~Piped(f)
    <3>1. pc'[f] = "close" /\ result'[f] = f
      BY <1>1, <1>8, <2>3 DEF BodyReturns, Goto, TypeOK
    <3>2. BodySoFar(f)'
      BY <1>1, <3>1 DEF BodySoFar
    <3>3. Cells(f)'
      BY <1>1, <2>1, <2>3, <3>1 DEF Cells, Ended, Piped
    <3>4. QED
      BY <1>3, <1>4, <1>5, <3>2, <3>3 DEF IInv
  <2>4. QED
    BY <2>2, <2>3
<1>9. CASE Send(f)
  <2>1. /\ pc[f] = "send" /\ pc'[f] = "close" /\ result'[f] = f /\ Piped(f) /\ Origin[f] = None
        /\ takes[f] \in Nat
    BY <1>1, <1>9 DEF Send, Goto, TypeOK, BodySoFar
  <2>2. takes[f] = 0
    BY <1>1, <2>1 DEF Cells, Ended
  <2>3. Cells(f)'
    BY <1>1, <2>1, <2>2 DEF Cells, Ended, Piped
  <2>4. BodySoFar(f)'
    BY <1>1, <2>1 DEF BodySoFar
  <2>5. QED
    BY <1>3, <1>4, <1>5, <2>3, <2>4 DEF IInv
<1>10. CASE Recover(f)
  <2>1. /\ pc[f] = "recover" /\ pc'[f] = "close" /\ result' = result
        /\ raised[f] = Origin[f] /\ Origin[f] # None
        /\ ~Piped(f) => panicVal'[f] = Origin[f]
    BY <1>1, <1>10 DEF Recover, Goto, TypeOK, BodySoFar
  <2>2. Cells(f)'
    BY <1>1, <2>1 DEF Cells, Ended, Piped
  <2>3. BodySoFar(f)'
    BY <1>1, <2>1 DEF BodySoFar
  <2>4. QED
    BY <1>3, <1>4, <1>5, <2>2, <2>3 DEF IInv
<1>11. CASE Close(f)
  <2>1. pc[f] = "close" /\ pc'[f] = "exit" /\ result' = result /\ panicVal' = panicVal
    BY <1>1, <1>11 DEF Close, Goto, TypeOK
  <2>2. QED
    BY <1>1, <1>3, <1>4, <1>5, <2>1 DEF IInv, BodySoFar, Cells, Ended, Piped
<1>12. QED
  BY <1>7, <1>8, <1>9, <1>10, <1>11

LEMMA InvStep == IInv /\ [Next]_vars => IInv'
<1> SUFFICES ASSUME IInv, [Next]_vars PROVE IInv'
  OBVIOUS
<1>1. CASE UNCHANGED vars
  <2>1. plan' = plan /\ Origin' = Origin
    BY <1>1, OriginUnchanged DEF vars
  <2>2. QED
    BY <1>1, <2>1 DEF vars, IInv, TypeOK, Unmade, ToldRight, Right, BodySoFar, Cells, Ended, Piped
<1>2. QED
  BY <1>1, OutsideStep, BodyForcesStep, WorkerStep DEF Next, Work

LEMMA InductiveInvariant == Spec => []IInv
BY InvInit, InvStep, PTL DEF Spec

\* A value or a panic is always that of a future.
THEOREM TypeCorrect == Spec => []TypeOK
BY InductiveInvariant, PTL DEF IInv

\* Whoever forces a called future, and whenever, is told the same outcome, the
\* one its body and the bodies it forces determine; the value of a piped future
\* is received once or is still to be received.
THEOREM OutcomesAgreeCorrect == Spec => []OutcomesAgree
<1>1. IInv => OutcomesAgree
  <2> SUFFICES ASSUME IInv PROVE OutcomesAgree
    OBVIOUS
  <2>1. ASSUME NEW f \in Futures, Piped(f)
        PROVE  /\ takes[f] <= 1
               /\ f \in closed /\ Origin[f] = None => takes[f] = 1 \/ result[f] = f
               /\ Origin[f] # None => takes[f] = 0
    <3>1. Cells(f) /\ takes[f] \in Nat /\ (f \in closed => Ended(f))
      BY DEF IInv, TypeOK, Ended
    <3>2. QED
      BY <2>1, <3>1 DEF Cells
  <2>2. QED
    BY <2>1 DEF IInv, ToldRight, Right, OutcomesAgree
<1>2. QED
  BY <1>1, InductiveInvariant, PTL
=============================================================================

------------------------------ MODULE LazyList ------------------------------
(***************************************************************************)
(* A lazy list shared by several goroutines (runtime/lazy_list.go), each   *)
(* walking it, or its rest, with a cursor (nextOrDone in runtime/seq.go:   *)
(* peek at the element, then take the tail).                               *)
(*                                                                         *)
(* The list is produced on demand: while a goroutine is in the producer,   *)
(* which runs the user's function, it holds the list's mutex.  Sections    *)
(* that do not call the producer are one step.  The producer works on the  *)
(* elements 1 .. K, and moves on before it calls the user's function (see  *)
(* lazyMap), so a call that panics uses its element up.                    *)
(***************************************************************************)
EXTENDS Integers, Sequences, SequencesExt

CONSTANTS Goroutines,
          K,         \* elements the producer has
          MayPanic,  \* elements on which the user's function may panic
          MaxWalks,  \* bound: walks from the start, per goroutine
          Free       \* nobody holds the mutex

ASSUME LazyListAssumption == /\ K \in Nat
                             /\ MayPanic \subseteq 1 .. K
                             /\ MaxWalks \in Nat
                             /\ Free \notin Goroutines

Start == 0        \* the view not yet bound to a node
End == K + 1      \* the view bound to no node; view i is bound to node i

VARIABLES panics,  \* the elements on which it panics
          next,    \* the next element the producer will work on
          nodes,   \* the realized elements, in list order
          done,    \* the producer has reported the end
          lock,    \* who holds the mutex
          pc,      \* idle, entering lazyPeek or lazyTail, or in the producer
          op,      \* which of the two
          view,    \* the view each goroutine has reached
          item,    \* the element a goroutine in the producer works on
          seen,    \* what its walk has found
          walks,   \* walks begun
          dropped, \* elements its walk has passed over: 0, or 1 for a walk of the rest
          leaked   \* who has left lazyTail by a panic

vars == <<panics, next, nodes, done, lock, pc, op, view, item, seen, walks,
          dropped, leaked>>

TypeOK ==
    /\ panics \subseteq MayPanic
    /\ next \in 1 .. K + 1
    /\ nodes \in Seq(1 .. K)
    /\ Len(nodes) < next
    /\ done \in BOOLEAN
    /\ lock \in Goroutines \cup {Free}
    /\ pc \in [Goroutines -> {"idle", "enter", "producing"}]
    /\ op \in [Goroutines -> {"peek", "tail"}]
    /\ view \in [Goroutines -> Start .. End]
    /\ item \in [Goroutines -> 0 .. K + 1]
    /\ seen \in [Goroutines -> Seq(1 .. K)]
    /\ walks \in [Goroutines -> 0 .. MaxWalks]
    /\ dropped \in [Goroutines -> {0, 1}]
    /\ leaked \subseteq Goroutines

Init ==
    /\ panics \in SUBSET MayPanic
    /\ next = 1
    /\ nodes = << >>
    /\ done = FALSE
    /\ lock = Free
    /\ pc = [g \in Goroutines |-> "idle"]
    /\ op = [g \in Goroutines |-> "peek"]
    /\ view = [g \in Goroutines |-> Start]
    /\ item = [g \in Goroutines |-> 0]
    /\ seen = [g \in Goroutines |-> << >>]
    /\ walks = [g \in Goroutines |-> 0]
    /\ dropped = [g \in Goroutines |-> 0]
    /\ leaked = {}

Goto(g, where) == pc' = [pc EXCEPT ![g] = where]

\* A goroutine starts over at the head, also after a panic it has caught.
Begin(g) == /\ pc[g] = "idle"
            /\ walks[g] < MaxWalks
            /\ walks' = [walks EXCEPT ![g] = @ + 1]
            /\ view' = [view EXCEPT ![g] = Start]
            /\ seen' = [seen EXCEPT ![g] = << >>]
            /\ Goto(g, "enter")
            /\ UNCHANGED <<panics, next, nodes, done, lock, item, leaked>>

\* It walks the list with a cursor.
Walk(g) == /\ Begin(g)
           /\ op' = [op EXCEPT ![g] = "peek"]
           /\ dropped' = [dropped EXCEPT ![g] = 0]

\* It walks the rest of the list, of which it has not looked at the head.
WalkRest(g) == /\ Begin(g)
               /\ op' = [op EXCEPT ![g] = "tail"]
               /\ dropped' = [dropped EXCEPT ![g] = 1]

-----------------------------------------------------------------------------
(* The sections under the mutex.                                           *)

\* The node a goroutine stands at, and the last one its operation must have.
Here(g) == IF view[g] = Start THEN 1 ELSE view[g]

Wanted(g) == IF op[g] = "peek" THEN Here(g) ELSE Here(g) + 1

\* The operation must call the producer (again).
Lacks(g, list, ended) == view[g] # End /\ Wanted(g) > Len(list) /\ ~ended

\* lazyPeek returns the element, or reports the end and the walk is over.
PeekReturns(g, list) ==
    /\ op[g] = "peek"
    /\ IF view[g] # End /\ Here(g) <= Len(list)
       THEN /\ seen' = [seen EXCEPT ![g] = Append(@, list[Here(g)])]
            /\ op' = [op EXCEPT ![g] = "tail"]
            /\ Goto(g, "enter")
       ELSE Goto(g, "idle") /\ UNCHANGED <<seen, op>>
    /\ UNCHANGED view

\* lazyTail returns a view of the next node, or the empty one.
TailReturns(g, list) ==
    /\ op[g] = "tail"
    /\ view' = [view EXCEPT ![g] = IF Wanted(g) <= Len(list) THEN Wanted(g) ELSE End]
    /\ op' = [op EXCEPT ![g] = "peek"]
    /\ Goto(g, "enter")
    /\ UNCHANGED seen

Returns(g, list) == PeekReturns(g, list) \/ TailReturns(g, list)

\* Everything the operation needs has been realized.
EnterRealized(g) ==
    /\ pc[g] = "enter"
    /\ lock = Free
    /\ ~Lacks(g, nodes, done)
    /\ Returns(g, nodes)
    /\ UNCHANGED <<panics, next, nodes, done, lock, item, walks, dropped, leaked>>

\* The producer takes its next element and works on it.
Produce(g, n) == /\ item' = [item EXCEPT ![g] = n]
                 /\ next' = IF n <= K THEN n + 1 ELSE n

\* Mutant: the mutex is not held during the call of the producer.
EnterProducerUnlocked(g) ==
    /\ pc[g] = "enter"
    /\ lock = Free
    /\ Lacks(g, nodes, done)
    /\ Produce(g, next)
    /\ Goto(g, "producing")
    /\ UNCHANGED <<panics, nodes, done, lock, op, view, seen, walks, dropped, leaked>>

\* The operation has to produce: it keeps the mutex and calls the producer.
EnterProducer(g) ==
    /\ pc[g] = "enter"
    /\ lock = Free
    /\ Lacks(g, nodes, done)
    /\ lock' = g
    /\ Produce(g, next)
    /\ Goto(g, "producing")
    /\ UNCHANGED <<panics, nodes, done, op, view, seen, walks, dropped, leaked>>

\* What is known once the producer has returned.
Grown(g) == IF item[g] <= K THEN Append(nodes, item[g]) ELSE nodes

Ended(g) == done \/ item[g] > K

Produced(g) == /\ pc[g] = "producing"
               /\ item[g] \notin panics
               /\ nodes' = Grown(g)
               /\ done' = Ended(g)

\* The producer returns, and so does the operation.
ProducerReturns(g) ==
    /\ Produced(g)
    /\ ~Lacks(g, Grown(g), Ended(g))
    /\ Returns(g, Grown(g))
    /\ lock' = Free
    /\ UNCHANGED <<panics, next, item, walks, dropped, leaked>>

\* The tail of an unrealized list: the head has been produced, its tail not.
ProducesTwice(g) ==
    /\ Produced(g)
    /\ Lacks(g, Grown(g), Ended(g))
    /\ Produce(g, next)
    /\ UNCHANGED <<panics, lock, pc, op, view, seen, walks, dropped, leaked>>

Panicked(g) == /\ pc[g] = "producing"
               /\ item[g] \in panics
               /\ Goto(g, "idle")

\* Mutant: lazyPeek unlocks only when it returns.
PeekPanicsLocked(g) ==
    /\ Panicked(g)
    /\ op[g] = "peek"
    /\ UNCHANGED <<panics, next, nodes, done, lock, op, view, item, seen, walks, dropped, leaked>>

\* lazyPeek unlocks in a defer.
PeekPanics(g) ==
    /\ Panicked(g)
    /\ op[g] = "peek"
    /\ lock' = Free
    /\ UNCHANGED <<panics, next, nodes, done, op, view, item, seen, walks, dropped, leaked>>

\* lazyTail does not: its mutex stays locked.
TailPanics(g) ==
    /\ Panicked(g)
    /\ op[g] = "tail"
    /\ leaked' = leaked \cup {g}
    /\ UNCHANGED <<panics, next, nodes, done, lock, op, view, item, seen, walks, dropped>>

-----------------------------------------------------------------------------

Operating(g) == \/ EnterRealized(g) \/ EnterProducer(g)
                \/ ProducerReturns(g) \/ ProducesTwice(g)
                \/ PeekPanics(g) \/ TailPanics(g)

Next == \E g \in Goroutines : Walk(g) \/ WalkRest(g) \/ Operating(g)

Spec == Init /\ [][Next]_vars

\* The user's function returns or panics, and a goroutine that keeps asking for
\* the mutex gets it in the end (Go's mutex hands it to one that has starved).
FairSpec == Spec /\ \A g \in Goroutines : SF_vars(Operating(g))

-----------------------------------------------------------------------------
(* Properties.                                                             *)

\* The elements up to n on which the user's function does not panic.
Kept[n \in 0 .. K] == IF n = 0 THEN << >>
                      ELSE IF n \in panics THEN Kept[n - 1] ELSE Append(Kept[n - 1], n)

\* The list all goroutines should see.
Elements == Kept[K]

\* The part of it a goroutine walks.
ToWalk(g) == SubSeq(Elements, dropped[g] + 1, Len(Elements))

\* Every walk finds the elements in order, each exactly once, and only those on
\* which the user's function panicked are missing: goroutines that realize the
\* list at the same time neither skip, repeat nor reorder.  The end is the end
\* for everyone: once the producer has reported it the list is complete, and a
\* walk that has reached it has found all of the list.
WalksAgree == /\ \A g \in Goroutines : IsPrefix(seen[g], ToWalk(g))
              /\ done => nodes = Elements
              /\ \A g \in Goroutines : view[g] = End => seen[g] = ToWalk(g)

\* A mutex held by a goroutine that is not in the producer was left behind by a
\* panic in lazyTail: no other path forgets to unlock.
OnlyTailLeaks ==
    \A g \in Goroutines : lock = g /\ pc[g] # "producing" => g \in leaked

\* Every lazyPeek and lazyTail returns, unless a panic has left the mutex locked.
OperationReturns ==
    \A g \in Goroutines : pc[g] # "idle" ~> (pc[g] = "idle" \/ leaked # {})
=============================================================================

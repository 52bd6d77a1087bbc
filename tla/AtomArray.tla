----------------------------- MODULE AtomArray -----------------------------
(***************************************************************************)
(* An atom that holds an array (runtime/atom.go with runtime/array.go),    *)
(* to which several goroutines add with (swap! a conj x).  The function is *)
(* not pure here: an append in place has written to the shared block       *)
(* before swap! knows whether it has won.                                  *)
(***************************************************************************)
EXTENDS ArrayHeap, FiniteSets

CONSTANTS Goroutines,  \* each adds an item of its own, written as its name
          MaxCalls,    \* bound: calls of swap! per goroutine
          NoArray      \* nothing has been read

VARIABLES heap,     \* the blocks
          slot,     \* a.v, an array
          pc,       \* where each goroutine stands in its swap!
          old,      \* what it read
          neu,      \* what conj returned
          calls     \* calls begun

vars == <<heap, slot, pc, old, neu, calls>>

Init ==
    /\ heap = << << >> >>
    /\ slot = Whole(1, 0, 0)
    /\ pc = [g \in Goroutines |-> "idle"]
    /\ old = [g \in Goroutines |-> NoArray]
    /\ neu = [g \in Goroutines |-> NoArray]
    /\ calls = [g \in Goroutines |-> 0]

Goto(g, where) == pc' = [pc EXCEPT ![g] = where]

SwapBegin(g) == /\ pc[g] = "idle"
                /\ calls[g] < MaxCalls
                /\ calls' = [calls EXCEPT ![g] = @ + 1]
                /\ Goto(g, "read")
                /\ UNCHANGED <<heap, slot, old, neu>>

Read(g) == /\ pc[g] = "read"
           /\ old' = [old EXCEPT ![g] = slot]
           /\ Goto(g, "conj")
           /\ UNCHANGED <<heap, slot, neu, calls>>

\* conj, without the mutex; its one write to the block is a single step.
ConjItem(g) == /\ pc[g] = "conj"
               /\ heap' = AppendHeap(heap, old[g], g)
               /\ neu' = [neu EXCEPT ![g] = AppendValue(heap, old[g])]
               /\ Goto(g, "store")
               /\ UNCHANGED <<slot, old, calls>>

\* The slot is compared with what was read: same block, same length.
Store(g) == /\ pc[g] = "store"
            /\ slot = old[g]
            /\ slot' = neu[g]
            /\ Goto(g, "idle")
            /\ UNCHANGED <<heap, old, neu, calls>>

Retry(g) == /\ pc[g] = "store"
            /\ slot # old[g]
            /\ Goto(g, "read")
            /\ UNCHANGED <<heap, slot, old, neu, calls>>

Next == \E g \in Goroutines :
            SwapBegin(g) \/ Read(g) \/ ConjItem(g) \/ Store(g) \/ Retry(g)

Spec == Init /\ [][Next]_vars

-----------------------------------------------------------------------------
(* Properties.                                                             *)

Quiet == \A g \in Goroutines : pc[g] = "idle"

\* docs/async.md: swap! "retries if another swap won", so every call that
\* returned has added its item once.
EveryCallCounts ==
    Quiet => \A g \in Goroutines :
                Cardinality({i \in 1 .. slot.len : Contents(heap, slot)[i] = g}) = calls[g]
=============================================================================

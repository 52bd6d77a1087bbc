-------------------------------- MODULE Atom --------------------------------
(***************************************************************************)
(* One FLAG atom (runtime/atom.go).  The slot is only touched under the    *)
(* atom's mutex, in sections that call nothing, so each section is one     *)
(* step.  swap! runs the user's function between two sections, without the *)
(* mutex, and starts over when the slot is not what it read.               *)
(*                                                                         *)
(* The slot is compared bit by bit (valueSlotEq): two numbers are the same *)
(* when they are equal, so a slot that was changed and changed back is     *)
(* taken for unchanged.                                                    *)
(***************************************************************************)
EXTENDS Naturals

CONSTANTS Goroutines,  \* the goroutines that hold the atom
          Values,      \* what the atom may contain
          F(_, _),     \* F(g, v): what the function g passes to swap! makes of v
          NoValue,     \* nothing has been read, computed or returned
          MaxCalls     \* bound: calls on the atom per goroutine

ASSUME AtomAssumption ==
    /\ NoValue \notin Values
    /\ MaxCalls \in Nat
    /\ \A g \in Goroutines, v \in Values : F(g, v) \in Values

VARIABLES slot,    \* a.v
          pc,      \* where each goroutine stands in its swap!
          old,     \* what it read
          neu,     \* what its function made of it
          result,  \* what its latest call returned
          calls    \* calls begun by each goroutine

vars == <<slot, pc, old, neu, result, calls>>

TypeOK ==
    /\ slot \in Values
    /\ pc \in [Goroutines -> {"idle", "read", "apply", "store"}]
    /\ old \in [Goroutines -> Values \cup {NoValue}]
    /\ neu \in [Goroutines -> Values \cup {NoValue}]
    /\ result \in [Goroutines -> Values \cup {NoValue}]
    /\ calls \in [Goroutines -> 0 .. MaxCalls]

Init ==
    /\ slot \in Values
    /\ pc = [g \in Goroutines |-> "idle"]
    /\ old = [g \in Goroutines |-> NoValue]
    /\ neu = [g \in Goroutines |-> NoValue]
    /\ result = [g \in Goroutines |-> NoValue]
    /\ calls = [g \in Goroutines |-> 0]

Begin(g) == /\ pc[g] = "idle"
            /\ calls[g] < MaxCalls
            /\ calls' = [calls EXCEPT ![g] = @ + 1]

Goto(g, where) == pc' = [pc EXCEPT ![g] = where]

\* old and neu are gone: they are local to one round of the loop.
Forget(g) == /\ old' = [old EXCEPT ![g] = NoValue]
             /\ neu' = [neu EXCEPT ![g] = NoValue]

Return(g, v) == result' = [result EXCEPT ![g] = v]

\* reset!
Reset(g, v) == /\ Begin(g)
               /\ slot' = v
               /\ Return(g, v)
               /\ UNCHANGED <<pc, old, neu>>

SwapBegin(g) == /\ Begin(g)
                /\ Goto(g, "read")
                /\ UNCHANGED <<slot, old, neu, result>>

\* First section of the loop.
Read(g) == /\ pc[g] = "read"
           /\ old' = [old EXCEPT ![g] = slot]
           /\ Goto(g, "apply")
           /\ UNCHANGED <<slot, neu, result, calls>>

\* The user's function, without the mutex.
Apply(g) == /\ pc[g] = "apply"
            /\ neu' = [neu EXCEPT ![g] = F(g, old[g])]
            /\ Goto(g, "store")
            /\ UNCHANGED <<slot, old, result, calls>>

\* The user's function panics: the swap! ends, the atom is as it was.
ApplyPanics(g) == /\ pc[g] = "apply"
                  /\ Goto(g, "idle")
                  /\ Forget(g)
                  /\ Return(g, NoValue)
                  /\ UNCHANGED <<slot, calls>>

\* Mutant: the result is stored without looking at the slot again.
StoreBlind(g) == /\ pc[g] = "store"
                 /\ slot' = neu[g]
                 /\ Goto(g, "idle")
                 /\ Forget(g)
                 /\ Return(g, neu[g])
                 /\ UNCHANGED calls

\* Second section: the slot is unchanged, the result is stored and returned.
Store(g) == /\ pc[g] = "store"
            /\ slot = old[g]
            /\ slot' = neu[g]
            /\ Goto(g, "idle")
            /\ Forget(g)
            /\ Return(g, neu[g])
            /\ UNCHANGED calls

\* Mutant: the loop applies its function again to what it read first.
RetryStale(g) == /\ pc[g] = "store"
                 /\ slot # old[g]
                 /\ Goto(g, "apply")
                 /\ UNCHANGED <<slot, old, neu, result, calls>>

\* Second section: another goroutine won, the loop starts over.
Retry(g) == /\ pc[g] = "store"
            /\ slot # old[g]
            /\ Goto(g, "read")
            /\ Forget(g)
            /\ UNCHANGED <<slot, result, calls>>

Swapping(g) == Read(g) \/ Apply(g) \/ Store(g) \/ Retry(g)

Next == \E g \in Goroutines :
            \/ \E v \in Values : Reset(g, v)
            \/ SwapBegin(g)
            \/ Swapping(g)
            \/ ApplyPanics(g)

Spec == Init /\ [][Next]_vars

\* A goroutine inside swap! keeps running.
FairSpec == Spec /\ \A g \in Goroutines : WF_vars(Swapping(g))

-----------------------------------------------------------------------------
(* Properties.                                                             *)

AtomicRegister ==
    INSTANCE Register WITH swapping <- {g \in Goroutines : pc[g] # "idle"}

\* Whatever the goroutines do between the two sections of a swap!, each swap!
\* that returns has changed the slot once, in one step, to the function of the
\* value it had, and returns that; one that panics has changed nothing.  So no
\* update is lost or done twice, also when a slot was changed and changed back.
ImplementsRegister == AtomicRegister!Spec

\* Every swap! gets out of its retry loop (Swap's for loop has no bound) when
\* the other goroutines make finitely many calls: an attempt fails only after
\* another goroutine's success.
SwapReturns == \A g \in Goroutines : pc[g] # "idle" ~> pc[g] = "idle"
=============================================================================

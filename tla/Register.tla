------------------------------ MODULE Register ------------------------------
(***************************************************************************)
(* What a FLAG atom promises (docs/async.md, "Atoms"): one value.  A       *)
(* reset! changes it to a given value; a swap! changes it, at one moment   *)
(* between its call and its return, to the function of the value it has    *)
(* at that moment.  Both return the new value.                             *)
(***************************************************************************)
CONSTANTS Goroutines,
          Values,
          F(_, _),  \* F(g, v): what the function g passes to swap! makes of v
          NoValue   \* nothing has been returned

VARIABLES slot,     \* the value
          swapping, \* the goroutines inside a swap!
          result    \* what the latest call of each goroutine returned

Init == /\ slot \in Values
        /\ swapping = {}
        /\ result = [g \in Goroutines |-> NoValue]

Reset(g, v) == /\ g \notin swapping
               /\ slot' = v
               /\ result' = [result EXCEPT ![g] = v]
               /\ UNCHANGED swapping

Call(g) == /\ g \notin swapping
           /\ swapping' = swapping \cup {g}
           /\ UNCHANGED <<slot, result>>

\* The update; a goroutine does one per call.
Update(g) == /\ g \in swapping
             /\ swapping' = swapping \ {g}
             /\ slot' = F(g, slot)
             /\ result' = [result EXCEPT ![g] = F(g, slot)]

\* The function panics: there is no update and no result.
Fail(g) == /\ g \in swapping
           /\ swapping' = swapping \ {g}
           /\ result' = [result EXCEPT ![g] = NoValue]
           /\ UNCHANGED slot

Next == \E g \in Goroutines :
            \/ \E v \in Values : Reset(g, v)
            \/ Call(g) \/ Update(g) \/ Fail(g)

Spec == Init /\ [][Next]_<<slot, swapping, result>>
=============================================================================

---------------------------- MODULE ParallelMap -----------------------------
(***************************************************************************)
(* What pmap promises (the parallel form of map): every row is passed to   *)
(* the function at most once, an answer is the answer of map, and nothing  *)
(* runs any more when there is one.  PMap implements this specification.   *)
(***************************************************************************)
EXTENDS Naturals

CONSTANTS Index,  \* the rows there may be
          Fails,  \* what the answer is when an input sequence panics
          None    \* there is no answer yet

VARIABLES rows,     \* rows of arguments read from the sequences
          panics,   \* rows on which the function panics
          calls,    \* calls of the function with each row
          ended,    \* rows whose call is over
          answer    \* None, Fails, the row whose panic is raised, or the results

Rows == 0 .. rows - 1

Init == /\ rows = 0
        /\ panics \subseteq Index
        /\ calls = [i \in Index |-> 0]
        /\ ended = {}
        /\ answer = None

\* Reading comes first.
Read == /\ answer = None
        /\ calls = [i \in Index |-> 0]
        /\ rows' = rows + 1
        /\ UNCHANGED <<panics, calls, ended, answer>>

ReadFails == /\ answer = None
             /\ calls = [i \in Index |-> 0]
             /\ answer' = Fails
             /\ UNCHANGED <<rows, panics, calls, ended>>

Begin(i) == /\ answer = None
            /\ calls[i] = 0
            /\ calls' = [calls EXCEPT ![i] = 1]
            /\ UNCHANGED <<rows, panics, ended, answer>>

End(i) == /\ calls[i] = 1
          /\ i \notin ended
          /\ ended' = ended \cup {i}
          /\ UNCHANGED <<rows, panics, calls, answer>>

\* The results are in the order of the rows, and there are none missing.
Return == /\ answer = None
          /\ ended = Rows
          /\ ended \cap panics = {}
          /\ answer' = [i \in Rows |-> i]
          /\ UNCHANGED <<rows, panics, calls, ended>>

\* A panic is that of a call that was made, and only comes when all are over.
Raise(i) == /\ answer = None
            /\ ended = {j \in Rows : calls[j] = 1}
            /\ i \in ended \cap panics
            /\ answer' = i
            /\ UNCHANGED <<rows, panics, calls, ended>>

Next == \/ Read \/ ReadFails
        \/ \E i \in Rows : Begin(i) \/ End(i) \/ Raise(i)
        \/ Return

Spec == Init /\ [][Next]_<<rows, panics, calls, ended, answer>>
=============================================================================

-------------------------------- MODULE PMap --------------------------------
(***************************************************************************)
(* pmap (PMap and pmapApply in runtime/seq.go).  The calling goroutine     *)
(* reads the sequences into rows of arguments and starts the workers;      *)
(* worker w takes the rows w, w + workers, w + 2 * workers, ...  A call    *)
(* that panics ends its worker, the others carry on.  The caller waits for *)
(* all of them and raises the first panic recorded, if there is one.       *)
(*                                                                         *)
(* The result of row i is i: results are told apart by the row they are    *)
(* of.                                                                     *)
(***************************************************************************)
EXTENDS Integers

CONSTANTS MaxRows,  \* bound: rows in the input
          CPUs,     \* what runtime.NumCPU may be
          NoValue,  \* a slot of results that has not been written
          Fails,    \* the panic of an input sequence
          None      \* no panic recorded, no answer yet

Index == 0 .. MaxRows - 1

ASSUME PMapAssumption == /\ MaxRows \in Nat
                         /\ CPUs \subseteq Nat \ {0}
                         /\ {NoValue, Fails, None} \cap Int = {}
                         /\ Fails # None

VARIABLES cpus,      \* runtime.NumCPU
          panics,    \* rows on which the function panics
          rows,      \* len(inputs)
          workers,   \* goroutines started, numbered from 0
          caller,    \* reading, waiting or over
          pc,        \* where each worker stands
          at,        \* i of each worker
          results,
          panicVal,
          answer,    \* what pmap returns or raises
          \* History.
          calls,     \* calls of the function with each row
          ended      \* calls that are over

vars == <<cpus, panics, rows, workers, caller, pc, at, results, panicVal,
          answer, calls, ended>>

TypeOK ==
    /\ cpus \in CPUs
    /\ panics \subseteq Index
    /\ rows \in 0 .. MaxRows
    /\ workers \in 0 .. rows
    /\ caller \in {"reading", "waiting", "over"}
    /\ pc \in [Index -> {"absent", "running", "calling", "panicking", "exiting",
                         "done"}]
    /\ at \in [Index -> 0 .. 2 * MaxRows]
    /\ results \in [Index -> Index \cup {NoValue}]
    /\ panicVal \in Index \cup {None}
    /\ calls \in [Index -> Nat]
    /\ ended \subseteq 0 .. rows - 1

Init ==
    /\ cpus \in CPUs
    /\ panics \in SUBSET Index
    /\ rows = 0
    /\ workers = 0
    /\ caller = "reading"
    /\ pc = [w \in Index |-> "absent"]
    /\ at = [w \in Index |-> w]
    /\ results = [i \in Index |-> NoValue]
    /\ panicVal = None
    /\ answer = None
    /\ calls = [i \in Index |-> 0]
    /\ ended = {}

-----------------------------------------------------------------------------
(* The caller.                                                             *)

\* Every cursor has another element.
ReadRow == /\ caller = "reading"
           /\ rows < MaxRows
           /\ rows' = rows + 1
           /\ UNCHANGED <<cpus, panics, workers, caller, pc, at, results, panicVal,
                          answer, calls, ended>>

\* An element of a lazy input panics.
ReadPanics == /\ caller = "reading"
              /\ caller' = "over"
              /\ answer' = Fails
              /\ UNCHANGED <<cpus, panics, rows, workers, pc, at, results, panicVal,
                             calls, ended>>

WorkerCount == IF 2 * cpus > rows THEN rows ELSE 2 * cpus

\* One of the sequences is at its end: the workers are started, if there are rows.
Start == /\ caller = "reading"
         /\ rows > 0
         /\ workers' = WorkerCount
         /\ pc' = [w \in Index |-> IF w < WorkerCount THEN "running" ELSE "absent"]
         /\ caller' = "waiting"
         /\ UNCHANGED <<cpus, panics, rows, at, results, panicVal, answer, calls,
                        ended>>

ReturnEmpty == /\ caller = "reading"
               /\ rows = 0
               /\ caller' = "over"
               /\ answer' = [i \in {} |-> i]
               /\ UNCHANGED <<cpus, panics, rows, workers, pc, at, results, panicVal,
                              calls, ended>>

\* Mutant: the first panic ends the wait.
AllDoneOrPanic == \/ panicVal # None
                  \/ \A w \in 0 .. workers - 1 : pc[w] = "done"

\* wg.Wait is over when the last worker is.
AllDone == \A w \in 0 .. workers - 1 : pc[w] = "done"

WaitOver == /\ caller = "waiting"
            /\ AllDone
            /\ caller' = "over"
            /\ UNCHANGED <<cpus, panics, rows, workers, pc, at, results, panicVal,
                           calls, ended>>

ReturnResults == /\ WaitOver
                 /\ panicVal = None
                 /\ answer' = [i \in 0 .. rows - 1 |-> results[i]]

RaisePanic == /\ WaitOver
              /\ panicVal # None
              /\ answer' = panicVal

-----------------------------------------------------------------------------
(* Worker w.                                                               *)

Goto(w, where) == pc' = [pc EXCEPT ![w] = where]

Call(w) == /\ pc[w] = "running"
           /\ at[w] < rows
           /\ calls' = [calls EXCEPT ![at[w]] = @ + 1]
           /\ Goto(w, "calling")
           /\ UNCHANGED <<cpus, panics, rows, workers, caller, at, results, panicVal,
                          answer, ended>>

CallEnds(w) == /\ pc[w] = "calling"
               /\ ended' = ended \cup {at[w]}

\* Mutant: the worker takes the row after its own.
NextRowAdjacent(w) == at[w] + 1

NextRow(w) == at[w] + workers

CallReturns(w) ==
    /\ CallEnds(w)
    /\ at[w] \notin panics
    /\ results' = [results EXCEPT ![at[w]] = at[w]]
    /\ at' = [at EXCEPT ![w] = NextRow(w)]
    /\ Goto(w, "running")
    /\ UNCHANGED <<cpus, panics, rows, workers, caller, panicVal, answer, calls>>

CallPanics(w) ==
    /\ CallEnds(w)
    /\ at[w] \in panics
    /\ Goto(w, "panicking")
    /\ UNCHANGED <<cpus, panics, rows, workers, caller, at, results, panicVal, answer,
                   calls>>

\* recordPanic, in a deferred function: the first one is kept.
RecordPanic(w) ==
    /\ pc[w] = "panicking"
    /\ panicVal' = IF panicVal = None THEN at[w] ELSE panicVal
    /\ Goto(w, "exiting")
    /\ UNCHANGED <<cpus, panics, rows, workers, caller, at, results, answer, calls,
                   ended>>

\* Mutant: a worker that has panicked forgets wg.Done.
DoneUnlessPanicked(w) ==
    /\ pc[w] = "running" /\ at[w] >= rows
    /\ Goto(w, "done")
    /\ UNCHANGED <<cpus, panics, rows, workers, caller, at, results, panicVal, answer,
                   calls, ended>>

\* wg.Done, in the deferred function that runs last.
Done(w) == /\ pc[w] = "exiting" \/ (pc[w] = "running" /\ at[w] >= rows)
           /\ Goto(w, "done")
           /\ UNCHANGED <<cpus, panics, rows, workers, caller, at, results, panicVal,
                          answer, calls, ended>>

-----------------------------------------------------------------------------

Caller == ReadRow \/ ReadPanics \/ Start \/ ReturnEmpty \/ ReturnResults \/ RaisePanic

Worker(w) == \/ Call(w) \/ CallReturns(w) \/ CallPanics(w)
             \/ RecordPanic(w) \/ Done(w)

Next == Caller \/ \E w \in Index : Worker(w)

Spec == Init /\ [][Next]_vars

\* The scheduler runs every goroutine that can run, and the function returns or
\* panics.
FairSpec == /\ Spec
            /\ WF_vars(Caller)
            /\ \A w \in Index : WF_vars(Worker(w))

-----------------------------------------------------------------------------
(* Properties.                                                             *)

MapSpec == INSTANCE ParallelMap

\* Striped over any number of workers, pmap calls the function at most once per
\* row, returns what map returns when no call panics, raises the panic of a call
\* otherwise, and leaves no call running behind.
ImplementsMap == MapSpec!Spec

\* A panic costs the rest of its stripe and no other row: the rows on which the
\* function is never called come later in the stripe of one that panicked.
OnlyStripeAbandoned ==
    caller = "over" /\ answer # Fails =>
        \A i \in 0 .. rows - 1 :
            calls[i] = 0
                <=> \E p \in ended \cap panics : p < i /\ p % workers = i % workers

\* pmap returns or panics (pmapApply waits without a bound).
PMapEnds == <>(caller = "over")
=============================================================================

------------------------------ MODULE Futures ------------------------------
(***************************************************************************)
(* Futures (runtime/go_async.go).  A future runs its body on a goroutine   *)
(* of its own, worker f.  A called future leaves the outcome in two cells, *)
(* a result and a panic value, which its result function reads after the   *)
(* done channel is closed.  A piped future sends it on a channel of        *)
(* capacity one and terminates the channel.                                *)
(*                                                                         *)
(* A body forces futures made before it, in the order of their numbers: it *)
(* calls or receives, and a panic it gets becomes its own.  Forcers are    *)
(* the other goroutines that do so, for example the main program.          *)
(***************************************************************************)
EXTENDS Integers, FiniteSets, FiniteSetsExt

CONSTANTS Count,     \* number of futures, made in the order of their numbers
          Forcers,   \* goroutines that force futures from outside
          MaxForces  \* bound: futures each of them forces

ASSUME FuturesAssumption == /\ Count \in Nat
                            /\ MaxForces \in Nat

Futures == 1 .. Count
None == 0   \* no value, no panic: futures and their values count from 1

VARIABLES plan,     \* what the program does, fixed at the start
          made,     \* futures 1 .. made exist
          pc,       \* where each worker stands
          todo,     \* the futures the body of each worker has yet to force
          raised,   \* the panic a worker is unwinding with: whose code panicked
          result,   \* the result cell, or the buffer of a piped future
          panicVal, \* the panic cell
          closed,   \* futures whose done channel is closed
          forcing,  \* the future each forcer is blocked on
          forces,   \* futures forced by each forcer
          told,     \* the outcomes each forcer was told
          takes     \* how often the value of each piped future was received

vars == <<plan, made, pc, todo, raised, result, panicVal, closed,
          forcing, forces, told, takes>>

Plans == [piped : SUBSET Futures,
          throws : SUBSET Futures,
          needs : {n \in [Futures -> SUBSET Futures] : \A f \in Futures : \A d \in n[f] : d < f}]

Piped(f) == f \in plan.piped

\* What a forcer is told by a future: a value, nil (both None), or a panic,
\* named after the future whose own code panicked.
Answers == [of : Futures, value : Futures \cup {None}, panic : Futures \cup {None}]

TypeOK ==
    /\ plan \in Plans
    /\ made \in 0 .. Count
    /\ pc \in [Futures -> {"none", "run", "recover", "send", "close", "exit"}]
    /\ todo \in [Futures -> SUBSET Futures]
    /\ raised \in [Futures -> Futures \cup {None}]
    /\ result \in [Futures -> Futures \cup {None}]
    /\ panicVal \in [Futures -> Futures \cup {None}]
    /\ closed = {f \in Futures : pc[f] = "exit"}
    /\ forcing \in [Forcers -> Futures \cup {None}]
    /\ forces \in [Forcers -> 0 .. MaxForces]
    /\ told \in [Forcers -> SUBSET Answers]
    /\ takes \in [Futures -> Nat]

Init ==
    /\ plan \in Plans
    /\ made = 0
    /\ pc = [f \in Futures |-> "none"]
    /\ todo = plan.needs
    /\ raised = [f \in Futures |-> None]
    /\ result = [f \in Futures |-> None]
    /\ panicVal = [f \in Futures |-> None]
    /\ closed = {}
    /\ forcing = [c \in Forcers |-> None]
    /\ forces = [c \in Forcers |-> 0]
    /\ told = [c \in Forcers |-> {}]
    /\ takes = [f \in Futures |-> 0]

Goto(f, where) == pc' = [pc EXCEPT ![f] = where]

\* NewFuture or FuturePipeRun: the worker starts.
Make == /\ made < Count
        /\ made' = made + 1
        /\ Goto(made + 1, "run")
        /\ UNCHANGED <<plan, todo, raised, result, panicVal, closed,
                       forcing, forces, told, takes>>

-----------------------------------------------------------------------------
(* Forcing a future: by its result function, or by a receive.              *)

\* The done channel is closed and the cells are read.
CallReturns(f, value, panic) ==
    /\ ~Piped(f)
    /\ f \in closed
    /\ panic = panicVal[f]
    /\ value = IF panic = None THEN result[f] ELSE None
    /\ UNCHANGED <<result, takes>>

\* channel-receive: the value for the first who comes, nil for the others.
Receive(f, value, panic) ==
    /\ Piped(f)
    /\ result[f] # None \/ f \in closed
    /\ panic = None
    /\ value = result[f]
    /\ result' = [result EXCEPT ![f] = None]
    /\ takes' = IF value = None THEN takes ELSE [takes EXCEPT ![f] = @ + 1]

Forced(f, value, panic) == CallReturns(f, value, panic) \/ Receive(f, value, panic)

ForceBegin(c, f) == /\ forcing[c] = None
                    /\ forces[c] < MaxForces
                    /\ f <= made
                    /\ forcing' = [forcing EXCEPT ![c] = f]
                    /\ forces' = [forces EXCEPT ![c] = @ + 1]
                    /\ UNCHANGED <<plan, made, pc, todo, raised, result, panicVal,
                                   closed, told, takes>>

ForceReturns(c) ==
    /\ forcing[c] # None
    /\ \E value, panic \in Futures \cup {None} :
        /\ Forced(forcing[c], value, panic)
        /\ told' = [told EXCEPT ![c] = @ \cup
                       {[of |-> forcing[c], value |-> value, panic |-> panic]}]
    /\ forcing' = [forcing EXCEPT ![c] = None]
    /\ UNCHANGED <<plan, made, pc, todo, raised, panicVal, closed, forces>>

-----------------------------------------------------------------------------
(* The worker of a future.                                                 *)

\* The body forces its next future, and panics if that did.
BodyForces(f) ==
    /\ pc[f] = "run"
    /\ todo[f] # {}
    /\ LET d == Min(todo[f])
       IN  \E value, panic \in Futures \cup {None} :
              /\ Forced(d, value, panic)
              /\ todo' = [todo EXCEPT ![f] = @ \ {d}]
              /\ raised' = [raised EXCEPT ![f] = panic]
              /\ Goto(f, IF panic = None THEN "run" ELSE "recover")
    /\ UNCHANGED <<plan, made, panicVal, closed, forcing, forces, told>>

\* Mutant: the deferred close runs before the deferred recover.
BodyPanicsClosed(f) ==
    /\ pc[f] = "run"
    /\ todo[f] = {}
    /\ f \in plan.throws
    /\ raised' = [raised EXCEPT ![f] = f]
    /\ closed' = closed \cup {f}
    /\ Goto(f, "recover")
    /\ UNCHANGED <<plan, made, todo, result, panicVal, forcing, forces, told, takes>>

\* The body's own code panics.
BodyPanics(f) ==
    /\ pc[f] = "run"
    /\ todo[f] = {}
    /\ f \in plan.throws
    /\ raised' = [raised EXCEPT ![f] = f]
    /\ Goto(f, "recover")
    /\ UNCHANGED <<plan, made, todo, result, panicVal, closed, forcing, forces,
                   told, takes>>

\* The body returns; the result cell of a called future is set.
BodyReturns(f) ==
    /\ pc[f] = "run"
    /\ todo[f] = {}
    /\ f \notin plan.throws
    /\ IF Piped(f)
       THEN Goto(f, "send") /\ UNCHANGED result
       ELSE Goto(f, "close") /\ result' = [result EXCEPT ![f] = f]
    /\ UNCHANGED <<plan, made, todo, raised, panicVal, closed, forcing, forces,
                   told, takes>>

\* The buffer is empty and nobody terminates the channel before the worker.
Send(f) == /\ pc[f] = "send"
           /\ result' = [result EXCEPT ![f] = f]
           /\ Goto(f, "close")
           /\ UNCHANGED <<plan, made, todo, raised, panicVal, closed, forcing,
                          forces, told, takes>>

\* Mutant: the worker of a piped future that panicked leaves its channel open.
RecoverOpen(f) ==
    /\ pc[f] = "recover"
    /\ panicVal' = IF Piped(f) THEN panicVal ELSE [panicVal EXCEPT ![f] = raised[f]]
    /\ Goto(f, IF Piped(f) THEN "exit" ELSE "close")
    /\ UNCHANGED <<plan, made, todo, raised, result, closed, forcing, forces,
                   told, takes>>

\* The deferred recover.  A piped future sends nil, which a receiver cannot
\* tell from the end that follows, so the send is left out.
Recover(f) ==
    /\ pc[f] = "recover"
    /\ panicVal' = IF Piped(f) THEN panicVal ELSE [panicVal EXCEPT ![f] = raised[f]]
    /\ Goto(f, "close")
    /\ UNCHANGED <<plan, made, todo, raised, result, closed, forcing, forces,
                   told, takes>>

Close(f) == /\ pc[f] = "close"
            /\ closed' = closed \cup {f}
            /\ Goto(f, "exit")
            /\ UNCHANGED <<plan, made, todo, raised, result, panicVal, forcing,
                           forces, told, takes>>

-----------------------------------------------------------------------------

Work(f) == \/ BodyForces(f) \/ BodyPanics(f) \/ BodyReturns(f)
           \/ Send(f) \/ Recover(f) \/ Close(f)

Next == \/ Make
        \/ \E c \in Forcers : ForceReturns(c) \/ \E f \in Futures : ForceBegin(c, f)
        \/ \E f \in Futures : Work(f)

\* Runnable goroutines run.
Fairness == /\ \A f \in Futures : WF_vars(Work(f))
            /\ \A c \in Forcers : WF_vars(ForceReturns(c))

Spec == Init /\ [][Next]_vars /\ Fairness

-----------------------------------------------------------------------------
(* Properties.                                                             *)

\* Where the panic of each called future comes from, by what the bodies say:
\* the first future it forces that panics, or its own code.
Origin[f \in Futures] ==
    LET failing == {d \in plan.needs[f] : ~Piped(d) /\ Origin[d] # None}
    IN  IF failing # {} THEN Origin[Min(failing)]
        ELSE IF f \in plan.throws THEN f ELSE None

\* Everyone who calls a future is told its one outcome, its value or the panic
\* that ended it, whenever they call; nobody sees an unset result.  The value of
\* a piped future is received at most once, by a forcer or by a body, and is
\* there to be received unless the body panicked.
OutcomesAgree ==
    /\ \A c \in Forcers : \A a \in told[c] : ~Piped(a.of) =>
          /\ a.panic = Origin[a.of]
          /\ a.value = IF a.panic = None THEN a.of ELSE None
    /\ \A f \in Futures : Piped(f) =>
          /\ takes[f] <= 1
          /\ f \in closed /\ Origin[f] = None => takes[f] = 1 \/ result[f] = f
          /\ Origin[f] # None => takes[f] = 0

\* Every force of a future returns, also when bodies panic: a body only forces
\* futures made before it.
ForceEnds == \A c \in Forcers : forcing[c] # None ~> forcing[c] = None
=============================================================================

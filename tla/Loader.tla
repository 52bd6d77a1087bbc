------------------------------- MODULE Loader -------------------------------
(***************************************************************************)
(* How the compiler finds the modules of a program and orders them:        *)
(* load-program and load-program-modules of libraries/compiler/lower.lib   *)
(* (compiled into internal/compiler/lower_flag_gen.go).  The prologue and  *)
(* what it imports come first, then the entry file and what it imports,    *)
(* depth first.  The recursion is a stack of frames, one call of           *)
(* load-program-modules each; a frame knows which import it is at.         *)
(***************************************************************************)
EXTENDS Naturals, Sequences

CONSTANTS
    Module,      \* the files that exist
    Path,        \* what an import resolves to: a file, or nothing
    Prologue,    \* the file prologue-path finds
    Entry        \* the file the compiler was asked for

ASSUME LoaderAssumption ==
    /\ Module \subseteq Path
    /\ Prologue \in Module
    /\ Entry \in Module

VARIABLES
    imports,     \* the resolved imports of each file, in the order of its header
    phase,       \* "prologue", "entry", "done", "circular" or "missing"
    seen,        \* :seen, the files that are completely loaded
    order,       \* :order, the program so far
    frames       \* the calls in progress, outermost first

loadVars == <<imports, phase, seen, order, frames>>

Frame(m) == [mod |-> m, at |-> 1]

\* load-program: the prologue is loaded on its own unless it is the entry.
LoadInit ==
    /\ imports \in [Module -> Seq(Path)]
    /\ seen = {}
    /\ order = << >>
    /\ IF Entry = Prologue
       THEN phase = "entry" /\ frames = <<Frame(Entry)>>
       ELSE phase = "prologue" /\ frames = <<Frame(Prologue)>>

Top == frames[Len(frames)]

\* The import the innermost call is at.
Importing ==
    /\ phase \in {"prologue", "entry"}
    /\ frames # << >>
    /\ Top.at <= Len(imports[Top.mod])
Wanted == imports[Top.mod][Top.at]

\* :stack, the files whose loading is in progress.
Stack == {frames[i].mod : i \in DOMAIN frames}

Advanced == [frames EXCEPT ![Len(frames)].at = @ + 1]

\* Mutant: an import that resolves to nothing is passed over.
MissingSkipped ==
    /\ Importing
    /\ Wanted \notin Module
    /\ frames' = Advanced
    /\ UNCHANGED <<imports, phase, seen, order>>

\* Nothing resolves: resolve-import-path throws before anything is loaded.
Missing ==
    /\ Importing
    /\ Wanted \notin Module
    /\ phase' = "missing"
    /\ UNCHANGED <<imports, seen, order, frames>>

\* Mutant: an import that is loaded already is looked at again.
SkipStays ==
    /\ Importing
    /\ Wanted \in seen
    /\ UNCHANGED loadVars

\* A file that is loaded already gives back what there is.
Skip ==
    /\ Importing
    /\ Wanted \in seen
    /\ frames' = Advanced
    /\ UNCHANGED <<imports, phase, seen, order>>

\* Mutant: the stack is one for all calls, never popped, and looked at first.
CircularAnywhere ==
    /\ Importing
    /\ Wanted \in seen \cup Stack
    /\ phase' = "circular"
    /\ UNCHANGED <<imports, seen, order, frames>>

Circular ==
    /\ Importing
    /\ Wanted \in Module \ seen
    /\ Wanted \in Stack
    /\ phase' = "circular"
    /\ UNCHANGED <<imports, seen, order, frames>>

\* Mutant: a file is put into the program before what it imports.
DescendFirst ==
    /\ Importing
    /\ Wanted \in Module \ seen
    /\ Wanted \notin Stack
    /\ frames' = Append(frames, Frame(Wanted))
    /\ order' = Append(order, Wanted)
    /\ UNCHANGED <<imports, phase, seen>>

Descend ==
    /\ Importing
    /\ Wanted \in Module \ seen
    /\ Wanted \notin Stack
    /\ frames' = Append(frames, Frame(Wanted))
    /\ UNCHANGED <<imports, phase, seen, order>>

\* The end of a call: the file comes after everything it imports, and the
\* caller goes on with its next import.
Finish ==
    /\ phase \in {"prologue", "entry"}
    /\ frames # << >>
    /\ Top.at > Len(imports[Top.mod])
    /\ seen' = seen \cup {Top.mod}
    /\ order' = Append(order, Top.mod)
    /\ frames' = LET below == SubSeq(frames, 1, Len(frames) - 1) IN
                 IF below = << >> THEN << >>
                 ELSE [below EXCEPT ![Len(below)].at = @ + 1]
    /\ UNCHANGED <<imports, phase>>

\* load-program goes on with the entry, with what the prologue's graph saw.
StartEntry ==
    /\ phase = "prologue"
    /\ frames = << >>
    /\ phase' = "entry"
    /\ frames' = IF Entry \in seen THEN << >> ELSE <<Frame(Entry)>>
    /\ UNCHANGED <<imports, seen, order>>

Return ==
    /\ phase = "entry"
    /\ frames = << >>
    /\ phase' = "done"
    /\ UNCHANGED <<imports, seen, order, frames>>

LoadNext == Missing \/ Skip \/ Circular \/ Descend \/ Finish \/ StartEntry \/ Return

LoadSpec == LoadInit /\ [][LoadNext]_loadVars
FairSpec == LoadSpec /\ WF_loadVars(LoadNext)

-----------------------------------------------------------------------------
TypeOK ==
    /\ imports \in [Module -> Seq(Path)]
    /\ phase \in {"prologue", "entry", "done", "circular", "missing"}
    /\ seen \subseteq Module
    /\ order \in Seq(Module)
    /\ frames \in Seq([mod : Module, at : Nat \ {0}])

\* A program is in dependency order and has no file twice: every file comes
\* after everything it imports (the comment on Program in
\* internal/compiler/loader.go:12 promises it, and compile-inline-modules
\* relies on it), however the graph is shaped and wherever loading stands.
ProvidersFirst ==
    /\ \A i, j \in DOMAIN order : order[i] = order[j] => i = j
    /\ \A i \in DOMAIN order : \A k \in DOMAIN imports[order[i]] :
         \E j \in 1 .. i - 1 : order[j] = imports[order[i]][k]

\* What the compiler calls a circular import is one: from the file it was
\* about to load, a chain of imports leads back to it.
CircularIsReal ==
    phase = "circular" =>
        \E i \in DOMAIN frames :
           /\ frames[i].mod = Wanted
           /\ \A j \in i .. Len(frames) - 1 :
                \E k \in DOMAIN imports[frames[j].mod] :
                   imports[frames[j].mod][k] = frames[j + 1].mod

\* A program that loads is complete: it holds the entry and the prologue, and
\* whatever one of its files imports.
CompleteWhenDone ==
    phase = "done" =>
        LET program == {order[i] : i \in DOMAIN order} IN
        /\ {Entry, Prologue} \subseteq program
        /\ \A m \in program : \A k \in DOMAIN imports[m] : imports[m][k] \in program

\* Loading ends, on circular graphs too: a program or an error.
Loads == <>(phase \in {"done", "circular", "missing"})
=============================================================================

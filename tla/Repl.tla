-------------------------------- MODULE Repl --------------------------------
(***************************************************************************)
(* The REPL (internal/repl/repl.go, ReplCompiler in                        *)
(* internal/compiler/compiler.go): a compiler that knows what it has       *)
(* compiled, and an interpreter of Go that is given the code step by step  *)
(* and may fail at any of them.  A command is compiled as a whole before   *)
(* its first step is evaluated; a failing step ends the command.           *)
(*                                                                         *)
(* A name n stands for the Go variable of a definition.  A function has    *)
(* besides it one identifier for each number of parameters and one for     *)
(* calls with any other number.  Functions with a rest parameter, records, *)
(* macros and tests are left out.                                          *)
(***************************************************************************)
EXTENDS Naturals, FiniteSets, SequencesExt

CONSTANTS
    Name,         \* what a program can define
    Line,         \* the forms that are typed at the prompt
    File,
    Headed,       \* the files with a header: the others share the prompt's names
    Imports,      \* the imports of each file, in the order of its header
    Binds,        \* the :go-exports of each file
    Forms,        \* the body of each file
    MaxCommands   \* a bound on the length of a session

\* A form: what it defines, the numbers of parameters of a function, the
\* calls <<name, number of arguments>> and the plain uses of names in it.
Form(op, name, arities, calls, uses) ==
    [op |-> op, name |-> name, arities |-> arities, calls |-> calls, uses |-> uses]

IsForm(f) ==
    /\ f = Form(f.op, f.name, f.arities, f.calls, f.uses)
    /\ f.op \in {"def", "defn", "declare", "print", "expr"}
    /\ f.name \in Name
    /\ f.arities \subseteq Nat /\ (f.op = "defn" => f.arities # {})
    /\ f.calls \subseteq Name \X Nat
    /\ f.uses \subseteq Name

\* An import that resolves to nothing is one of a file without a header: both
\* are refused.
ASSUME ReplAssumption ==
    /\ \A form \in Line : IsForm(form)
    /\ Headed \subseteq File
    /\ Imports \in [File -> Seq(File)]
    /\ Binds \in [File -> SUBSET Name]
    /\ DOMAIN Forms = File
    /\ \A f \in File : /\ Forms[f] \in Seq({Forms[f][i] : i \in DOMAIN Forms[f]})
                       /\ \A i \in DOMAIN Forms[f] : IsForm(Forms[f][i])
    /\ \A f \in File \ Headed : Imports[f] = << >> /\ Binds[f] = {}
    /\ MaxCommands \in Nat
VARIABLES
    fns,          \* ctx.functions: the parameter counts of each known function
    globals,      \* ctx.globals: the names whose Go variable is known
    bound,        \* ctx.moduleSymbols: the names a form may use
    redefine,     \* ctx.allowRedefine
    loaded,       \* loadedModules
    broken,       \* the files whose body does not compile at the moment
    calls,        \* what is being compiled: the command, then calls of ensureModuleLoaded
    bodies,       \* bodies compiled for this command
    batch,        \* what the interpreter has still to evaluate of the command
    declared,     \* the Go identifiers the interpreter has
    lost,         \* those the compiler counts on and nothing will declare
    left          \* commands the session may still have

sessionVars == <<fns, globals, bound, redefine, loaded, broken, calls, bodies,
                 batch, declared, lost, left>>

Var(n) == <<n, "var", 0>>
Arity(n, k) == <<n, "arity", k>>
Variadic(n) == <<n, "variadic", 0>>
\* The empty string where an identifier should be.
Unnamed(n) == <<n, "unnamed", 0>>

SessionInit ==
    /\ fns = [n \in Name |-> {}]
    /\ globals = {} /\ bound = {} /\ loaded = {}
    /\ redefine = FALSE
    /\ broken \in SUBSET File
    /\ calls = << >> /\ bodies = 0
    /\ batch = {}
    /\ declared = {} /\ lost = {}
    /\ left = MaxCommands

-----------------------------------------------------------------------------
(* Compiling a body: compile-module-body.  known is the context it is      *)
(* compiled in, binds and forms are its :go-exports and its forms.         *)

Mentions(form) == {c[1] : c \in form.calls} \cup form.uses
Several(form) == \E j, k \in form.arities : j # k

\* The names among the first n forms that are introduced by one of ops.
NamesOf(forms, n, ops) == {forms[i].name : i \in {j \in 1 .. n : forms[j].op \in ops}}

\* The last defn of m among the first n forms.
Defns(forms, n, m) == {i \in 1 .. n : forms[i].op = "defn" /\ forms[i].name = m}
LastDefn(forms, n, m) == forms[Max(Defns(forms, n, m))]

\* A function is registered before its own body is compiled.
FunctionsAt(known, forms, n) ==
    [m \in Name |-> IF Defns(forms, n, m) = {} THEN known.fns[m]
                    ELSE LastDefn(forms, n, m).arities]

\* What comes back of a function with several numbers of parameters has none
\* of them, and looks like one without parameters (flagModuleFunction).
FunctionsAfter(known, forms) ==
    [m \in Name |-> LET n == Len(forms) IN
                    IF Defns(forms, n, m) = {} THEN known.fns[m]
                    ELSE IF Several(LastDefn(forms, n, m)) THEN {0}
                    ELSE LastDefn(forms, n, m).arities]

\* What a call compiles to: the identifier for its number of arguments, the
\* variadic one, or the variable if the name is not known as a function.
CallTarget(functions, c) ==
    IF functions[c[1]] = {} THEN Var(c[1])
    ELSE IF c[2] \in functions[c[1]] THEN Arity(c[1], c[2]) ELSE Variadic(c[1])

Needs(functions, form) ==
    {CallTarget(functions, c) : c \in form.calls} \cup {Var(n) : n \in form.uses}

\* Every name is bound: a defn may use its own, a def may not.  Expressions and
\* print forms are for the prompt and for :load, redefinitions once one of
\* these was used.
Compiles(known, binds, forms, topLevel, again) ==
    \A i \in DOMAIN forms :
        /\ Mentions(forms[i]) \subseteq
             known.bound \cup binds \cup NamesOf(forms, i - 1, {"def", "defn", "declare"})
                \cup (IF forms[i].op = "defn" THEN {forms[i].name} ELSE {})
        /\ forms[i].op \in {"print", "expr"} => topLevel
        /\ forms[i].op = "defn" =>
             again \/ FunctionsAt(known, forms, i - 1)[forms[i].name] = {}

GlobalsAfter(known, binds, forms) ==
    known.globals \cup binds \cup NamesOf(forms, Len(forms), {"def", "defn"})
BoundAfter(known, binds, forms) ==
    known.bound \cup binds \cup NamesOf(forms, Len(forms), {"def", "defn", "declare"})

-----------------------------------------------------------------------------
(* The steps made of a compiled body.  A step declares identifiers that    *)
(* are new, which cannot fail, and then refers to others.                  *)

Step(part, at, declares, needs, throws) ==
    [body |-> bodies, part |-> part, at |-> at,
     declares |-> declares, needs |-> needs, throws |-> throws]

\* emitVar: a variable is declared the first time its name is compiled.
NewVar(known, n) == IF n \in known.globals THEN {} ELSE {Var(n)}
VarStep(known, part, at, n, needs, throws) ==
    Step(part, at, NewVar(known, n), needs \cup {Var(n)}, throws)

BindSteps(known, binds) == {VarStep(known, 1, 0, n, {}, FALSE) : n \in binds}

\* The identifiers of a function, declared unless the function is known.
OwnNames(form) == {Arity(form.name, k) : k \in form.arities} \cup {Variadic(form.name)}
FunctionStep(known, forms, i) ==
    LET form == forms[i] IN
    IF Several(form) THEN Step(2, i, {}, {Unnamed(form.name)}, FALSE)
    ELSE Step(2, i, IF known.fns[form.name] = {} THEN OwnNames(form) ELSE {},
              Needs(FunctionsAt(known, forms, i), form) \cup OwnNames(form), FALSE)

\* The variable of a definition: a value, or a function made of its variadic form.
DefinitionStep(known, forms, i) ==
    IF forms[i].op = "def"
    THEN VarStep(known, 3, i, forms[i].name, Needs(FunctionsAt(known, forms, i), forms[i]), TRUE)
    ELSE VarStep(known, 3, i, forms[i].name, {Variadic(forms[i].name)}, FALSE)

StatementStep(known, forms, part, i) ==
    Step(part, i, {}, Needs(FunctionsAt(known, forms, i), forms[i]), TRUE)

OfOp(forms, ops) == {i \in DOMAIN forms : forms[i].op \in ops}

\* The expression that is evaluated: of several the last.
Result(forms) == {i \in OfOp(forms, {"expr"}) : \A j \in OfOp(forms, {"expr"}) : j <= i}

\* replCompileResultSetups and replCompiledFromBody: the Go bindings, the
\* functions, the variables, what is printed and then the result.
Steps(known, binds, forms) ==
    BindSteps(known, binds)
      \cup {FunctionStep(known, forms, i) : i \in OfOp(forms, {"defn"})}
      \cup {DefinitionStep(known, forms, i) : i \in OfOp(forms, {"def", "defn"})}
      \cup {StatementStep(known, forms, 4, i) : i \in OfOp(forms, {"print"})}
      \cup {StatementStep(known, forms, 5, i) : i \in Result(forms)}

\* The functions nothing will declare: those with several numbers of parameters.
NeverDeclared(known, forms) ==
    {Variadic(forms[i].name) : i \in {j \in OfOp(forms, {"defn"}) :
        Several(forms[j]) /\ known.fns[forms[j].name] = {}}}

Declarations(steps) == UNION {s.declares : s \in steps}

Defined(f) == Binds[f] \cup NamesOf(Forms[f], Len(Forms[f]), {"def", "defn", "declare"})

\* What a successful compilation does to the session, its functions and its code.
Compiled(known, binds, forms) ==
    /\ fns' = FunctionsAfter(known, forms)
    /\ globals' = GlobalsAfter(known, binds, forms)
    /\ batch' = batch \cup Steps(known, binds, forms)
    /\ lost' = lost \cup NeverDeclared(known, forms)
    /\ bodies' = bodies + 1

-----------------------------------------------------------------------------
(* Commands.                                                               *)

Prompt == calls = << >> /\ batch = {} /\ left > 0
Session == [fns |-> fns, globals |-> globals, bound |-> bound]

\* CompileLine: nothing is defined if the form does not compile.
TypeLine(form) ==
    /\ Prompt
    /\ redefine' = TRUE
    /\ IF Compiles(Session, {}, <<form>>, TRUE, TRUE)
       THEN /\ Compiled(Session, {}, <<form>>)
            /\ bound' = BoundAfter(Session, {}, <<form>>)
       ELSE UNCHANGED <<fns, globals, batch, lost, bodies, bound>>
    /\ left' = left - 1
    /\ UNCHANGED <<loaded, broken, calls, declared>>

\* :import and :load
Begin(command, f) ==
    /\ Prompt
    /\ calls' = <<[call |-> command, file |-> f, at |-> 1]>>
    /\ bodies' = 0
    /\ left' = left - 1
    /\ UNCHANGED <<fns, globals, bound, redefine, loaded, broken, batch, declared, lost>>

\* Somebody corrects a file between two commands.
Correct(f) ==
    /\ Prompt
    /\ f \in broken
    /\ broken' = broken \ {f}
    /\ UNCHANGED <<fns, globals, bound, redefine, loaded, calls, bodies, batch, declared,
                   lost, left>>

-----------------------------------------------------------------------------
(* Loading modules: importResolvedSpec and ensureModuleLoaded, a call of   *)
(* which is an entry of calls with the import it is at.                    *)

Current == calls[Len(calls)]
Callers == SubSeq(calls, 1, Len(calls) - 1)
Needed == IF Current.call = "import" THEN <<Current.file>> ELSE Imports[Current.file]
AtImport == calls # << >> /\ Current.at <= Len(Needed)
AtBody == calls # << >> /\ Current.at > Len(Needed)
NextFile == Needed[Current.at]

\* The map loading: the modules whose loading is in progress.
Loading == {calls[i].file : i \in {j \in DOMAIN calls : calls[j].call = "module"}}

\* Mutant: only what a command names is looked up among the loaded modules.
LoadedAtTop(f) == f \in loaded /\ Len(calls) = 1

IsLoaded(f) == f \in loaded

\* The import is loaded.  The command binds its names in the session.
NextImport ==
    /\ AtImport
    /\ IsLoaded(NextFile)
    /\ calls' = [calls EXCEPT ![Len(calls)].at = @ + 1]
    /\ bound' = IF Current.call = "module" THEN bound ELSE bound \cup Defined(NextFile)
    /\ UNCHANGED <<fns, globals, redefine, loaded, broken, bodies, batch, declared, lost, left>>

EnsureLoaded ==
    /\ AtImport
    /\ ~IsLoaded(NextFile)
    /\ NextFile \in Headed \ Loading
    /\ calls' = Append(calls, [call |-> "module", file |-> NextFile, at |-> 1])
    /\ UNCHANGED <<fns, globals, bound, redefine, loaded, broken, bodies, batch, declared,
                   lost, left>>

\* An error returns through all calls.  What the modules before it did to the
\* session stays; their steps are dropped.
GiveUp(more) ==
    /\ calls' = << >>
    /\ batch' = {}
    /\ lost' = lost \cup Declarations(batch) \cup more
    /\ UNCHANGED <<fns, loaded, broken, bodies, declared, left>>

ImportRefused ==
    /\ AtImport
    /\ ~IsLoaded(NextFile)
    /\ NextFile \notin Headed \ Loading
    /\ GiveUp({})
    /\ UNCHANGED <<globals, bound, redefine>>

\* A module is compiled in a context of its own, in which it has the names of
\* its imports; the session takes over its functions and variables.
ModuleContext ==
    [fns |-> fns, globals |-> globals,
     bound |-> UNION {Defined(Needed[i]) : i \in DOMAIN Needed}]
ModuleCompiles ==
    /\ Current.file \notin broken
    /\ Compiles(ModuleContext, Binds[Current.file], Forms[Current.file], FALSE, redefine)

ModuleLoaded ==
    /\ AtBody /\ Current.call = "module"
    /\ ModuleCompiles
    /\ Compiled(ModuleContext, Binds[Current.file], Forms[Current.file])
    /\ loaded' = loaded \cup {Current.file}
    /\ calls' = Callers
    /\ UNCHANGED <<bound, redefine, broken, declared, left>>

ModuleRefused ==
    /\ AtBody /\ Current.call = "module"
    /\ ~ModuleCompiles
    /\ GiveUp({})
    /\ UNCHANGED <<globals, bound, redefine>>

\* The end of :import.
ImportDone ==
    /\ AtBody /\ Current.call = "import"
    /\ calls' = << >>
    /\ UNCHANGED <<fns, globals, bound, redefine, loaded, broken, bodies, batch, declared,
                   lost, left>>

\* Mutant: what is known is looked up when the body has been compiled.
KnownBeforeLate(f) == [Session EXCEPT !.globals = @ \cup NamesOf(Forms[f], Len(Forms[f]), {"def"})]

\* LoadFile takes knownBindings after the imports and before the body.
KnownBefore(f) == Session

\* :load compiles the file in the session's own context.
FileCompiles ==
    /\ Current.file \notin broken
    /\ Compiles(Session, Binds[Current.file], Forms[Current.file], TRUE, TRUE)

FileLoaded ==
    /\ AtBody /\ Current.call = "load"
    /\ FileCompiles
    /\ Compiled(KnownBefore(Current.file), Binds[Current.file], Forms[Current.file])
    /\ bound' = BoundAfter(Session, Binds[Current.file], Forms[Current.file])
    /\ redefine' = TRUE
    /\ calls' = << >>
    /\ UNCHANGED <<loaded, broken, declared, left>>

\* The :go-exports are bound before the forms are compiled, and stay bound; a
\* macro that cannot be expanded is met before.
FileRefused ==
    /\ AtBody /\ Current.call = "load"
    /\ ~FileCompiles
    /\ redefine' = TRUE
    /\ \E binds \in {Binds[Current.file]} \cup (IF Current.file \in broken THEN {{}} ELSE {}) :
         /\ GiveUp({Var(n) : n \in binds \ globals})
         /\ globals' = globals \cup binds
         /\ bound' = bound \cup binds

-----------------------------------------------------------------------------
(* executeCompiledBatch and evalCompiled: the interpreter takes one step   *)
(* after the other, Go bindings in any order.                              *)

\* Mutant: the steps of a body are taken in the order of its forms.
EarlierForm(s, t) ==
    \/ s.body < t.body
    \/ s.body = t.body /\ s.at < t.at

Earlier(s, t) ==
    \/ s.body < t.body
    \/ s.body = t.body /\ s.part < t.part
    \/ s.body = t.body /\ s.part = t.part /\ s.at < t.at

\* The step that is next.
Due == {s \in batch : calls = << >> /\ \A t \in batch : ~Earlier(t, s)}

\* What the step refers to and the interpreter does not have.
Undefined(s) == s.needs \ (declared \cup s.declares)

Succeed(s) ==
    /\ Undefined(s) = {}
    /\ declared' = declared \cup s.declares
    /\ batch' = batch \ {s}
    /\ UNCHANGED <<fns, globals, bound, redefine, loaded, broken, calls, bodies, lost, left>>

\* The step does not compile in the interpreter, or its expression throws: the
\* rest of the command is dropped.
Fail(s) ==
    /\ Undefined(s) # {} \/ s.throws
    /\ declared' = declared \cup s.declares
    /\ batch' = {}
    /\ lost' = lost \cup Declarations(batch \ {s})
    /\ UNCHANGED <<fns, globals, bound, redefine, loaded, broken, calls, bodies, left>>

SessionNext ==
    \/ \E form \in Line : TypeLine(form)
    \/ \E f \in File : Begin("import", f) \/ Begin("load", f) \/ Correct(f)
    \/ NextImport \/ EnsureLoaded \/ ImportRefused \/ ImportDone
    \/ ModuleLoaded \/ ModuleRefused \/ FileLoaded \/ FileRefused
    \/ \E s \in Due : Succeed(s) \/ Fail(s)

SessionSpec == SessionInit /\ [][SessionNext]_sessionVars

-----------------------------------------------------------------------------
\* The names that one file defines twice.
Twice(binds, forms) ==
    {n \in Name : \E i \in OfOp(forms, {"def", "defn"}) :
        /\ forms[i].name = n
        /\ \/ n \in binds
           \/ \E j \in OfOp(forms, {"def", "defn"}) : j # i /\ forms[j].name = n}
DefinedTwice == UNION {Twice(Binds[f], Forms[f]) : f \in File}

\* The names of declare forms.
Announced ==
    {form.name : form \in {l \in Line : l.op = "declare"}}
      \cup UNION {NamesOf(Forms[f], Len(Forms[f]), {"declare"}) : f \in File}

\* The interpreter has, or is about to get, every variable and function the
\* compiler knows, unless its declaration was lost: in a command that failed
\* before it, in an import whose later module was refused (compiler.go:935), in
\* a file refused after its :go-exports were bound (compiler.go:845), or because
\* the function has several numbers of parameters, which nothing declares
\* (lower_flag.go:281).  A variable is declared again, and what was compiled
\* before keeps the first one, only if one file defines the name twice.
KnownIsDeclared ==
    LET there == declared \cup Declarations(batch) \cup lost IN
    /\ \A n \in globals : Var(n) \in there
    /\ \A n \in Name : fns[n] # {} => Variadic(n) \in there
    /\ \A id \in Declarations(batch) \cap declared : id[1] \in DefinedTwice

\* The interpreter meets a Go identifier it does not have for these reasons
\* only: its declaration was lost; the function had other numbers of parameters
\* when it was declared; a function uses a variable that the same command
\* defines, since functions come first; the name was introduced by declare, and
\* its definition comes later in the command or has not come yet; or the step
\* defines a function with several numbers of parameters.
UndefinedExplained ==
    \A s \in Due : \A id \in Undefined(s) : LET n == id[1] IN
        \/ id \in lost
        \/ id = Arity(n, id[3]) /\ Variadic(n) \in declared \cup lost
        \/ id = Var(n) /\ id \in Declarations(batch) /\ (s.part = 2 \/ n \in Announced)
        \/ id = Var(n) /\ n \in Announced \ globals
        \/ id = Unnamed(n) /\ s.part = 2

\* An import never runs a module that is loaded, so the state a module keeps in
\* its variables survives: what was looked up before its imports were loaded
\* still holds when they are.  (:load runs the file it names again, and does not
\* note it as loaded.)
ImportsRunOnce == [][ModuleLoaded => Current.file \notin loaded]_sessionVars
=============================================================================

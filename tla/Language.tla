------------------------------ MODULE Language ------------------------------
(***************************************************************************)
(* The compiler's own algorithms, one input at a time: a text into tokens  *)
(* (Tokenizer), tokens into forms (Reader), a macro call into what it      *)
(* stands for and a form with macro calls into one without (Macros), a     *)
(* form into Go code (Lowering), the modules of a program into Go files    *)
(* (Linker), a call of a function every program has into its value         *)
(* (Prelude), a calculation into a number (Numerics).  Each is compared    *)
(* with a definition of what it should give: for Go code, with what the    *)
(* form means (Meaning), for modules, with what their names mean           *)
(* (Resolution), for calls, with PreludeMeaning, for numbers, with         *)
(* Arithmetic.                                                             *)
(***************************************************************************)
EXTENDS Naturals, Sequences, SequencesExt, TLC

CONSTANTS
    Texts,      \* sets of texts, as lines of characters
    TokenLists, \* sets of sequences of tokens
    MacroCalls, \* macro calls, as <<arities of the macro, arguments>>
    Macros,     \* macros by name ...
    Trees,      \* ... and forms that call them
    Bodies,     \* sets of bodies of a function ...
    Params,     \* ... with these parameters,
    Functions,  \* in a module with these functions
    ModuleSets, \* sets of programs of several modules
    GoPackage,  \* the Go identifier of each namespace
    Builtins,   \* words bound to runtime functions
    Applications, \* sets of calls of the prelude's functions
    Horizon,    \* items of an endless list
    Calculations, \* sets of functions of numbers and their arguments
    Half        \* half the number of longs

Tok == INSTANCE Tokenizer
Read == INSTANCE Reader
Mac == INSTANCE Macros
Low == INSTANCE Lowering
Mean == INSTANCE Meaning
Link == INSTANCE Resolution
Pre == INSTANCE Prelude
PreMean == INSTANCE PreludeMeaning
Arith == INSTANCE Arithmetic

VARIABLES stage, input, result
vars == <<stage, input, result>>

None == << >>
Init == /\ result = None
        /\ \/ stage = "text" /\ \E i \in DOMAIN Texts : input \in Texts[i]
           \/ stage = "tokens" /\ \E i \in DOMAIN TokenLists : input \in TokenLists[i]
           \/ stage = "call" /\ input \in MacroCalls
           \/ stage = "tree" /\ input \in Trees
           \/ stage = "form" /\ \E i \in DOMAIN Bodies : input \in Bodies[i]
           \/ stage = "numbers" /\ \E i \in DOMAIN Calculations : input \in Calculations[i]
           \/ stage = "apply" /\ \E i \in DOMAIN Applications : input \in Applications[i]
           \/ stage = "program" /\ \E i \in DOMAIN ModuleSets : input \in ModuleSets[i]

Does(before, after, value) ==
    stage = before /\ stage' = after /\ result' = value /\ UNCHANGED input

Tokenize == Does("text", "tokenized", Tok!TokensOf(input))
Parse == Does("tokens", "parsed", Read!ReadAll(input, 1, << >>))
ApplyMacro == Does("call", "applied", Mac!ApplyMacro(input[1], input[2]))
ExpandAll == Does("tree", "expanded", Mac!Expand(input, Macros, 0))
Lower == Does("form", "lowered", Low!Compiled(input, ToSet(Params), Functions))
LinkModules == Does("program", "linked",
                    IF input.package THEN Link!CompilePackages(input.modules, input.entry)
                    ELSE Link!CompileInline(input.modules, input.entry))
Apply == Does("apply", "called",
              Pre!InTurn(Pre!Fn(input.fn), <<input.args>> \o input.more))
Calculate == Does("numbers", "calculated", Arith!Calculate(input.fn, input.args))

Next == Tokenize \/ Parse \/ ApplyMacro \/ ExpandAll \/ Lower \/ LinkModules \/ Apply \/ Calculate
Spec == Init /\ [][Next]_vars

(******************************** Properties ******************************)

\* The tokens of a text stand where they say, in order and as they are
\* written, between two of them there are only blanks and comments, no token
\* stops where the text goes on with it, and a string ends at its own quote:
\* for all texts, with strings over several lines, escapes and triple quotes
\* (tokenize-line and its carried token between the lines).
TokensRight ==
    stage = "tokenized" =>
        /\ Tok!Stand(input, result) /\ Tok!NothingSkipped(input, result)
        /\ Tok!Maximal(input, result) /\ Tok!StringsEnd(result)

\* Wherever the parser begins in a sequence of tokens it finds the one form the
\* grammar has there, with its kind, its children and its end, or fails as there
\* is none: brackets nest, comment forms are dropped, metadata and quotes take
\* the forms behind them, and a bar opens or closes (read-expr).  Of the whole
\* sequence it gives the trees in order, up to the first place without a form
\* (build-ast-from-tokens).
ParsesGrammar == stage = "parsed" => Read!ReadsGrammar(input, result)

\* A macro call gives the template of the arity it fits with each parameter
\* replaced by its argument, whatever names the arguments mention, in one
\* pass: names brought in by one argument are never replaced by another
\* (wrap-literal around the arguments, macro-op and its macro-case).  A form
\* becomes what is left when its calls, and those in what they stand for, have
\* been replaced like this, with none of the marks the expander puts around
\* arguments; it is refused just when one of them fits no arity or no clause of
\* a macro-case, or comes of a hundred others (expand-node).
MacrosExpand == /\ stage = "applied" => Mac!Substitutes(input[1], input[2], result)
                /\ stage = "expanded" => Mac!Expands(input, Macros, result)

InScope == [x \in ToSet(Params) |-> "value"]
Accepted == result.kind # "error"
Named == Mean!Named(input, InScope, Functions, -1)
Regular == Mean!Regular(input, InScope, Functions, FALSE)

\* The compiler refuses a form just when a name in it stands where it is not
\* known, an operation has the wrong number or kind of arguments, a volatile
\* binding is not one, or a recur has not as many values as its loop: the
\* names of a let, a loop or a function end with it, whatever is compiled in
\* between (restore-outer-scope, declare-binding, compile-form-node).
NamesChecked ==
    stage = "lowered" => IF Named THEN Regular => Accepted ELSE Accepted => Mean!Leaks(input)

\* The Go code of a form builds: every variable is declared once in its
\* block, known and used, and every value is of the type its place asks for,
\* in all ways kinds meet in branches, bindings and arguments
\* (coerce-form-value, go-type-for-kind and the builders of statements).
CodeBuilds ==
    stage = "lowered" => (Named /\ Regular => Mean!GoBuilds(result, Params, Functions))

\* The Go code of a form does what the form means: the same functions called
\* with the same arguments in the same order, the same result, the same
\* exception; deferred functions and finally clauses run where they should
\* when a body is left by a value, a recur or a throw.
CodeMeans ==
    stage = "lowered" => (Named /\ Regular => Mean!Done(result, Params) = Mean!Meant(input, Params))

\* A program of several modules compiles just when every name in it is one its
\* module may use, is brought in by one import or own definition, and every
\* export is there.  Then each use reaches the definition the docs say it means,
\* a call the code for its number of arguments, in the entry's package and in
\* the others; the Go files name nothing twice and import what they use; and
\* the program starts in the entry's main (seed-imports, bind-module-name,
\* known-call-fun, compile-inline-modules, compile-package-modules).
LinksRight ==
    (stage = "linked" /\ Link!Regular(input.modules, input.package, input.entry)) =>
        /\ result.ok <=> Link!ProgramRight(input.modules, input.entry)
        /\ result.ok => /\ Link!UsesRight(input.modules, result)
                        /\ Link!FilesBuild(result)
                        /\ Link!EntryRight(input.modules, input.entry, result)

\* A function of the prelude gives the same for all kinds of sequences: what it
\* says of their items, refusing what has no answer; and of a list that is
\* still to come it takes at most one item more than decides the answer
\* (newSeqCursor, nextOrDone, lazyTail and the loops of prologue.flag).
PreludeRight ==
    (stage = "called" /\ PreMean!Regular(input.fn, input.args)) =>
        PreMean!RightAnswer(input.fn, input.args, input.more, result)

\* Arithmetic is exact for longs, big integers and ratios in every combination:
\* a result that does not fit a long is noticed although Go's own arithmetic
\* wraps around, also where the check for it does, and one that fits is a long
\* again; numbers are equal exactly when they are one number, whatever their
\* representation, and then one key; a range has the numbers it should just when
\* it stays a step away from the limits of the longs, where rangeCount and the
\* producer wrap around
\* (addIntegerValues, mulIntegerValues, Quot, Mod, compareNumeric, rangeCount).
NumbersRight == stage = "calculated" => Arith!RightNumber(input.fn, input.args, result)
=============================================================================

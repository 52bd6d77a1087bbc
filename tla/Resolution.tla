----------------------------- MODULE Resolution -----------------------------
(***************************************************************************)
(* What docs/modules.md says a name means, and what the Go code of module  *)
(* Linker must do for it.                                                  *)
(***************************************************************************)
EXTENDS Linker, FiniteSetsExt

Words(forms, ops) == UNION {ToSet(forms[i].names) : i \in {j \in DOMAIN forms : forms[j].op \in ops}}
Definitions == {"defn", "def", "declare"}
Expanded(mod) == SelectSeq(mod.forms, LAMBDA form : form.op # "defmacro")

\* The words a module defines or declares before its i-th form.
OwnBefore(mod, i) == Words(SubSeq(mod.forms, 1, i - 1), Definitions) \cup ToSet(mod.binds)
OwnWords(mod) == OwnBefore(mod, Len(mod.forms) + 1)
OwnMacros(mod) == Words(mod.forms, {"defmacro"})

\* What a module offers: an exported word it defines, or has a macro for.
Offers(provider, word) ==
    /\ provider.header /\ word \in ToSet(provider.exports)
    /\ word \in OwnWords(provider) \cup OwnMacros(provider)

\* The imports that bring in <<prefix, word>>, or the bare word by :refer.
Brings(mod, spec, byPath, name) ==
    LET provider == byPath[spec.path] IN
    /\ Offers(provider, name[2])
    /\ IF name[1] = "" THEN name[2] \in ToSet(Referred(spec, provider))
       ELSE name[1] = PrefixOf(spec, provider)
Sources(mod, byPath, name) == SelectSeq(Imports(mod), LAMBDA spec : Brings(mod, spec, byPath, name))
Values(mod, byPath, name) ==
    SelectSeq(Sources(mod, byPath, name), LAMBDA spec : name[2] \in OwnWords(byPath[spec.path]))

(***************************** What a name means **************************)

Means(what, path, word) == [what |-> what, path |-> path, word |-> word]
Nothing == Means("nothing", "", "")

\* docs/modules.md, "Name resolution order", at the i-th form of a module; the
\* prelude is an import of every module, and an own name may be written with
\* the own namespace.  own are the own words known there.
Denotes(mod, byPath, own, locals, name) ==
    LET sources == Values(mod, byPath, name)
        unqualified == IF name[1] = mod.ns THEN Bare(name[2]) ELSE name
        again == Values(mod, byPath, unqualified)
    IN CASE name[1] = "" /\ name[2] \in locals -> Means("local", "", name[2])
         [] unqualified[1] = "" /\ name[2] \in own -> Means("defined", mod.path, name[2])
         [] sources # << >> -> Means("defined", Last(sources).path, name[2])
         [] again # << >> -> Means("defined", Last(again).path, name[2])
         [] name[1] = "" /\ name[2] \in Builtins -> Means("builtin", "", name[2])
         [] OTHER -> Nothing

\* The macro a name means at the i-th form, as a module and a word.
MacroOf(mod, byPath, i, name) ==
    LET from(path) == Means("macro", path, name[2])
        sources == SelectSeq(Sources(mod, byPath, name),
                             LAMBDA spec : name[2] \notin OwnWords(byPath[spec.path]))
    IN IF name[1] = "" /\ name[2] \in Words(SubSeq(mod.forms, 1, i - 1), {"defmacro"}) THEN from(mod.path)
       ELSE IF sources # << >> THEN from(Last(sources).path)
       ELSE Nothing
Template(byPath, macro) ==
    LET forms == byPath[macro.path].forms IN
    forms[Max({j \in DOMAIN forms : forms[j].op = "defmacro" /\ forms[j].names[1] = macro.word})].uses

\* The uses of a body when its macro calls are replaced by their templates, each
\* with what it means.
Meanings(mod, byPath, i, own, locals, uses) ==
    FlattenSeq([u \in DOMAIN uses |->
        LET macro == IF uses[u].args < 0 THEN Nothing ELSE MacroOf(mod, byPath, i, uses[u].name)
            inner == IF macro = Nothing THEN <<uses[u]>> ELSE Template(byPath, macro)
        IN [v \in DOMAIN inner |-> [use |-> inner[v],
                                    means |-> Denotes(mod, byPath, own, locals, inner[v].name)]]])

\* ... of the whole i-th form: the name of a function is known in its body.
FormMeanings(mod, byPath, i) ==
    LET form == mod.forms[i]
        own == OwnBefore(mod, i)
        inner == own \cup IF form.op = "defn" THEN {form.names[1]} ELSE {}
    IN IF form.op = "defmacro" THEN << >>
       ELSE Meanings(mod, byPath, i, own, {}, form.uses) \o
            FlattenSeq([a \in DOMAIN form.arities |->
                Meanings(mod, byPath, i, inner, ToSet(form.arities[a].params), form.arities[a].uses)])

(**************************** A correct program ***************************)

ImportsRight(mod, byPath) ==
    /\ \A i \in DOMAIN mod.imports :
          LET spec == mod.imports[i]  provider == byPath[spec.path] IN
          /\ provider.header
          /\ \A w \in ToSet(Referred(spec, provider)) : Offers(provider, w)
    /\ \A i, j \in DOMAIN Imports(mod) :
          LET one == Imports(mod)[i]  other == Imports(mod)[j] IN
          PrefixOf(one, byPath[one.path]) = PrefixOf(other, byPath[other.path]) => one.path = other.path

FunctionsRight(mod) ==
    \A i \in DOMAIN mod.forms :
        LET form == mod.forms[i]
            counts == {Len(form.arities[a].params) : a \in DOMAIN form.arities}
        IN /\ form.op = "defn" /\ Len(form.arities) > 1 =>
                 Cardinality(counts) = Len(form.arities) /\ \A a \in ToSet(form.arities) : ~a.rest
           /\ form.op = "declare" => form.names # << >>
           /\ \A j \in 1 .. i - 1 : {form.op, mod.forms[j].op} \subseteq {"defn", "deftest"} =>
                                   form.names # mod.forms[j].names

ModuleRight(mod, byPath, entry) ==
    /\ ImportsRight(mod, byPath)
    /\ FunctionsRight(mod)
    /\ mod.header => ToSet(mod.exports) \subseteq OwnWords(mod) \cup OwnMacros(mod)
    /\ \A i \in DOMAIN mod.forms :
          /\ mod.forms[i].op = "expr" => mod.path = entry
          /\ \A m \in ToSet(FormMeanings(mod, byPath, i)) : m.means # Nothing

ProgramRight(modules, entry) == \A i \in DOMAIN modules : ModuleRight(modules[i], ByPath(modules), entry)

\* Programs for which the two ways to compile are known to agree with the docs; what
\* happens to the others is in the README.
Defining == {"defn", "def", "deftest", "defmacro"}
DefinedOnce(mod) ==
    /\ \A i, j \in DOMAIN mod.forms :
          /\ i # j /\ {mod.forms[i].op, mod.forms[j].op} \subseteq Defining
          /\ {mod.forms[i].op, mod.forms[j].op} \cap {"def", "defmacro"} # {}
          => mod.forms[i].names # mod.forms[j].names
    /\ ToSet(mod.binds) \cap Words(mod.forms, Defining \cup {"declare"}) = {}
    /\ Words(mod.forms, {"declare"}) \subseteq Words(mod.forms, {"defn", "def"})

Refers(mod, byPath) ==
    UNION {{<<mod.imports[i].path, w>> : w \in ToSet(Referred(mod.imports[i], byPath[mod.imports[i].path]))}
             : i \in DOMAIN mod.imports}
ReferredOnce(mod, byPath) ==
    /\ \A x, y \in Refers(mod, byPath) : x[2] = y[2] => x[1] = y[1]
    /\ \A x \in Refers(mod, byPath) : x[2] \notin OwnWords(mod) \cup OwnMacros(mod)

AllMeanings(mod, byPath) == UNION {ToSet(FormMeanings(mod, byPath, i)) : i \in DOMAIN mod.forms}
UsesOf(mod) == UNION {ToSet(mod.forms[i].uses) \cup UNION {ToSet(a.uses) : a \in ToSet(mod.forms[i].arities)}
                        : i \in DOMAIN mod.forms}

\* A name that is a macro in a module before this one.
Leaks(modules, i, name) ==
    \E j \in 1 .. i - 1 :
        MacroOf(modules[j], ByPath(modules), 1, name)
            \notin {Nothing, MacroOf(modules[i], ByPath(modules), 1, name)}

Regular(modules, package, entry) ==
    LET byPath == ByPath(modules) IN
    /\ \A i, j \in DOMAIN modules : GoPackage[modules[i].ns] = GoPackage[modules[j].ns] => i = j
    /\ \A i \in DOMAIN modules :
          LET mod == modules[i] IN
          /\ DefinedOnce(mod) /\ ReferredOnce(mod, byPath)
          /\ \A f \in ToSet(mod.forms) : \A a \in ToSet(f.arities) : f.names[1] \notin ToSet(a.params)
          /\ package => /\ \A spec \in ToSet(mod.imports) :
                              OwnWords(byPath[spec.path]) \cap ToSet(byPath[spec.path].exports) # {}
                                  => \E m \in AllMeanings(mod, byPath) : m.means.path = spec.path
                        /\ \A u \in UsesOf(mod) : u.name[2] \notin Words(mod.forms, {"deftest"})
          /\ ~package => /\ \A u \in UsesOf(mod) : ~Leaks(modules, i, u.name)
                         /\ mod.path # entry => "main" \notin OwnWords(mod)

(******************************** The code ********************************)

\* The definition a Go name stands for in the Go file of module p: its module
\* and what was emitted there under that name.  A name of another package must
\* be upper case and the package imported.
Emitted(one, go) == {e \in ToSet(one.emits) : e.kind # "declared" /\ e.go = go}
Meant(result, p, go) ==
    LET m == result.modules
        own == IF go.pkg # "" THEN {} ELSE
               {<<i, e>> : i \in DOMAIN m, e \in UNION {Emitted(m[j], go) : j \in DOMAIN m}}
    IN IF go.pkg = ""
       THEN {x \in own : x[2] \in Emitted(m[x[1]], go) /\ (x[1] = p \/ ~result.package)}
       ELSE IF ~go.up \/ go.pkg \notin m[p].goImports THEN {}
       ELSE UNION {{<<i, e>> : e \in Emitted(m[i], [go EXCEPT !.pkg = ""])} :
                        i \in {j \in DOMAIN m : GoPackage[m[j].ns] = go.pkg}}

\* The code of a use does what the use means: it reaches the one definition, and
\* a call the code for its number of arguments, if there is one.
Does(result, p, target, m) ==
    LET there == Meant(result, p, target.go) IN
    CASE m.means.what = "local" -> target.kind = "local" /\ target.go.word = m.means.word
      [] m.means.what = "builtin" -> target.kind = "builtin" /\ target.go.word = m.means.word
      [] m.means.what = "defined" ->
            /\ Cardinality(there) = 1
            /\ \A x \in there :
                  /\ result.modules[x[1]].path = m.means.path /\ x[2].word = m.means.word
                  /\ target.kind = "arity" => x[2].kind = "function" /\ target.n \in x[2].info.arities
                  /\ target.kind = "variadic" => x[2].kind = "function"
                  /\ target.kind \in {"arity", "variadic", "var"}
                  /\ target.kind = "arity" => target.n = m.use.args
      [] OTHER -> FALSE

\* No Go file defines a name twice, each imports just the packages it uses.
FilesBuild(result) ==
    LET m == result.modules
        emits(i) == SelectSeq(m[i].emits, LAMBDA e : e.kind # "declared")
        all == IF result.package THEN {emits(i) : i \in DOMAIN m}
               ELSE {FlattenSeq([i \in DOMAIN m |-> emits(i)])}
        used(i) == {t.go.pkg : t \in UNION {ToSet(m[i].targets[f]) : f \in DOMAIN m[i].targets}} \ {""}
    IN /\ \A es \in all : \A i, j \in DOMAIN es : es[i].go = es[j].go => i = j
       /\ \A i \in DOMAIN m : m[i].goImports = used(i)

\* Every use of every module, in a program that was compiled.
UsesRight(modules, result) ==
    \A p \in DOMAIN modules :
        LET forms == SelectSeq([i \in DOMAIN modules[p].forms |-> i],
                               LAMBDA i : modules[p].forms[i].op # "defmacro") IN
        \A f \in DOMAIN forms :
            LET right(targets, meant) ==
                    /\ Len(targets) = Len(meant)
                    /\ \A u \in DOMAIN meant : Does(result, p, targets[u], meant[u])
            IN right(result.modules[p].targets[f], FormMeanings(modules[p], ByPath(modules), forms[f]))

\* main is the entry's.
EntryRight(modules, entry, result) ==
    LET file == IF result.package THEN result.modules[Len(modules)].emits
                ELSE FlattenSeq([i \in DOMAIN modules |-> result.modules[i].emits])
        found == FindEntryFunction(file)
        mains == {e \in ToSet(result.modules[Len(modules)].emits) : e.kind = "function" /\ e.word = "main"}
    IN ToSet(found) = {e.go : e \in mains}
=============================================================================

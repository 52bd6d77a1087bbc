------------------------------- MODULE Linker -------------------------------
(***************************************************************************)
(* What a name means across the modules of a program (lower.lib,           *)
(* compile-inline-modules and compile-package-modules): the modules, in    *)
(* the order of module Loader, are compiled one after the other, each in a *)
(* context seeded with what it imports, into one Go program (inline) or    *)
(* one Go package each.                                                    *)
(*                                                                         *)
(* A name is <<prefix, word>>, a bare one has the prefix "".  A Go name is *)
(* [pkg, ns, word, up]: a package, empty for the own one; the prefix that  *)
(* stands before "__" in an inline program; whether the first letter was   *)
(* made upper case.  Words stay different as Go identifiers.  A module is  *)
(* [path, header, ns, exports, binds, imports, forms] (binds: :go-exports),*)
(* an import [path, as, refer], refer a sequence of words or <<"all">>.  A *)
(* form is [op, names, arities, uses]; a defn has for each of its arities  *)
(* [params, rest, uses].  A use is [name, args], args -1 for a name that   *)
(* is not called.                                                          *)
(***************************************************************************)
EXTENDS Naturals, Integers, Sequences, SequencesExt, FiniteSets, Functions, TLC

CONSTANTS GoPackage, \* the Go identifier of a namespace, go-package-name
          Builtins   \* words the compiler binds to runtime functions

Bare(word) == <<"", word>>
Local(ns, word) == [pkg |-> "", ns |-> ns, word |-> word, up |-> FALSE]
In(pkg, go) == IF pkg = "" \/ go.pkg # "" THEN go ELSE [go EXCEPT !.pkg = pkg]

(****************************** The context *******************************)
\* module: what names are bound to; functions: what is known of the Go
\* functions; macros: those imported, by name; self: the function compiled.
Empty == [ok |-> TRUE, package |-> FALSE, ns |-> "", exported |-> {}, module |-> << >>,
          functions |-> << >>, globals |-> {}, macros |-> << >>, goImports |-> {},
          main |-> FALSE, locals |-> {}, self |-> << >>]

Refuse(ctx) == [ctx EXCEPT !.ok = FALSE]

\* def-go-ident.
DefGoIdent(ctx, word) ==
    IF ctx.package THEN [Local("", word) EXCEPT !.up = word \in ctx.exported]
    ELSE Local(GoPackage[ctx.ns], word)

\* Mutant: a binding of the prelude cannot be replaced.
RebindsNotPrelude(ctx, prev, go) == ctx.package /\ prev.pkg # "" /\ go.pkg = ""

\* can-rebind-module-name?: an own definition replaces an import, in packages,
\* and anything replaces a name of the prelude.
Rebinds(ctx, prev, go) ==
    \/ ctx.package /\ prev.pkg # "" /\ go.pkg = ""
    \/ "prologue" \in {prev.pkg, prev.ns}

\* bind-module-name: a bare name is bound with the own namespace before it, too.
BindModuleName(ctx, name, go) ==
    LET keys == {name} \cup IF name[1] = "" /\ ctx.ns # "" THEN {<<ctx.ns, name[2]>>} ELSE {}
        clash(key) == /\ key \in DOMAIN ctx.module
                      /\ ctx.module[key] # go /\ ~Rebinds(ctx, ctx.module[key], go)
    IN IF \E key \in keys : clash(key) THEN Refuse(ctx)
       ELSE [ctx EXCEPT !.module = [key \in keys |-> go] @@ @]

\* register-fn-info, with qualify-fn-info: << >> is nil, no function.
Register(ctx, go, info) ==
    IF info = << >> THEN ctx ELSE [ctx EXCEPT !.functions = (go :> info) @@ @]

(******************************** A use ***********************************)

Target(kind, go, n) == [kind |-> kind, go |-> go, n |-> n]
Unknown == Target("error", Local("", ""), 0)

\* symbol-to-ir.
SymbolToIR(ctx, name) ==
    LET ident == Local("", name[2]) IN
    CASE name[1] = "" /\ name[2] \in ctx.locals -> Target("local", ident, 0)
      [] name \in DOMAIN ctx.module -> Target("var", ctx.module[name], 0)
      [] name[1] = "" /\ ident \in ctx.globals \cup DOMAIN ctx.functions -> Target("var", ident, 0)
      [] name[1] = "" /\ name[2] \in Builtins -> Target("builtin", ident, 0)
      [] OTHER -> Unknown

\* call-fun-from-info; what is known of a test fits any call, conventional-fn-info.
Info(rest, arities) == [rest |-> rest, arities |-> arities, test |-> FALSE]
Test == [Info(FALSE, {}) EXCEPT !.test = TRUE]
CallFunFromInfo(go, info, n) ==
    IF info.test THEN Target("arity", go, n)
    ELSE IF ~info.rest /\ n \in info.arities THEN Target("arity", go, n)
    ELSE Target("variadic", go, n)

\* self-call-target: a function called in its own body, by its own name.
SelfCall(ctx, name, n) ==
    /\ ctx.self # << >> /\ name = Bare(ctx.self.word)
    /\ ctx.self.info.rest \/ n \in ctx.self.info.arities

\* Mutant: a name of the module is called before a local of the same name.
KnownCallFunFirst(ctx, name, n) ==
    CASE SelfCall(ctx, name, n) -> CallFunFromInfo(ctx.self.go, ctx.self.info, n)
      [] name \in DOMAIN ctx.module ->
            LET go == ctx.module[name] IN
            IF go \in DOMAIN ctx.functions THEN CallFunFromInfo(go, ctx.functions[go], n)
            ELSE Target("var", go, n)
      [] OTHER -> SymbolToIR(ctx, name)

\* known-call-fun, and the value of the name when that knows nothing.
KnownCallFun(ctx, name, n) ==
    LET ident == Local("", name[2]) IN
    CASE SelfCall(ctx, name, n) -> CallFunFromInfo(ctx.self.go, ctx.self.info, n)
      [] name[1] = "" /\ name[2] \in ctx.locals -> SymbolToIR(ctx, name)
      [] name \in DOMAIN ctx.module ->
            LET go == ctx.module[name] IN
            IF go \in DOMAIN ctx.functions THEN CallFunFromInfo(go, ctx.functions[go], n)
            ELSE Target("var", go, n)
      [] name[1] = "" /\ ident \in DOMAIN ctx.functions -> CallFunFromInfo(ident, ctx.functions[ident], n)
      [] OTHER -> SymbolToIR(ctx, name)

Resolve(ctx, use) ==
    IF use.args < 0 THEN SymbolToIR(ctx, use.name) ELSE KnownCallFun(ctx, use.name, use.args)
ResolveAll(ctx, uses) == [i \in DOMAIN uses |-> Resolve(ctx, uses[i])]
AllKnown(targets) == \A i \in DOMAIN targets : targets[i].kind # "error"

(******************************** The forms *******************************)

\* What a form adds: its context, and what it emits: names, targets of its uses.
Item(ctx, emits, targets) == [ctx |-> IF AllKnown(targets) THEN ctx ELSE Refuse(ctx),
                              emits |-> emits, targets |-> targets]
Refused(ctx) == Item(Refuse(ctx), << >>, << >>)

\* What is known of a function, and of it in its own body.
Counts(form) == {Len(form.arities[i].params) : i \in DOMAIN form.arities}
Variadic(form) == \E i \in DOMAIN form.arities : form.arities[i].rest
DefnInfo(form) == Info(Variadic(form), IF Variadic(form) THEN {} ELSE Counts(form))
SelfInfo(form) == Info(Variadic(form), Counts(form))

\* compile-multi-arity-pending.
Dispatches(form) ==
    Len(form.arities) > 1 => ~Variadic(form) /\ Cardinality(Counts(form)) = Len(form.arities)

\* compile-single-arity-defn, compile-multi-arity-defn: in the body the function
\* is bound already; behind it the context is the outer one with the function.
DefnBodies(form, bound, go) ==
    LET self == [word |-> form.names[1], go |-> go, info |-> SelfInfo(form)]
        body(arity) == [bound EXCEPT !.locals = ToSet(arity.params), !.self = self]
    IN FlattenSeq([i \in DOMAIN form.arities |-> ResolveAll(body(form.arities[i]), form.arities[i].uses)])

CompileDefn(form, ctx) ==
    LET word == form.names[1]
        go == DefGoIdent(ctx, word)
        known == Register([ctx EXCEPT !.globals = @ \cup {go}], go, DefnInfo(form))
        bound == BindModuleName(known, Bare(word), go)
    IN IF go \in DOMAIN ctx.functions \/ ~Dispatches(form) THEN Refused(ctx)
       ELSE Item(bound, <<[go |-> go, word |-> word, kind |-> "function", info |-> DefnInfo(form)]>>,
                 DefnBodies(form, bound, go))

\* compile-def-form: the value is compiled before the name is bound.
CompileDef(form, ctx) ==
    LET go == DefGoIdent(ctx, form.names[1]) IN
    Item(BindModuleName([ctx EXCEPT !.globals = @ \cup {go}], Bare(form.names[1]), go),
         <<[go |-> go, word |-> form.names[1], kind |-> "variable", info |-> << >>]>>,
         ResolveAll(ctx, form.uses))

CompileDeclare(form, ctx) ==
    LET bind(c, word) == BindModuleName(c, Bare(word), DefGoIdent(c, word))
        emit(word) == [go |-> DefGoIdent(ctx, word), word |-> word, kind |-> "declared", info |-> << >>]
    IN IF form.names = << >> THEN Refused(ctx)
       ELSE Item(FoldLeft(bind, ctx, form.names), [i \in DOMAIN form.names |-> emit(form.names[i])], << >>)

CompileDeftest(form, ctx) ==
    LET go == DefGoIdent(ctx, form.names[1]) IN
    IF go \in DOMAIN ctx.functions THEN Refused(ctx)
    ELSE Item([ctx EXCEPT !.functions = (go :> Test) @@ @],
              <<[go |-> go, word |-> form.names[1], kind |-> "test", info |-> << >>]>>,
              ResolveAll(ctx, form.uses))

\* require-top-level-form: an expression stands in the entry only.
CompileTopLevel(form, ctx) ==
    IF ctx.main THEN Item(ctx, << >>, ResolveAll(ctx, form.uses)) ELSE Refused(ctx)

CompileModuleForm(form, ctx) ==
    CASE form.op = "defn" -> CompileDefn(form, ctx)
      [] form.op = "def" -> CompileDef(form, ctx)
      [] form.op = "declare" -> CompileDeclare(form, ctx)
      [] form.op = "deftest" -> CompileDeftest(form, ctx)
      [] form.op = "expr" -> CompileTopLevel(form, ctx)

CompileModuleBody(forms, ctx) ==
    LET added(acc, item) == [ctx |-> item.ctx, emits |-> acc.emits \o item.emits,
                             targets |-> Append(acc.targets, item.targets)]
    IN FoldLeft(LAMBDA acc, form : added(acc, CompileModuleForm(form, acc.ctx)),
                [ctx |-> ctx, emits |-> << >>, targets |-> << >>], forms)

(********************************* Macros *********************************)

\* expand-module-forms, for templates without calls of macros: a call of a macro
\* known where it stands becomes the uses of its template (more in Macros).  Macros of
\* the module are known behind their definition, which is dropped.
ExpandUses(macros, uses) ==
    FlattenSeq([i \in DOMAIN uses |->
        IF uses[i].args >= 0 /\ uses[i].name \in DOMAIN macros THEN macros[uses[i].name] ELSE <<uses[i]>>])
ExpandForm(macros, form) ==
    [form EXCEPT !.uses = ExpandUses(macros, @),
                 !.arities = [i \in DOMAIN @ |-> [@[i] EXCEPT !.uses = ExpandUses(macros, @)]]]
ExpandForms(macros, forms) ==
    FoldLeft(LAMBDA acc, form :
                IF form.op = "defmacro"
                THEN [acc EXCEPT !.macros = (Bare(form.names[1]) :> form.uses) @@ @]
                ELSE [acc EXCEPT !.forms = Append(@, ExpandForm(acc.macros, form))],
             [macros |-> macros, forms |-> << >>], forms).forms

\* collect-defmacros.
CollectDefmacros(forms) ==
    FoldLeft(LAMBDA out, form : (form.names[1] :> form.uses) @@ out, << >>,
             SelectSeq(forms, LAMBDA form : form.op = "defmacro"))

(********************************* Imports ********************************)

\* What is known of a compiled module: defs, Go names by word; info, what is
\* known of its functions; macros, their templates.
InfoOf(done, word) == IF word \in DOMAIN done.info THEN done.info[word] ELSE << >>

\* seed-one-export: prefix/word for each export.
SeedOneExport(ctx, prefix, pkg, done, word) ==
    IF word \in DOMAIN done.defs
    THEN LET ref == In(pkg, done.defs[word]) IN
         Register(BindModuleName(ctx, <<prefix, word>>, ref), ref, InfoOf(done, word))
    ELSE [ctx EXCEPT !.macros = (<<prefix, word>> :> done.macros[word]) @@ @]

\* seed-one-refer: the bare word for each that is referred, in place of what it
\* was bound to before.
SeedOneRefer(ctx, pkg, done, word) ==
    LET keys == {Bare(word)} \cup IF ctx.ns = "" THEN {} ELSE {<<ctx.ns, word>>}
        unbound == [ctx EXCEPT !.module = Restrict(@, DOMAIN @ \ keys)]
        ref == In(pkg, done.defs[word])
    IN IF word \notin done.exports THEN Refuse(ctx)
       ELSE IF word \in DOMAIN done.defs
       THEN Register(BindModuleName(unbound, Bare(word), ref), ref, InfoOf(done, word))
       ELSE [ctx EXCEPT !.macros = (Bare(word) :> done.macros[word]) @@ @]

\* A package is imported for an export that is not a macro.
NeedsGoImport(ctx, spec, compiled) ==
    ctx.package /\ spec.path # "prologue" /\ compiled.exports \cap DOMAIN compiled.defs # {}

PrefixOf(spec, provider) == IF spec.as = "" THEN provider.ns ELSE spec.as
Referred(spec, provider) == IF spec.refer = <<"all">> THEN provider.exports ELSE spec.refer

\* seed-one-import: used holds the prefixes of the imports before this one.
SeedOneImport(acc, spec, byPath, done) ==
    LET provider == byPath[spec.path]
        prefix == PrefixOf(spec, provider)
        compiled == done[spec.path]
        pkg == IF acc.ctx.package THEN GoPackage[provider.ns] ELSE ""
        named == [acc.ctx EXCEPT !.goImports = @ \cup IF NeedsGoImport(acc.ctx, spec, compiled) THEN {pkg} ELSE {}]
        exported == FoldLeft(LAMBDA c, w : SeedOneExport(c, prefix, pkg, compiled, w), named, provider.exports)
        referred == FoldLeft(LAMBDA c, w : SeedOneRefer(c, pkg, compiled, w), exported, Referred(spec, provider))
    IN IF \/ ~provider.header
          \/ prefix \in DOMAIN acc.used /\ acc.used[prefix] # spec.path
       THEN [acc EXCEPT !.ctx = Refuse(@)]
       ELSE [ctx |-> referred, used |-> (prefix :> spec.path) @@ acc.used]

\* with-implicit-prologue-import: the prelude comes first.
PrologueSpec == [path |-> "prologue", as |-> "", refer |-> <<"all">>]
Imports(mod) == IF mod.path = "prologue" THEN mod.imports ELSE <<PrologueSpec>> \o mod.imports
SeedImports(ctx, mod, byPath, done) ==
    FoldLeft(LAMBDA acc, spec : SeedOneImport(acc, spec, byPath, done),
             [ctx |-> ctx, used |-> << >>], Imports(mod)).ctx

\* apply-go-exports.
ApplyGoExports(mod, ctx) ==
    FoldLeft(LAMBDA acc, word :
                LET go == DefGoIdent(acc.ctx, word) IN
                IF go \in acc.ctx.globals THEN [acc EXCEPT !.ctx = Refuse(@)]
                ELSE [ctx |-> [BindModuleName(acc.ctx, Bare(word), go) EXCEPT !.globals = @ \cup {go}],
                      emits |-> Append(acc.emits, [go |-> go, word |-> word, kind |-> "variable", info |-> << >>])],
             [ctx |-> ctx, emits |-> << >>], mod.binds)

(******************************** The modules *****************************)

\* merge-defined-names: the word of every definition, declarations too.
MergeDefinedNames(emits) ==
    FoldLeft(LAMBDA out, e : (e.word :> e.go) @@ out, << >>, SelectSeq(emits, LAMBDA e : e.kind # "test"))
\* functions-call-info.
FunctionsCallInfo(emits) ==
    FoldLeft(LAMBDA out, e : (e.word :> e.info) @@ out, << >>, SelectSeq(emits, LAMBDA e : e.kind = "function"))
\* result-refs-package?
RefsPackage(targets, pkg) == \E i \in DOMAIN targets : \E j \in DOMAIN targets[i] : targets[i][j].go.pkg = pkg
\* validate-exports, of a module with a header.
ValidExports(mod, defs, macros) == mod.header => ToSet(mod.exports) \subseteq DOMAIN defs \cup DOMAIN macros

\* One module in a fresh context: what it emits and what importers see of it.
Compiled(mod, emits, defs, macros, body) ==
    [path |-> mod.path, ns |-> mod.ns, emits |-> emits, targets |-> body.targets, ctx |-> body.ctx,
     ok |-> body.ctx.ok /\ ValidExports(mod, defs, macros),
     defs |-> defs, exports |-> ToSet(mod.exports), macros |-> macros, info |-> FunctionsCallInfo(emits),
     goImports |-> body.ctx.goImports \cup IF RefsPackage(body.targets, "prologue") THEN {"prologue"} ELSE {}]
CompileModule(mod, fresh, byPath, done) ==
    LET result(emits, body) == Compiled(mod, emits, MergeDefinedNames(emits), CollectDefmacros(mod.forms), body)
        both(exported, body) == result(exported.emits \o body.emits, body)
        body(exported) ==
            both(exported, CompileModuleBody(ExpandForms(exported.ctx.macros, mod.forms), exported.ctx))
    IN body(ApplyGoExports(mod, SeedImports(fresh, mod, byPath, done)))

ByPath(modules) == [p \in {modules[i].path : i \in DOMAIN modules} |->
                        CHOOSE m \in ToSet(modules) : m.path = p]
Fresh(package) == [ok |-> TRUE, package |-> package, modules |-> << >>]
Failed(result) == [result EXCEPT !.ok = FALSE]
\* append-compile-acc.
Added(result, one) == [result EXCEPT !.modules = Append(@, one)]

\* compile-inline-modules: functions, variables and imported macros stay in the
\* context, the bindings of names do not.
CompileInline(modules, entry) ==
    LET added(acc, mod, one) ==
            IF ~acc.result.ok \/ ~one.ok THEN [acc EXCEPT !.result = Failed(@)]
            ELSE [result |-> Added(acc.result, one),
                  done |-> (mod.path :> one) @@ acc.done,
                  shared |-> [one.ctx EXCEPT !.module = << >>, !.goImports = {}]]
        step(acc, mod) ==
            added(acc, mod, CompileModule(mod, [acc.shared EXCEPT !.ns = mod.ns, !.main = mod.path = entry],
                                          ByPath(modules), acc.done))
    IN FoldLeft(step, [result |-> Fresh(FALSE), done |-> << >>, shared |-> Empty], modules).result

\* Two packages other than the entry's cannot have one name.
Taken(result, mod, entry) ==
    \E i \in DOMAIN result.modules : /\ entry \notin {mod.path, result.modules[i].path}
                                    /\ GoPackage[result.modules[i].ns] = GoPackage[mod.ns]

\* compile-package-modules: every module starts with nothing.
CompilePackages(modules, entry) ==
    LET fresh(mod) == [Empty EXCEPT !.package = TRUE, !.ns = mod.ns, !.exported = ToSet(mod.exports),
                                    !.main = mod.path = entry]
        added(acc, mod, one) ==
            IF ~acc.result.ok \/ ~one.ok \/ Taken(acc.result, mod, entry) THEN [acc EXCEPT !.result = Failed(@)]
            ELSE [result |-> Added(acc.result, one),
                  done |-> (mod.path :> one) @@ acc.done]
        step(acc, mod) == added(acc, mod, CompileModule(mod, fresh(mod), ByPath(modules), acc.done))
    IN FoldLeft(step, [result |-> Fresh(TRUE), done |-> << >>], modules).result

\* find-entry-function, over all functions of the emitted Go file.
FindEntryFunction(emits) ==
    LET mains == SelectSeq(emits, LAMBDA e : e.kind = "function" /\ e.word = "main") IN
    IF mains = << >> THEN << >> ELSE <<mains[1].go>>
=============================================================================

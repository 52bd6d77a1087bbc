------------------------------ MODULE Lowering ------------------------------
(***************************************************************************)
(* What a form is compiled to (compile-form-node in                        *)
(* libraries/compiler/lower.lib, compiled into                             *)
(* internal/compiler/lower_flag_gen.go): Go statements that go before the  *)
(* place of use, and a Go expression.  A node, of a form or of the result, *)
(* has a kind, words and children.                                         *)
(*                                                                         *)
(* Forms:  lit <<type, value>>; sym <<name>>; op <<name>> args (the        *)
(* operations of Ops); chain <<op>> args (= and the comparisons); fold     *)
(* <<op>> args (+ - * /); coll args (a literal of a vector, a set or a     *)
(* map); call (callee, args); if; do; let and vlet <<names>> (values,      *)
(* body...), vlet for volatile bindings; fn <<names>> (body); loop         *)
(* <<names>> (values, body...); recur args; update <<name>> (value);       *)
(* throw; defer; doto; doseq and for <<name>> (collection, body...);       *)
(* testing (body...); is (test); expect (body); try <<class, name, ...>>   *)
(* (a do for the body, one for each catch, one for finally if there is     *)
(* one more).                                                              *)
(***************************************************************************)
EXTENDS Naturals, Sequences, SequencesExt, FiniteSets, TLC

Node(k, n, c) == [k |-> k, n |-> n, c |-> c]

(*************************** Go code and its parts ************************)

Lit(type, v) == Node("lit", <<type, v>>, << >>)
NilIR == Lit("nil", "nil")
Id(x) == Node("id", <<x>>, << >>)
Rt(name, args) == Node("rt", <<name>>, args)
Body(stmts) == Node("body", << >>, stmts)
Iife(type, stmts) == Node("iife", <<type>>, stmts)
GoVar(x, e) == Node("var", <<x>>, <<e>>)
GoVarOf(x, type) == Node("vartype", <<x, type>>, << >>)
GoSet(x, e) == Node("set", <<x>>, <<e>>)
GoRet(e) == Node("ret", << >>, <<e>>)
Discard(e) == Node("expr", << >>, <<e>>)

\* form-result.  A part is what a form was compiled to; its kind is value,
\* string or bool for a Go expression of that type, defer for a form that is
\* the statement in "stmt", and error when the compiler refuses it.
Part(stmts, expr, kind, ctx) ==
    [stmts |-> stmts, expr |-> expr, kind |-> kind, stmt |-> << >>, ctx |-> ctx]
Refused(ctx) == Part(<< >>, NilIR, "error", ctx)

GoType(kind) == IF kind \in {"string", "bool"} THEN kind ELSE "Value"

\* coerce-form-value.
Coerced(part) ==
    CASE part.kind = "string" -> [part EXCEPT !.expr = Rt("NewString", <<@>>), !.kind = "value"]
      [] part.kind = "bool" -> [part EXCEPT !.expr = Rt("NewBool", <<@>>), !.kind = "value"]
      [] part.kind = "value" -> part
      [] part.kind \in {"defer", "error"} -> Refused(part.ctx)

\* What an operation does with an argument: wrap every kind, refuse a string,
\* leave strings as they are, or take a string or a value alone.
Argument(part, how) ==
    CASE how = "wrap" -> Coerced(part)
      [] how = "nostring" -> IF part.kind = "string" THEN Refused(part.ctx) ELSE Coerced(part)
      [] how = "any" -> IF part.kind = "bool" THEN Coerced(part) ELSE part
      [] how = "named" -> IF part.kind \in {"string", "value"} THEN part ELSE Refused(part.ctx)
      [] how = "path" -> CASE part.kind = "string" -> part
                           [] part.kind = "value" -> [part EXCEPT !.expr = Rt("Name", <<@>>)]
                           [] OTHER -> Refused(part.ctx)
      [] how = "text" -> CASE part.kind = "string" -> part
                           [] part.kind = "value" -> [part EXCEPT !.expr = Rt("Str", <<@>>), !.kind = "string"]
                           [] OTHER -> Refused(part.ctx)
      [] how = "string" -> IF part.kind = "string" THEN part ELSE Refused(part.ctx)
      [] how = "value" -> IF part.kind = "value" THEN part ELSE Refused(part.ctx)

\* The operations: how many arguments, what is done with the first and with
\* the others, the runtime function, and the kind of the result.
Op(lo, hi, first, others, rt, kind) ==
    [lo |-> lo, hi |-> hi, first |-> first, others |-> others, rt |-> rt, kind |-> kind]
Many == 6
One(how, rt, kind) == Op(1, 1, how, how, rt, kind)
Two(how, rt, kind) == Op(2, 2, how, how, rt, kind)

\* unary-runtime-ops, binary-runtime-ops, variadic-runtime-ops.
ArithmeticOps ==
    "bit-not" :> One("wrap", "BitNot", "value") @@ "first" :> One("wrap", "First", "value")
    @@ "mod" :> Two("wrap", "Mod", "value") @@ "max" :> Op(0, Many, "wrap", "wrap", "Max", "value")
    @@ "rest" :> One("wrap", "Rest", "value") @@ "quot" :> Two("wrap", "Quot", "value")
PredicateOps ==
    "nil?" :> One("wrap", "IsNil", "bool") @@ "empty?" :> One("wrap", "IsEmpty", "bool")
    @@ "count" :> One("wrap", "Count", "value")
TextOps ==
    "str" :> Op(0, Many, "any", "any", "Str", "string")
    @@ "ex-info" :> Op(2, 3, "string", "wrap", "ExInfo", "value")
PrintOps == "println" :> Op(0, Many, "any", "any", "Println", "value")
\* Collections: what makes one out of another.
ChangeOps ==
    "assoc" :> Op(3, Many, "nostring", "nostring", "Assoc", "value")
    @@ "conj" :> Op(2, Many, "wrap", "wrap", "Conj", "value")
SequenceOps ==
    "seq" :> One("wrap", "Seq", "value") @@ "drop" :> Two("nostring", "Drop", "value")
    @@ "take" :> Two("nostring", "Take", "value")
LookupOps ==
    "cons" :> Two("nostring", "Cons", "value") @@ "get" :> Op(2, 3, "wrap", "wrap", "Get", "value")
NthOps ==
    "nth" :> Op(2, 3, "wrap", "wrap", "Nth", "value") @@ "not-empty" :> One("nostring", "NotEmpty", "value")
    @@ "type-of" :> One("wrap", "TypeOf", "value")
MapOps ==
    "vec" :> One("wrap", "Vec", "value") @@ "dissoc" :> Op(1, Many, "nostring", "nostring", "MapDissoc", "value")
    @@ "contains?" :> Two("nostring", "Contains", "bool")
MakeOps ==
    "list" :> Op(0, Many, "wrap", "wrap", "NewList", "value")
    @@ "array" :> Op(0, Many, "wrap", "wrap", "NewArray", "value")
    @@ "hash-map" :> Op(0, Many, "wrap", "wrap", "NewMap", "value")
JoinOps == "into" :> Two("value", "Into", "value") @@ "concat" :> Op(0, Many, "wrap", "wrap", "Concat", "value")
ExceptionOps ==
    "ex-message" :> One("wrap", "ExMessage", "value") @@ "ex-data" :> One("wrap", "ExData", "value")
    @@ "ex-cause" :> One("wrap", "ExCause", "value")
\* Mode :runtime-op.
CompareOps ==
    "compare" :> Two("wrap", "Compare", "value")
    @@ "==" :> Op(0, Many, "nostring", "nostring", "NumericEq", "bool")
NameOps ==
    "symbol" :> One("named", "Symbol", "value") @@ "name" :> One("named", "Name", "string")
    @@ "keyword" :> One("named", "Keyword", "value")
    @@ "format" :> Op(1, Many, "string", "wrap", "Format", "value")
HigherOrderOps ==
    "map" :> Op(2, Many, "nostring", "nostring", "Map", "value")
    @@ "sort-by" :> Op(2, 3, "nostring", "nostring", "SortBy", "value")
    @@ "apply" :> Op(2, Many, "nostring", "nostring", "Apply", "value")
FoldOps ==
    "pmap" :> Op(2, Many, "nostring", "nostring", "PMap", "value")
    @@ "filter" :> Two("nostring", "Filter", "value")
    @@ "reduce" :> Op(2, 3, "nostring", "nostring", "Reduce", "value")
SourceOps ==
    "doall" :> One("nostring", "DoAll", "value") @@ "some" :> Two("nostring", "Some", "value")
    @@ "set" :> One("nostring", "SetOf", "value") @@ "line-seq" :> One("nostring", "LineSeq", "value")
NumberOps ==
    "repeat" :> Op(1, 2, "wrap", "wrap", "Repeat", "value")
    @@ "range" :> Op(0, 3, "wrap", "wrap", "Range", "value")
    @@ "rand-int" :> One("nostring", "RandInt", "value")
ReadOps ==
    "to-json" :> One("nostring", "ToJSON", "string") @@ "from-json" :> One("string", "FromJSON", "value")
    @@ "open-file" :> One("path", "OpenFile", "value")
    @@ "file-to-strings" :> One("named", "FileToStrings", "value")
GoOps == "go-fn" :> One("path", "GoFunction", "value") @@ "go-fn-args" :> One("path", "GoFunctionArgs", "value")
DotOps ==
    ".write" :> Op(2, 2, "value", "text", "Write", "value")
    @@ ".endsWith" :> Two("text", "HasSuffix", "bool")
Ops == ArithmeticOps @@ PredicateOps @@ TextOps @@ PrintOps @@ ChangeOps @@ SequenceOps @@ LookupOps @@ NthOps @@ MapOps
       @@ MakeOps @@ JoinOps @@ ExceptionOps @@ CompareOps @@ NameOps @@ HigherOrderOps @@ FoldOps @@ SourceOps
       @@ NumberOps @@ ReadOps @@ GoOps @@ DotOps

\* How many arguments an operation has; some take pairs.
Accepts(name, count) ==
    /\ LET within(op) == count >= op.lo /\ (count <= op.hi \/ op.hi = Many) IN within(Ops[name])
    /\ name = "assoc" => count % 2 = 1
    /\ name = "hash-map" => count % 2 = 0

(******************************** Statements ******************************)

StmtsOf(parts) == FlattenSeq([i \in DOMAIN parts |-> parts[i].stmts])
ExprsOf(parts) == [i \in DOMAIN parts |-> parts[i].expr]
Failed(parts) == \E i \in DOMAIN parts : parts[i].kind = "error"
Final(s) == s[Len(s)]

\* do-form-stmt, do-prelude-stmts, do-iife-body.
FormStmt(part) == IF part.stmt # << >> THEN part.stmt ELSE <<Discard(part.expr)>>
Prelude(parts) ==
    FlattenSeq([i \in DOMAIN parts |->
        parts[i].stmts \o IF i < Len(parts) THEN FormStmt(parts[i]) ELSE << >>])
IifeBody(parts) ==
    Prelude(parts) \o (IF Final(parts).kind = "defer"
                       THEN FormStmt(Final(parts)) \o <<GoRet(NilIR)>>
                       ELSE <<GoRet(Final(parts).expr)>>)

\* next-form-temp.
Temp(ctx, prefix) == [name |-> prefix \o ToString(ctx.temps + 1),
                      ctx |-> [ctx EXCEPT !.temps = @ + 1]]

\* restore-outer-scope.
Restored(inner, outer) == [inner EXCEPT !.locals = outer.locals, !.loop = outer.loop]
WithLocal(ctx, name, kind) ==
    IF name = "_" THEN ctx ELSE [ctx EXCEPT !.locals = (name :> kind) @@ @]

(******************************* compile-form *****************************)

RECURSIVE Compile(_, _), Parts(_, _, _, _)

\* Forms in order, each in the context the one before left, as first and
\* others say.  A literal string becomes a constant where it is boxed.
Parts(forms, ctx, first, others) ==
    LET onward(part) == <<part>> \o Parts(Tail(forms), part.ctx, others, others)
    IN IF forms = << >> THEN << >> ELSE onward(Argument(Compile(forms[1], ctx), first))
Args(forms, ctx) == Parts(forms, ctx, "wrap", "wrap")
After(parts, ctx) == IF parts = << >> THEN ctx ELSE Final(parts).ctx

\* Operands, and what becomes of their expressions.
Using(parts, IR(_), kind, ctx) ==
    IF Failed(parts) THEN Refused(ctx)
    ELSE Part(StmtsOf(parts), IR(ExprsOf(parts)), kind, After(parts, ctx))

\* Mode :forms.  A body with a defer is a function of its own.
RECURSIVE FormParts(_, _)
FormParts(forms, ctx) ==
    LET onward(part) == <<part>> \o FormParts(Tail(forms), part.ctx)
    IN IF forms = << >> THEN << >> ELSE onward(Compile(forms[1], ctx))

FormsCode(parts, ctx) ==
    LET last == Final(parts)
        kind == IF last.kind = "defer" THEN "value" ELSE last.kind
    IN IF parts = << >> THEN Part(<< >>, NilIR, "value", ctx)
       ELSE IF Failed(parts) THEN Refused(ctx)
       ELSE IF \E i \in DOMAIN parts : parts[i].kind = "defer"
       THEN Part(<< >>, Iife(GoType(kind), IifeBody(parts)), kind, last.ctx)
       ELSE Part(Prelude(parts), last.expr, last.kind, last.ctx)
Forms(forms, ctx) == FormsCode(FormParts(forms, ctx), ctx)

\* Mode :call for the operations, for = and for a call.
CompileOp(e, ctx) ==
    LET compiled(op) == Using(Parts(e.c, ctx, op.first, op.others), LAMBDA args : Rt(op.rt, args), op.kind, ctx)
    IN IF Accepts(e.n[1], Len(e.c)) THEN compiled(Ops[e.n[1]]) ELSE Refused(ctx)

\* fold-call-to-ir.
CompileFold(e, ctx) ==
    LET Step(sofar, arg) == Rt("Arithmetic", <<sofar, arg>>)
    IN IF Len(e.c) < 2 THEN Refused(ctx)
       ELSE Using(Args(e.c, ctx), LAMBDA args : FoldLeft(Step, args[1], Tail(args)), "value", ctx)

\* eq-to-ir, comparison-to-ir.
ChainIR(rt, args) ==
    FoldLeft(LAMBDA sofar, i : Node("and", << >>, <<sofar, Rt(rt, <<args[i], args[i + 1]>>)>>),
             Rt(rt, <<args[1], args[2]>>), [i \in 1 .. Len(args) - 2 |-> i + 1])
CompileChain(e, ctx) ==
    IF Len(e.c) < 2 THEN Refused(ctx)
    ELSE Using(Args(e.c, ctx), LAMBDA args : ChainIR(IF e.n = <<"=">> THEN "Eq" ELSE "Lt", args), "bool", ctx)

CompileColl(e, ctx) == Using(Args(e.c, ctx), LAMBDA args : Rt("NewArray", args), "value", ctx)

\* symbol-to-ir; known-call-fun for the functions of the module.
CompileSym(e, ctx) ==
    LET name == e.n[1] IN
    IF name \in DOMAIN ctx.locals
    THEN Part(<< >>, Id(name), IF ctx.locals[name] = "mut" THEN "value" ELSE ctx.locals[name], ctx)
    ELSE IF name \in ctx.functions THEN Part(<< >>, Id(name), "value", ctx)
    ELSE Refused(ctx)

CompileCall(e, ctx) ==
    LET name == e.c[1].n[1]
        known == e.c[1].k = "sym" /\ name \in ctx.functions \ DOMAIN ctx.locals
    IN Using(Args(IF known THEN Tail(e.c) ELSE e.c, ctx),
             LAMBDA args : IF known THEN Node("go", <<name>>, args) ELSE Rt("Call", args), "value", ctx)

\* truthy-form-ir.
Test(part) ==
    CASE part.kind = "bool" -> part.expr
      [] part.kind = "value" -> Rt("IsTruthy", <<part.expr>>)
      [] part.kind = "string" -> Lit("gobool", "true")

\* Mutant: branches of different kinds are not made alike.
AlikeNot(part, other, always) == part

\* A branch of an if whose other branch is of another kind becomes a value.
Alike(part, other, always) == IF always \/ part.kind # other.kind THEN Coerced(part) ELSE part

IfCode(test, then0, else0, alone, ctx) ==
    LET then == Alike(then0, else0, alone)
        else == Alike(else0, then, FALSE)
        temp == Temp(else.ctx, "if_result_")
    IN IF Failed(<<test, then, else>>) \/ "defer" \in {test.kind, then.kind} THEN Refused(ctx)
       ELSE Part(test.stmts \o
                 <<GoVarOf(temp.name, GoType(then.kind)),
                   Node("if", << >>, <<Test(test),
                        Body(Append(then.stmts, GoSet(temp.name, then.expr))),
                        Body(Append(else.stmts, GoSet(temp.name, else.expr)))>>)>>,
                 Id(temp.name), then.kind, temp.ctx)
CompileIf(e, ctx) ==
    LET else(then) == IF Len(e.c) = 3 THEN Compile(e.c[3], then.ctx) ELSE Part(<< >>, NilIR, "value", then.ctx)
        branches(test, then) == IfCode(test, then, else(then), Len(e.c) = 2, ctx)
        tested(test) == branches(test, Compile(e.c[2], test.ctx))
    IN tested(Compile(e.c[1], ctx))

(******************************** Bindings ********************************)

\* The bindings of a let from the i-th on: their statements, and the context
\* of the body.
RECURSIVE Bindings(_, _, _, _)
Bindings(e, i, stmts, ctx) ==
    LET name == e.n[i]
        source == "__bind" \o ToString(i - 1)
        vars(part) == IF e.k = "vlet" THEN <<GoVar(source, part.expr), GoVar(name, Id(source))>>
                      ELSE <<GoVar(name, part.expr)>>
        bound(part) ==
            IF part.kind = "error" \/ (name # "_" /\ \E j \in 1 .. i - 1 : e.n[j] = name)
            THEN [ok |-> FALSE, stmts |-> stmts, ctx |-> ctx]
            ELSE Bindings(e, i + 1, stmts \o part.stmts \o vars(part),
                          WithLocal(part.ctx, name, IF e.k = "vlet" THEN "mut" ELSE part.kind))
        kept(raw) == IF e.k = "vlet" THEN Coerced(raw) ELSE raw
    IN IF i > Len(e.n) THEN [ok |-> TRUE, stmts |-> stmts, ctx |-> ctx] ELSE bound(kept(Compile(e.c[i], ctx)))

\* Mutant: the names of a let are still known behind it.
LetEndsNot(inner, outer) == inner

LetEnds(inner, outer) == Restored(inner, outer)

LetCode(bound, body, ctx) ==
    LET temp == Temp(body.ctx, "let_result_")
    IN IF ~bound.ok \/ body.kind = "error" THEN Refused(ctx)
       ELSE Part(<<GoVarOf(temp.name, GoType(body.kind)),
                   Node("block", << >>,
                        <<Body(bound.stmts \o body.stmts \o <<GoSet(temp.name, body.expr)>>)>>)>>,
                 Id(temp.name), body.kind, LetEnds(temp.ctx, ctx))
CompileLet(e, ctx) ==
    LET inside(bound) == LetCode(bound, Forms(SubSeq(e.c, Len(e.n) + 1, Len(e.c)), bound.ctx), ctx)
    IN inside(Bindings(e, 1, << >>, ctx))

\* Mode :fn with fn-to-ir; recur does not reach out of a function.
CompileFn(e, ctx) ==
    LET inner == [FoldLeft(LAMBDA c, p : WithLocal(c, p, "value"), ctx, e.n) EXCEPT !.loop = << >>]
        result(part) == IF part.kind = "defer"
                        THEN Part(<< >>, Iife("Value", IifeBody(<<part>>)), "value", part.ctx)
                        ELSE Coerced(part)
        code(part) ==
            IF part.kind = "error" \/ \E i, j \in DOMAIN e.n : i # j /\ e.n[i] = e.n[j] /\ e.n[i] # "_"
            THEN Refused(ctx)
            ELSE Part(<< >>, Node("fn", e.n, <<Body(Append(part.stmts, GoRet(part.expr)))>>), "value",
                      Restored(part.ctx, ctx))
    IN code(result(Compile(e.c[1], inner)))

CompileUpdate(e, ctx) ==
    LET name == e.n[1]
        set(part) ==
            IF ctx.locals[name] # "mut" \/ part.kind = "error" THEN Refused(ctx)
            ELSE Part(<< >>, Iife("Value", part.stmts \o <<GoSet(name, part.expr), GoRet(Id(name))>>),
                      "value", part.ctx)
    IN IF name \in DOMAIN ctx.locals THEN set(Coerced(Compile(e.c[1], ctx))) ELSE Refused(ctx)

\* Mode :loop.  A value is compiled with its own name known; the statements of
\* all the values go before the first binding.
RECURSIVE LoopBindings(_, _, _, _, _)
LoopBindings(e, i, stmts, vars, ctx) ==
    LET bound(part) ==
            IF part.kind = "error" \/ \E j \in 1 .. i - 1 : e.n[j] = e.n[i]
            THEN [ok |-> FALSE, stmts |-> stmts, ctx |-> ctx]
            ELSE LoopBindings(e, i + 1, stmts \o part.stmts, Append(vars, GoVar(e.n[i], part.expr)), part.ctx)
    IN IF i > Len(e.n) THEN [ok |-> TRUE, stmts |-> stmts \o vars, ctx |-> ctx]
       ELSE bound(Coerced(Compile(e.c[i], WithLocal(ctx, e.n[i], "mut"))))

\* Mutant: an iteration goes on with the body's result of the one before.
RecurThenNone(names) == Node("recur", << >>, << >>)

\* loop-recur-then.
RecurThen(names) == Node("recur", names, << >>)

\* loop-to-ir.
LoopCode(e, bound, body, ctx) ==
    IF ~bound.ok \/ body.kind = "error" THEN Refused(ctx)
    ELSE Part(<< >>,
              Iife("Value", bound.stmts \o
                   <<Node("for", << >>, <<Body(body.stmts \o
                       <<GoVar("__loopResult", body.expr), RecurThen(e.n),
                         GoRet(Id("__loopResult"))>>)>>)>>),
              "value", Restored(body.ctx, ctx))
CompileLoop(e, ctx) ==
    LET forms == SubSeq(e.c, Len(e.n) + 1, Len(e.c))
        around(bound) == LoopCode(e, bound, Coerced(Forms(forms, [bound.ctx EXCEPT !.loop = e.n])), ctx)
    IN IF forms = << >> THEN Refused(ctx) ELSE around(LoopBindings(e, 1, << >>, << >>, ctx))

CompileRecur(e, ctx) ==
    IF ctx.loop = << >> \/ Len(e.c) # Len(ctx.loop) THEN Refused(ctx)
    ELSE Using(Args(e.c, ctx), LAMBDA args : Rt("NewRecur", args), "value", ctx)

(***************************** Control forms ******************************)

CompileThrow(e, ctx) ==
    LET thrown(part) ==
            IF part.kind = "error" THEN Refused(ctx)
            ELSE Part(<< >>, Iife("Value", part.stmts \o <<Discard(Rt("Throw", <<part.expr>>)), GoRet(NilIR)>>),
                      "value", part.ctx)
    IN thrown(Coerced(Compile(e.c[1], ctx)))

CompileDefer(e, ctx) ==
    LET deferred(part) ==
            IF part.kind = "error" THEN Refused(ctx)
            ELSE [Part(part.stmts, NilIR, "defer", part.ctx)
                    EXCEPT !.stmt = <<Node("defer", << >>, <<part.expr>>)>>]
    IN deferred(Coerced(Compile(e.c[1], ctx)))

CompileDoto(e, ctx) ==
    LET step(part) == part.stmts \o <<Discard(Rt("Call", <<part.expr, Id("__doto")>>))>>
        code(parts) ==
            IF Failed(parts) THEN Refused(ctx)
            ELSE Part(<< >>, Iife("Value", parts[1].stmts \o <<GoVar("__doto", parts[1].expr)>>
                                           \o FlattenSeq([i \in 1 .. Len(parts) - 1 |-> step(parts[i + 1])])
                                           \o <<GoRet(Id("__doto"))>>),
                      "value", Final(parts).ctx)
    IN IF e.c = << >> THEN Refused(ctx) ELSE code(Args(e.c, ctx))

\* Mode :seq-bindings with one binding: mapcat-binding-to-ir around the body,
\* in doseq-to-ir.  The context of the body is that of what follows.
SeqCode(e, coll, body, ctx) ==
    LET each == IF e.k = "for" THEN Append(body.stmts, GoRet(Rt("NewArray", <<body.expr>>)))
                ELSE <<GoRet(Iife("Value", body.stmts \o <<Discard(body.expr), GoRet(Rt("NewArray", << >>))>>))>>
        walk == Rt("MapCat", <<Node("fn", e.n, <<Body(each)>>), coll.expr>>)
    IN IF Failed(<<coll, body>>) THEN Refused(ctx)
       ELSE Part(coll.stmts,
                 IF e.k = "for" THEN Iife("Value", <<GoRet(walk)>>)
                 ELSE Iife("Value", <<Discard(Rt("DoAll", <<walk>>)), GoRet(NilIR)>>),
                 "value", body.ctx)
CompileSeq(e, ctx) ==
    LET result(body) == IF e.k = "for" THEN Coerced(body) ELSE body
        over(coll) == SeqCode(e, coll, result(Forms(Tail(e.c), WithLocal(coll.ctx, e.n[1], "value"))), ctx)
    IN IF Len(e.c) < 2 THEN Refused(ctx) ELSE over(Coerced(Compile(e.c[1], ctx)))

\* testing-to-ir, is-to-ir, expect-exception-to-ir: the forms of a test.  "expect"
\* among the statements is the deferred check that something was thrown.
TestCode(e, body, ctx) ==
    LET ends == <<GoRet(NilIR)>>
    IN IF body.kind = "error" \/ (e.k = "is" /\ body.kind = "defer") THEN Refused(ctx)
       ELSE Part(<< >>,
                 Iife("Value",
                      CASE e.k = "testing" -> body.stmts \o <<Discard(body.expr)>> \o ends
                        [] e.k = "is" -> body.stmts \o <<Node("if", << >>, <<Test(body), Body(<< >>),
                                             Body(<<Discard(Rt("Throw", <<Lit("str", "failed")>>))>>)>>)>> \o ends
                        [] e.k = "expect" -> <<Node("expect", << >>, << >>)>> \o body.stmts
                                             \o <<Discard(body.expr)>> \o ends),
                 "value", body.ctx)
CompileTest(e, ctx) ==
    IF e.c = << >> THEN Refused(ctx)
    ELSE TestCode(e, IF e.k = "testing" THEN Forms(e.c, ctx) ELSE Compile(e.c[1], ctx), ctx)

\* catch-handler-to-ir: the handlers of a try from the i-th on, each in the
\* context the one before left.
Catches(e) == Len(e.n) \div 2
RECURSIVE Handlers(_, _, _)
Handlers(e, i, ctx) ==
    LET name == e.n[2 * i]
        bind == IF name = "_" THEN << >> ELSE <<GoVar(name, Id("__flag_thrown")), Discard(Id(name))>>
        handler(body) == <<[body EXCEPT !.expr = Iife("Value", bind \o body.stmts \o <<GoRet(body.expr)>>)]>>
                         \o Handlers(e, i + 1, body.ctx)
    IN IF i > Catches(e) THEN << >> ELSE handler(Coerced(Forms(e.c[i + 1].c, WithLocal(ctx, name, "value"))))

\* Mutant: the finally clause is set up behind the body.
TryStmtsLate(finally, inner) == inner \o finally

\* try-to-ir: the deferred finally comes before the function that recovers.
TryStmts(finally, inner) == finally \o inner

TryCode(e, body, handlers, finally, ctx) ==
    LET hasFinally == Len(e.c) > Catches(e) + 1
        deferred == IF hasFinally
                    THEN <<Node("deferdo", << >>, <<Body(Append(finally.stmts, Discard(finally.expr)))>>)>>
                    ELSE << >>
        recovering == <<Node("recover", [i \in 1 .. Catches(e) |-> e.n[2 * i - 1]], ExprsOf(handlers))>>
        result == "__flag_try_result"
    IN IF Failed(<<body>> \o handlers) \/ (hasFinally /\ finally.kind = "error") THEN Refused(ctx)
       ELSE IF Len(e.c) = 1 THEN body
       ELSE IF handlers = << >>
       THEN Part(<< >>, Iife("Value", TryStmts(deferred, body.stmts \o <<GoRet(body.expr)>>)), "value", finally.ctx)
       ELSE Part(<< >>,
                 Iife("Value", <<GoVarOf(result, "Value")>> \o
                      TryStmts(deferred,
                               <<Node("expr", << >>, <<Iife("", recovering \o body.stmts
                                                               \o <<GoSet(result, body.expr)>>)>>)>>)
                      \o <<GoRet(Id(result))>>),
                 "value", IF hasFinally THEN finally.ctx ELSE Final(handlers).ctx)
CompileTry(e, ctx) ==
    LET ends(body, handlers) ==
            TryCode(e, body, handlers, Forms(Final(e.c).c, After(handlers, body.ctx)), ctx)
        caught(body) == ends(body, Handlers(e, 1, body.ctx))
    IN caught(Coerced(Forms(e.c[1].c, ctx)))

Compile(e, ctx) ==
    CASE e.k = "lit" -> Part(<< >>, IF e.n[1] \in {"bool", "str"} THEN Lit("go" \o e.n[1], e.n[2])
                                    ELSE Lit(e.n[1], e.n[2]),
                             IF e.n[1] = "bool" THEN "bool" ELSE IF e.n[1] = "str" THEN "string" ELSE "value", ctx)
      [] e.k = "sym" -> CompileSym(e, ctx)
      [] e.k = "op" -> CompileOp(e, ctx)
      [] e.k = "chain" -> CompileChain(e, ctx)
      [] e.k = "fold" -> CompileFold(e, ctx)
      [] e.k = "coll" -> CompileColl(e, ctx)
      [] e.k = "call" -> CompileCall(e, ctx)
      [] e.k = "if" -> CompileIf(e, ctx)
      [] e.k = "do" -> Forms(e.c, ctx)
      [] e.k \in {"let", "vlet"} -> CompileLet(e, ctx)
      [] e.k = "fn" -> CompileFn(e, ctx)
      [] e.k = "update" -> CompileUpdate(e, ctx)
      [] e.k = "loop" -> CompileLoop(e, ctx)
      [] e.k = "recur" -> CompileRecur(e, ctx)
      [] e.k = "throw" -> CompileThrow(e, ctx)
      [] e.k = "defer" -> CompileDefer(e, ctx)
      [] e.k = "doto" -> CompileDoto(e, ctx)
      [] e.k \in {"doseq", "for"} -> CompileSeq(e, ctx)
      [] e.k \in {"testing", "is", "expect"} -> CompileTest(e, ctx)
      [] e.k = "try" -> CompileTry(e, ctx)

\* A function body: the result is a value.
Compiled(e, params, functions) ==
    LET ctx == [locals |-> [p \in params |-> "value"], loop |-> << >>, temps |-> 0, functions |-> functions] IN
    Coerced(Forms(<<e>>, ctx))
=============================================================================

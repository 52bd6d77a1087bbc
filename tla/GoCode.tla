------------------------------- MODULE GoCode -------------------------------
(***************************************************************************)
(* What Go makes of the code Lowering builds: whether it compiles (every   *)
(* name declared once in its block, known and used, every value of the     *)
(* type its place asks for), and what it does when it runs.  Go is not     *)
(* part of the repository; the runtime functions are known by the types in *)
(* their signatures, and all but the ones that decide, call, raise or      *)
(* build an array are left uninterpreted.                                  *)
(***************************************************************************)
EXTENDS Naturals, Sequences, SequencesExt, FiniteSets, TLC

(******************************* Does it build ****************************)

\* The types the parameters of a runtime function ask for.
Wants(rt, i) ==
    CASE rt \in {"NewString", "FromJSON", "OpenFile", "GoFunction", "GoFunctionArgs", "HasSuffix"} -> {"string"}
      [] rt \in {"Format", "ExInfo"} /\ i = 1 -> {"string"}
      [] rt = "Write" /\ i = 2 -> {"string"}
      [] rt = "NewBool" -> {"bool"}
      [] rt = "FileToStrings" -> {"string", "Value"}
      [] rt \in {"Str", "Println", "Name", "Symbol", "Keyword"} -> {"string", "bool", "Value"}
      [] OTHER -> {"Value"}
Gives(rt) == CASE rt \in {"IsTruthy", "IsNil", "IsEmpty", "Contains", "NumericEq", "Eq", "Lt", "HasSuffix"} -> "bool"
               [] rt \in {"Str", "Name", "ToJSON"} -> "string"
               [] OTHER -> "Value"

LitType(type) == CASE type = "gobool" -> "bool" [] type = "gostr" -> "string" [] OTHER -> "Value"

\* Whether code reads the variable x of the scope around it.
RECURSIVE Reads(_, _)
Reads(code, x) ==
    IF code = << >> THEN FALSE
    ELSE LET n == code[1]
             rest == Reads(Tail(code), x)
         IN CASE n.k = "id" -> n.n[1] = x \/ rest
              [] n.k = "var" -> Reads(n.c, x) \/ (n.n[1] # x /\ rest)
              [] n.k = "vartype" -> n.n[1] # x /\ rest
              [] n.k = "fn" -> (x \notin ToSet(n.n) /\ Reads(n.c, x)) \/ rest
              [] n.k = "recover" -> (x \notin {"r", "__flag_thrown"} /\ Reads(n.c, x)) \/ rest
              [] OTHER -> Reads(n.c, x) \/ rest

RECURSIVE TypeOf(_, _), Builds(_, _, _)

\* The type of an expression where env gives the variables theirs, or "none".
TypeOf(e, env) ==
    CASE e.k = "lit" -> LitType(e.n[1])
      [] e.k = "id" -> IF e.n[1] \in DOMAIN env THEN env[e.n[1]] ELSE "none"
      [] e.k = "rt" -> IF \A i \in DOMAIN e.c : TypeOf(e.c[i], env) \in Wants(e.n[1], i)
                       THEN Gives(e.n[1]) ELSE "none"
      [] e.k = "go" -> IF \A i \in DOMAIN e.c : TypeOf(e.c[i], env) = "Value" THEN "Value" ELSE "none"
      [] e.k = "and" -> IF \A i \in DOMAIN e.c : TypeOf(e.c[i], env) = "bool" THEN "bool" ELSE "none"
      [] e.k = "iife" -> IF Builds(e.c, ("" :> e.n[1]) @@ env, {}) THEN e.n[1] ELSE "none"
      [] e.k = "fn" -> IF Builds(e.c[1].c, [x \in ToSet(e.n) \cup {"args"} |-> IF x = "args" THEN "args" ELSE "Value"]
                                           @@ ("" :> "Value") @@ env,
                                 ToSet(e.n) \cup {"args"})
                          /\ \A x \in ToSet(e.n) \ {"_"} : Reads(e.c[1].c, x)
                       THEN "Value" ELSE "none"
      [] OTHER -> "none"

\* Statements in a block where the names of "here" are declared already; env
\* gives "" the result type of the function around them.
Builds(stmts, env, here) ==
    IF stmts = << >> THEN TRUE
    ELSE LET s == stmts[1]
             rest == Tail(stmts)
             Declares(x, type) ==
                 IF x = "_" THEN type # "none" /\ Builds(rest, env, here)
                 ELSE /\ type # "none" /\ x \notin here /\ Reads(rest, x)
                      /\ Builds(rest, (x :> type) @@ env, here \cup {x})
             Goes(ok) == ok /\ Builds(rest, env, here)
         IN CASE s.k = "var" -> Declares(s.n[1], TypeOf(s.c[1], env))
              [] s.k = "vartype" -> Declares(s.n[1], s.n[2])
              [] s.k = "set" -> Goes(s.n[1] \in DOMAIN env /\ env[s.n[1]] = TypeOf(s.c[1], env))
              [] s.k = "ret" -> Goes(TypeOf(s.c[1], env) = env[""])
              [] s.k = "expr" -> Goes(IF s.c[1].k = "iife" /\ s.c[1].n[1] = "" THEN Builds(s.c[1].c, ("" :> "") @@ env, {})
                                      ELSE TypeOf(s.c[1], env) # "none")
              [] s.k \in {"block", "for", "deferdo"} -> Goes(Builds(s.c[1].c, env, {}))
              [] s.k = "if" -> Goes(/\ TypeOf(s.c[1], env) = "bool"
                                    /\ Builds(s.c[2].c, env, {}) /\ Builds(s.c[3].c, env, {}))
              [] s.k = "expect" -> Goes(TRUE)
              [] s.k = "recur" -> Goes(\A i \in DOMAIN s.n : s.n[i] \in DOMAIN env /\ env[s.n[i]] = "Value")
              [] s.k = "defer" -> Goes(TypeOf(s.c[1], env) = "Value")
              [] s.k = "recover" -> Goes(\A i \in DOMAIN s.c :
                                           TypeOf(s.c[i], ("r" :> "any") @@ ("__flag_thrown" :> "Value") @@ env) = "Value")

(******************************* What it does *****************************)

\* A value of the type t: a word, or made of others.
Word(t, w) == [t |-> t, w |-> w, v |-> << >>]
Val(t, v) == [t |-> t, w |-> "", v |-> v]
Nil == Word("nil", "nil")
Bool(b) == Word("bool", IF b THEN "true" ELSE "false")
Truthy(v) == v # Nil /\ v # Bool(FALSE)

\* A value as another program may see it.
RECURSIVE Shown(_)
Shown(v) == [v EXCEPT !.v = IF v.t = "fn" THEN << >> ELSE [i \in DOMAIN @ |-> Shown(@[i])]]

\* CatchMatches in runtime/exception.go.
CatchMatches(class) == class \in {"Exception", "Throwable", ":default"}

\* A runtime function that neither calls, raises nor writes.
Pure(rt, args) ==
    CASE rt \in {"NewString", "NewBool", "DoAll"} -> args[1]
      [] rt = "IsTruthy" -> Bool(Truthy(args[1]))
      [] rt = "Lt" -> Bool(Shown(args[1]) # Shown(args[2]))
      [] rt \in {"OpenFile", "GoFunction", "GoFunctionArgs"} /\ args[1].t = "Name" -> Val(rt, args[1].v)
      [] rt \in {"HasSuffix", "Write"} -> Val(rt, [i \in DOMAIN args |-> IF args[i].t = "Str" THEN args[i].v[1] ELSE args[i]])
      [] rt = "IsNil" -> Bool(args[1] = Nil)
      [] rt = "Eq" -> Bool(Shown(args[1]) = Shown(args[2]))
      [] rt = "NewArray" -> Val("arr", args)
      [] rt = "NewRecur" -> Val("recur", args)
      [] OTHER -> Val(rt, args)

\* The state of a run: the variables' values, and what was called.
Fresh == [mem |-> << >>, log |-> << >>]
Alloc(st, v) == [st EXCEPT !.mem = Append(@, v)]
Logged(st, name, args) == [st EXCEPT !.log = Append(@, Val(name, [i \in DOMAIN args |-> Shown(args[i])]))]

\* How an expression or a block ends: "val", "next" and "ret" are ordinary,
\* "again" is continue, "panic" unwinds.
Ends(k, v, st) == [k |-> k, v |-> v, st |-> st]
Panics(what, st) == Ends("panic", Word("str", what), st)
Rounds == 3

\* What ends well goes on.
Unless(out, F(_)) == IF out.k = "panic" THEN out ELSE F(out)
Returned(out) == Unless(out, LAMBDA o : Ends("val", o.v, o.st))

RECURSIVE Ev(_, _, _), EvAll(_, _, _, _), Apply(_, _, _), Each(_, _, _, _), Exec(_, _, _, _), Unwind(_, _, _), Again(_, _, _, _)

\* A function's body, then what it deferred, the latest first.
Invoke(stmts, env, st) ==
    LET left(out) == Unwind(out.defers, Ends(out.k, out.v, out.st), env) IN
    left(Exec(stmts, env, st, << >>))

Apply(f, args, st) ==
    IF f.t = "known" THEN Ends("val", IF args = << >> THEN Nil ELSE args[Len(args)], Logged(st, f.w, args))
    ELSE IF f.t # "fn" THEN Panics("not a function", st)
    ELSE LET params == f.v[1].params
             base == Len(st.mem)
         IN IF Len(args) # Len(params) THEN Panics("arity", st)
            ELSE Returned(Invoke(f.v[1].body,
                                 [x \in ToSet(params) |-> base + CHOOSE i \in DOMAIN params : params[i] = x] @@ f.v[1].env,
                                 FoldLeft(Alloc, st, args)))

\* MapCat: f on every item, in order; the results are arrays.
Each(f, items, sofar, st) ==
    IF items = << >> THEN Ends("val", Val("arr", sofar), st)
    ELSE Unless(Apply(f, <<items[1]>>, st), LAMBDA out :
         IF out.v.t # "arr" THEN Panics("not a collection", out.st)
         ELSE Each(f, Tail(items), sofar \o out.v.v, out.st))

\* Operands in order; a variable's value is taken when all of them are known.
EvAll(es, env, st, sofar) ==
    IF Len(sofar) = Len(es)
    THEN Ends("val", [i \in DOMAIN es |-> IF es[i].k = "id" /\ es[i].n[1] \in DOMAIN env
                                          THEN st.mem[env[es[i].n[1]]] ELSE sofar[i]], st)
    ELSE Unless(Ev(es[Len(sofar) + 1], env, st), LAMBDA out : EvAll(es, env, out.st, Append(sofar, out.v)))

\* A call of the runtime.
Rtc(rt, args, st) ==
    CASE rt = "Call" -> Apply(args[1], Tail(args), st)
      [] rt = "Throw" -> Ends("panic", args[1], st)
      [] rt = "Println" -> Ends("val", Nil, Logged(st, rt, args))
      [] rt = "MapCat" -> IF args[2].t # "arr" THEN Panics("not a collection", st)
                          ELSE Each(args[1], args[2].v, << >>, st)
      [] OTHER -> Ends("val", Pure(rt, args), st)

Ev(e, env, st) ==
    CASE e.k = "lit" -> Ends("val", CASE e.n[1] = "gobool" -> Word("bool", e.n[2])
                                      [] e.n[1] = "gostr" -> Word("str", e.n[2])
                                      [] OTHER -> Word(e.n[1], e.n[2]), st)
      [] e.k = "id" -> Ends("val", IF e.n[1] \in DOMAIN env THEN st.mem[env[e.n[1]]]
                                   ELSE Word("known", e.n[1]), st)
      [] e.k = "fn" -> Ends("val", Val("fn", <<[params |-> e.n, body |-> e.c[1].c, env |-> env]>>), st)
      [] e.k = "iife" -> Returned(Invoke(e.c, env, st))
      [] e.k = "and" -> Unless(Ev(e.c[1], env, st), LAMBDA left :
                               IF Truthy(left.v) THEN Ev(e.c[2], env, left.st) ELSE left)
      [] e.k \in {"go", "rt"} ->
           Unless(EvAll(e.c, env, st, << >>), LAMBDA args :
                  IF e.k = "go" THEN Apply(Word("known", e.n[1]), args.v, args.st) ELSE Rtc(e.n[1], args.v, args.st))

\* The deferred calls of a function that ended as "out" says.
Unwind(defers, out, env) ==
    IF defers = << >> THEN out
    ELSE LET d == defers[Len(defers)]
             caught == {i \in DOMAIN d.s.n : CatchMatches(d.s.n[i])}
             first == CHOOSE i \in caught : \A j \in caught : i <= j
             entered == Alloc(out.st, out.v)
             in == [x \in {"r", "__flag_thrown"} |-> Len(entered.mem)] @@ d.env
             handled(h) == Ends("next", Nil, [h.st EXCEPT !.mem[d.env["__flag_try_result"]] = h.v])
             ran(run) == [out EXCEPT !.st = run.st]
         IN Unwind(Front(defers),
                   CASE d.s.k = "expect" ->
                          IF out.k = "panic" THEN Ends("ret", Nil, out.st) ELSE Panics("expected exception", out.st)
                     [] d.s.k = "recover" ->
                          IF out.k # "panic" \/ caught = {} THEN out
                          ELSE Unless(Ev(d.s.c[first], in, entered), handled)
                     [] d.s.k = "defer" -> Unless(Apply(d.f, << >>, out.st), ran)
                     [] d.s.k = "deferdo" -> Unless(Invoke(d.s.c[1].c, d.env, out.st), ran), env)

Again(body, env, st, rounds) ==
    LET ended(out) == IF out.k = "again" THEN Again(body, env, out.st, rounds - 1) ELSE out IN
    IF rounds = 0 THEN Panics("rounds", st) ELSE ended(Exec(body, env, st, << >>))

Exec(stmts, env, st, defers) ==
    IF stmts = << >> THEN [k |-> "next", v |-> Nil, st |-> st, defers |-> defers]
    ELSE LET s == stmts[1]
             Stops(out) == [k |-> out.k, v |-> out.v, st |-> out.st, defers |-> defers]
             Goes(e, st2, defers2) == Exec(Tail(stmts), e, st2, defers2)
             Left(r) == IF r.k = "next" THEN Goes(env, r.st, r.defers) ELSE r
             Later(f, st2) == Goes(env, st2, Append(defers, [s |-> s, f |-> f, env |-> env]))
             Ran(out) ==
                CASE out.k = "panic" -> Stops(out)
                  [] out.k # "panic" /\ s.k = "var" -> Goes((s.n[1] :> Len(out.st.mem) + 1) @@ env, Alloc(out.st, out.v), defers)
                  [] out.k # "panic" /\ s.k = "set" -> Goes(env, [out.st EXCEPT !.mem[env[s.n[1]]] = out.v], defers)
                  [] out.k # "panic" /\ s.k = "ret" -> Stops(Ends("ret", out.v, out.st))
                  [] out.k # "panic" /\ s.k = "expr" -> Goes(env, out.st, defers)
                  [] out.k # "panic" /\ s.k = "defer" -> Later(out.v, out.st)
                  [] out.k # "panic" /\ s.k = "if" ->
                       Left(Exec(s.c[IF Truthy(out.v) THEN 2 ELSE 3].c, env, out.st, defers))
         IN CASE s.k = "vartype" -> Goes((s.n[1] :> Len(st.mem) + 1) @@ env, Alloc(st, Nil), defers)
              [] s.k = "recur" ->
                   LET r == st.mem[env["__loopResult"]] IN
                   IF r.t # "recur" THEN Goes(env, st, defers)
                   ELSE IF Len(r.v) # Len(s.n) THEN Stops(Panics("recur arity mismatch", st))
                   ELSE Stops(Ends("again", Nil,
                            [st EXCEPT !.mem = [a \in DOMAIN @ |->
                                IF \E i \in DOMAIN s.n : env[s.n[i]] = a
                                THEN r.v[CHOOSE i \in DOMAIN s.n : env[s.n[i]] = a] ELSE @[a]]]))
              [] s.k \in {"recover", "expect", "deferdo"} -> Later(Nil, st)
              [] s.k = "block" -> Left(Exec(s.c[1].c, env, st, defers))
              [] s.k = "for" -> Stops(Again(s.c[1].c, env, st, Rounds))
              [] s.k \in {"var", "set", "ret", "expr", "defer", "if"} -> Ran(Ev(s.c[1], env, st))
=============================================================================
